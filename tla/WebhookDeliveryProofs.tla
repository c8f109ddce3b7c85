------------------------ MODULE WebhookDeliveryProofs ------------------------
(***************************************************************************)
(* WebhookDelivery's safety, for any events, endpoints and dispatchers and *)
(* any number of replays and crashes.  FanOutComplete holds because a      *)
(* dispatcher knows, for the event in hand, that whoever is owed it has a  *)
(* row already or is still on its list (Fanning), and because no row ever  *)
(* disappears.  LedgerConsistent holds because the count a dispatcher      *)
(* writes is computed from a value in range, however stale.                *)
(*                                                                         *)
(* SettledHonestly needs more: no attempt number a dispatcher read or a    *)
(* row records exceeds the POSTs made since the row was armed (HonestInv). *)
(* A replay resets that count, so it must not happen behind a dispatcher's *)
(* back: the theorem is about QuietSpec, with any number of dispatchers.   *)
(***************************************************************************)
EXTENDS WebhookDelivery, TLAPS

(* The bounds on attempts, as numbers. *)
LEMMA Numbers ==
  /\ MaxAttempts \in Nat /\ MaxAttempts > 0
  /\ \A t \in Try : t[1] \in Delivery /\ t[2] \in Nat /\ t[2] < MaxAttempts
BY ConstantsAssumption DEF Try

(* Nothing is owed, created or tried before the first event. *)
LEMMA InvInit == Init => Inv
<1> SUFFICES ASSUME Init PROVE Inv
  OBVIOUS
<1>1. TypeOK
  BY Numbers DEF Init, TypeOK, Pc, Status
<1>2. OwedInv /\ FanOutComplete
  BY DEF Init, OwedInv, FanOutComplete
<1>3. DispatcherInv
  BY DEF Init, DispatcherInv, Fanning, Trying
<1>4. DeliveredIsReceived /\ LedgerConsistent
  BY DEF Init, DeliveredIsReceived, LedgerConsistent
<1> QED
  BY <1>1, <1>2, <1>3, <1>4 DEF Inv

-----------------------------------------------------------------------------
(* A row's UPDATE with an attempt count in range keeps the ledger's types. *)
LEMMA TypeMark ==
  ASSUME TypeOK, NEW t \in Try, NEW s \in Status, MarkDelivery(t[1], s, t[2] + 1)
  PROVE  /\ status' \in [Delivery -> Status]
         /\ attempt' \in [Delivery -> 0 .. MaxAttempts]
         /\ rowId' \in [Delivery -> Nat]
         /\ lastRow' \in Nat
         /\ resting' \subseteq Delivery
<1>1. t[1] \in Delivery /\ t[2] + 1 \in 0 .. MaxAttempts
  BY Numbers
<1> QED
  BY <1>1 DEF MarkDelivery, TypeOK

(* Type correctness of what others do. *)
LEMMA TypeEnvironment == Inv /\ (Environment \/ Replay) => TypeOK'
<1> SUFFICES ASSUME Inv, Environment \/ Replay PROVE TypeOK'
  OBVIOUS
<1> USE DEF ledgerVars, localVars, consumerVars, boundVars
<1>0. TypeOK
  BY DEF Inv
<1>1. ASSUME NEW e \in Event, Commit(e) PROVE TypeOK'
  BY <1>0, <1>1 DEF Commit, TypeOK
<1>2. ASSUME NEW p \in Endpoint, RegisterWebhook(p) \/ DisableWebhook(p) PROVE TypeOK'
  BY <1>0, <1>2 DEF RegisterWebhook, DisableWebhook, TypeOK
<1>3. ASSUME NEW d \in Delivery, BackoffElapses(d) PROVE TypeOK'
  BY <1>0, <1>3 DEF BackoffElapses, TypeOK
<1>4. ASSUME NEW g \in Gateway, NEW scope, ReplayDead(g, scope) PROVE TypeOK'
  <2>1. 0 \in 0 .. MaxAttempts /\ "pending" \in Status /\ "replayed" \in Pc
    BY Numbers DEF Status, Pc
  <2>2. /\ status' \in [Delivery -> Status]
        /\ attempt' \in [Delivery -> 0 .. MaxAttempts]
        /\ posts' \in [Delivery -> Nat]
        /\ resting' \subseteq Delivery
    BY <1>0, <1>4, <2>1 DEF ReplayDead, TypeOK
  <2>3. pc' \in [Dispatcher -> Pc] /\ replays' \in Nat
    <3>1. pc' = [pc EXCEPT ![g] = "replayed"] /\ pc \in [Dispatcher -> Pc]
      BY <1>0, <1>4 DEF ReplayDead, Goto, TypeOK
    <3>2. replays' = replays + 1 /\ replays \in Nat
      BY <1>0, <1>4 DEF ReplayDead, TypeOK
    <3>3. pc' \in [Dispatcher -> Pc]
      BY <2>1, <3>1
    <3> QED
      BY <3>2, <3>3
  <2> QED
    BY <1>0, <1>4, <2>2, <2>3 DEF ReplayDead, TypeOK
<1> QED
  BY <1>1, <1>2, <1>3, <1>4 DEF Environment, Replay

(* Type correctness of a dispatcher's steps. *)
LEMMA TypeDispatcher ==
  ASSUME Inv, NEW x \in Dispatcher, DispatcherStep(x) \/ Crash(x) PROVE TypeOK'
<1> USE DEF ledgerVars, localVars, consumerVars, boundVars
<1>0. TypeOK
  BY DEF Inv
<1>1. ASSUME RunOnce(x) PROVE TypeOK'
  BY <1>0, <1>1 DEF RunOnce, Goto, TypeOK, Pc
<1>2. ASSUME EndpointsFor(x) PROVE TypeOK'
  <2>1. PICK e \in todo[x] : event' = [event EXCEPT ![x] = e]
    BY <1>2 DEF EndpointsFor
  <2>2. e \in Event
    BY <1>0 DEF TypeOK
  <2>3. event' \in [Dispatcher -> Event \cup {NoEvent}]
    BY <1>0, <2>1, <2>2 DEF TypeOK
  <2> QED
    BY <1>0, <1>2, <2>3 DEF EndpointsFor, Goto, TypeOK, Pc
<1>3. ASSUME CreateDelivery(x) PROVE TypeOK'
  <2>1. PICK p \in targets[x] :
          /\ targets' = [targets EXCEPT ![x] = @ \ {p}]
          /\ IF status[<<p, event[x]>>] = "none"
               THEN /\ status' = [status EXCEPT ![<<p, event[x]>>] = "pending"]
                    /\ lastRow' = lastRow + 1
                    /\ rowId' = [rowId EXCEPT ![<<p, event[x]>>] = lastRow']
               ELSE UNCHANGED <<status, lastRow, rowId>>
    BY <1>3 DEF CreateDelivery
  <2>2. targets' \in [Dispatcher -> SUBSET Endpoint]
    BY <1>0, <2>1 DEF TypeOK
  <2>3. /\ status' \in [Delivery -> Status]
        /\ lastRow' \in Nat
        /\ rowId' \in [Delivery -> Nat]
    <3>1. /\ status \in [Delivery -> Status] /\ rowId \in [Delivery -> Nat]
          /\ lastRow \in Nat /\ lastRow + 1 \in Nat
      BY <1>0 DEF TypeOK
    <3>2. CASE status[<<p, event[x]>>] = "none"
      BY <2>1, <3>1, <3>2 DEF Status
    <3>3. CASE status[<<p, event[x]>>] # "none"
      BY <2>1, <3>1, <3>3
    <3> QED
      BY <3>2, <3>3
  <2> QED
    BY <1>0, <1>3, <2>2, <2>3 DEF CreateDelivery, TypeOK
<1>4. ASSUME MarkFannedOut(x) PROVE TypeOK'
  BY <1>0, <1>4 DEF MarkFannedOut, Goto, TypeOK, Pc
<1>5. ASSUME DueDeliveries(x) PROVE TypeOK'
  <2>1. ASSUME NEW d \in Delivery, status[d] \in {"pending", "retrying"}
        PROVE  <<d, attempt[d]>> \in Try
    BY <2>1, Numbers DEF Inv, TypeOK, LedgerConsistent, Try
  <2>2. batch' \in [Dispatcher -> SUBSET Try]
    BY <1>0, <1>5, <2>1 DEF DueDeliveries, TypeOK
  <2> QED
    BY <1>0, <1>5, <2>2 DEF DueDeliveries, Goto, TypeOK, Pc
<1>6. ASSUME Block(x) PROVE TypeOK'
  <2>1. PICK t \in batch[x] :
          /\ MarkDelivery(t[1], "blocked", t[2] + 1)
          /\ batch' = [batch EXCEPT ![x] = @ \ {t}]
    BY <1>6 DEF Block
  <2>2. t \in Try /\ "blocked" \in Status
    BY <1>0 DEF TypeOK, Status
  <2>3. batch' \in [Dispatcher -> SUBSET Try]
    BY <1>0, <2>1 DEF TypeOK
  <2> QED
    BY <1>0, <1>6, <2>1, <2>2, <2>3, TypeMark DEF Block, TypeOK
<1>7. ASSUME Attempt(x) PROVE TypeOK'
  <2>1. PICK t \in batch[x] :
          /\ try' = [try EXCEPT ![x] = t]
          /\ batch' = [batch EXCEPT ![x] = @ \ {t}]
    BY <1>7 DEF Attempt
  <2>2. t \in Try
    BY <1>0 DEF TypeOK
  <2>3. try' \in [Dispatcher -> Try \cup {NoTry}] /\ batch' \in [Dispatcher -> SUBSET Try]
    BY <1>0, <2>1, <2>2 DEF TypeOK
  <2> QED
    BY <1>0, <1>7, <2>3 DEF Attempt, Goto, TypeOK, Pc
<1>8. ASSUME Post(x) PROVE TypeOK'
  <2>1. try[x][1] \in Delivery
    BY <1>8, Numbers DEF Inv, DispatcherInv, Trying, Post
  <2>2. posts' \in [Delivery -> Nat]
    BY <1>0, <1>8, <2>1 DEF Post, TypeOK
  <2>3. answer' \in [Dispatcher -> BOOLEAN] /\ received' \subseteq Delivery
    BY <1>0, <1>8, <2>1 DEF Post, TypeOK
  <2> QED
    BY <1>0, <1>8, <2>2, <2>3 DEF Post, Goto, TypeOK, Pc
<1>9. ASSUME MarkResult(x) PROVE TypeOK'
  <2>1. try[x] \in Try
    BY <1>9 DEF Inv, DispatcherInv, Trying, MarkResult
  <2>2. PICK s \in {"delivered", "dead", "retrying"} :
          MarkDelivery(try[x][1], s, try[x][2] + 1)
    BY <1>9 DEF MarkResult
  <2>3. s \in Status
    BY DEF Status
  <2>4. pc' \in [Dispatcher -> Pc]
    BY <1>0, <1>9 DEF MarkResult, Goto, TypeOK, Pc
  <2>5. /\ status' \in [Delivery -> Status]
        /\ attempt' \in [Delivery -> 0 .. MaxAttempts]
        /\ rowId' \in [Delivery -> Nat]
        /\ lastRow' \in Nat
        /\ resting' \subseteq Delivery
    BY <1>0, <2>1, <2>2, <2>3, TypeMark
  <2>6. UNCHANGED <<outbox, endpoint, localVars, consumerVars, owed, boundVars>>
    BY <1>9 DEF MarkResult
  <2> QED
    BY <1>0, <2>4, <2>5, <2>6 DEF TypeOK
<1>10. ASSUME CountDead(x) PROVE TypeOK'
  BY <1>0, <1>10 DEF CountDead, Goto, TypeOK, Pc
<1>11. ASSUME Disable(x) PROVE TypeOK'
  BY <1>0, <1>11 DEF Disable, Goto, TypeOK, Pc
<1>12. ASSUME Finish(x) PROVE TypeOK'
  BY <1>0, <1>12 DEF Finish, Goto, TypeOK, Pc
<1>13. ASSUME Crash(x) PROVE TypeOK'
  <2>1. crashes' \in Nat
    BY <1>0, <1>13 DEF Crash, TypeOK
  <2> QED
    BY <1>0, <1>13, <2>1 DEF Crash, Goto, TypeOK, Pc
<1> QED
  BY <1>1, <1>2, <1>3, <1>4, <1>5, <1>6, <1>7, <1>8, <1>9, <1>10, <1>11, <1>12, <1>13
     DEF DispatcherStep
-----------------------------------------------------------------------------
(* What no step ever takes back: rows stay, so do receipts and events, who *)
(* is owed a committed event, and a disabled endpoint stays disabled.      *)
Kept ==
  /\ \A d \in Delivery : status[d] # "none" => status'[d] # "none"
  /\ received \subseteq received'
  /\ \A e \in Event : outbox[e] # "none" => outbox'[e] # "none" /\ owed'[e] = owed[e]
  /\ \A p \in Endpoint :
       endpoint[p] # "none" =>
         endpoint'[p] # "none" /\ (endpoint'[p] = "active" => endpoint[p] = "active")

(* Rows survive an UPDATE. *)
LEMMA RowsByMark ==
  ASSUME TypeOK, NEW t \in Try, NEW s \in Status \ {"none"}, NEW n, MarkDelivery(t[1], s, n)
  PROVE  \A d \in Delivery : status[d] # "none" => status'[d] # "none"
<1>1. status \in [Delivery -> Status] /\ status' = [status EXCEPT ![t[1]] = s]
  BY DEF TypeOK, MarkDelivery
<1> QED
  BY <1>1, Numbers

(* Kept, action by action. *)
LEMMA KeptByNext == Inv /\ Next => Kept
<1> SUFFICES ASSUME Inv, Next PROVE Kept
  OBVIOUS
<1> USE DEF ledgerVars, localVars, consumerVars, boundVars, Kept
<1>0. TypeOK
  BY DEF Inv
<1>1. ASSUME NEW e \in Event, Commit(e) PROVE Kept
  BY <1>0, <1>1 DEF Commit, TypeOK
<1>2. ASSUME NEW p \in Endpoint, RegisterWebhook(p) \/ DisableWebhook(p) PROVE Kept
  BY <1>0, <1>2 DEF RegisterWebhook, DisableWebhook, TypeOK
<1>3. ASSUME NEW d \in Delivery, BackoffElapses(d) PROVE Kept
  BY <1>0, <1>3 DEF BackoffElapses, TypeOK
<1>4. ASSUME NEW g \in Gateway, NEW scope, ReplayDead(g, scope) PROVE Kept
  BY <1>0, <1>4 DEF ReplayDead, TypeOK
<1>5. ASSUME NEW x \in Dispatcher, CreateDelivery(x) PROVE Kept
  BY <1>0, <1>5 DEF CreateDelivery, TypeOK
<1>6. ASSUME NEW x \in Dispatcher, MarkFannedOut(x) PROVE Kept
  BY <1>0, <1>6 DEF MarkFannedOut, TypeOK
<1>7. ASSUME NEW x \in Dispatcher, Block(x) PROVE Kept
  <2>1. PICK t \in batch[x] : MarkDelivery(t[1], "blocked", t[2] + 1)
    BY <1>7 DEF Block
  <2>2. t \in Try /\ "blocked" \in Status \ {"none"}
    BY <1>0 DEF TypeOK, Status
  <2>3. \A d \in Delivery : status[d] # "none" => status'[d] # "none"
    BY <1>0, <2>1, <2>2, RowsByMark
  <2> QED
    BY <1>7, <2>3 DEF Block
<1>8. ASSUME NEW x \in Dispatcher, Post(x) PROVE Kept
  BY <1>0, <1>8 DEF Post, TypeOK
<1>9. ASSUME NEW x \in Dispatcher, MarkResult(x) PROVE Kept
  <2>1. PICK s \in {"delivered", "dead", "retrying"} :
          MarkDelivery(try[x][1], s, try[x][2] + 1)
    BY <1>9 DEF MarkResult
  <2>2. try[x] \in Try /\ s \in Status \ {"none"}
    BY <1>9 DEF Inv, DispatcherInv, Trying, MarkResult, Status
  <2>3. \A d \in Delivery : status[d] # "none" => status'[d] # "none"
    BY <1>0, <2>1, <2>2, RowsByMark
  <2> QED
    BY <1>9, <2>3 DEF MarkResult
<1>10. ASSUME NEW x \in Dispatcher, Disable(x) PROVE Kept
  <2>1. /\ UNCHANGED <<outbox, ledgerVars, consumerVars, owed>>
        /\ endpoint' = [endpoint EXCEPT ![try[x][1][1]] = "disabled"]
        /\ endpoint \in [Endpoint -> {"none", "active", "disabled"}]
    BY <1>0, <1>10 DEF Disable, TypeOK
  <2> QED
    BY <2>1
<1>11. ASSUME NEW x \in Dispatcher,
              \/ RunOnce(x) \/ EndpointsFor(x) \/ DueDeliveries(x) \/ Attempt(x)
              \/ CountDead(x) \/ Finish(x) \/ Crash(x)
       PROVE  Kept
  <2>1. UNCHANGED <<outbox, endpoint, status, received, owed>>
    BY <1>11 DEF RunOnce, EndpointsFor, DueDeliveries, Attempt, CountDead, Finish, Crash
  <2> QED
    BY <2>1
<1> QED
  BY <1>1, <1>2, <1>3, <1>4, <1>5, <1>6, <1>7, <1>8, <1>9, <1>10, <1>11
     DEF Next, Environment, Replay, DispatcherStep

-----------------------------------------------------------------------------
(* A dispatcher that does not move keeps what it knows. *)
LEMMA OtherDispatcher ==
  ASSUME Inv, Kept, NEW y \in Dispatcher,
         pc'[y] = pc[y], todo'[y] = todo[y], targets'[y] = targets[y],
         event'[y] = event[y], try'[y] = try[y], answer'[y] = answer[y]
  PROVE  Fanning(y)' /\ Trying(y)'
<1>0. /\ todo[y] \subseteq Event /\ \A e \in Event : owed[e] \subseteq Endpoint
      /\ Fanning(y) /\ Trying(y) /\ OwedInv
  BY DEF Inv, TypeOK, DispatcherInv
<1>1. \A e \in todo'[y] : outbox'[e] # "none"
  BY <1>0 DEF Kept, Fanning
<1>2. ASSUME pc'[y] = "creating"
      PROVE  /\ event'[y] \in Event
             /\ outbox'[event'[y]] # "none"
             /\ \A p \in owed'[event'[y]] : endpoint'[p] = "active" =>
                  p \in targets'[y] \/ status'[<<p, event'[y]>>] # "none"
  <2>1. event[y] \in Event /\ outbox[event[y]] # "none"
    BY <1>0, <1>2 DEF Fanning
  <2>2. outbox'[event[y]] # "none" /\ owed'[event[y]] = owed[event[y]]
    BY <2>1 DEF Kept
  <2>3. ASSUME NEW p \in owed[event[y]], endpoint'[p] = "active"
        PROVE  p \in targets[y] \/ status'[<<p, event[y]>>] # "none"
    <3>1. p \in Endpoint /\ endpoint[p] # "none"
      BY <1>0, <2>1 DEF OwedInv
    <3>2. endpoint[p] = "active"
      BY <2>3, <3>1 DEF Kept
    <3>3. p \in targets[y] \/ status[<<p, event[y]>>] # "none"
      BY <1>0, <1>2, <3>2 DEF Fanning
    <3>4. <<p, event[y]>> \in Delivery
      BY <2>1, <3>1 DEF Delivery
    <3> QED
      BY <3>3, <3>4 DEF Kept
  <2> QED
    BY <2>1, <2>2, <2>3
<1>3. Trying(y)'
  BY <1>0 DEF Trying, Kept
<1> QED
  BY <1>1, <1>2, <1>3 DEF Fanning

(* Only its own steps move a dispatcher. *)
LEMMA Locals ==
  ASSUME TypeOK, NEW x \in Dispatcher, DispatcherStep(x) \/ Crash(x),
         NEW y \in Dispatcher, y # x
  PROVE  /\ pc'[y] = pc[y] /\ todo'[y] = todo[y] /\ targets'[y] = targets[y]
         /\ event'[y] = event[y] /\ try'[y] = try[y] /\ answer'[y] = answer[y]
         /\ batch'[y] = batch[y]
<1> USE DEF TypeOK, Goto, localVars
<1>1. CASE RunOnce(x) \/ EndpointsFor(x) \/ CreateDelivery(x) \/ MarkFannedOut(x)
  BY <1>1 DEF RunOnce, EndpointsFor, CreateDelivery, MarkFannedOut
<1>2. CASE DueDeliveries(x) \/ Block(x) \/ Attempt(x) \/ Post(x)
  BY <1>2 DEF DueDeliveries, Block, Attempt, Post
<1>3. CASE MarkResult(x)
  BY <1>3 DEF MarkResult
<1>4. CASE CountDead(x) \/ Disable(x) \/ Finish(x) \/ Crash(x)
  BY <1>4 DEF CountDead, Disable, Finish, Crash
<1> QED
  BY <1>1, <1>2, <1>3, <1>4 DEF DispatcherStep

(* What others do disturbs no dispatcher. *)
LEMMA DispatcherByEnvironment == Inv /\ (Environment \/ Replay) => DispatcherInv'
<1> SUFFICES ASSUME Inv, Environment \/ Replay, NEW y \in Dispatcher
             PROVE  Fanning(y)' /\ Trying(y)'
  BY DEF DispatcherInv
<1>0. Kept /\ TypeOK
  BY KeptByNext DEF Next, Inv
<1>1. CASE Environment
  <2>1. UNCHANGED <<pc, localVars>>
    BY <1>1 DEF Environment, Commit, RegisterWebhook, DisableWebhook, BackoffElapses
  <2> QED
    BY <1>0, <2>1, OtherDispatcher DEF localVars
<1>2. ASSUME NEW g \in Gateway, NEW scope, ReplayDead(g, scope)
      PROVE  Fanning(y)' /\ Trying(y)'
  <2>1. UNCHANGED localVars /\ pc' = [pc EXCEPT ![g] = "replayed"] /\ UNCHANGED outbox
    BY <1>2 DEF ReplayDead, Goto
  <2>2. CASE y = g
    <3>1. pc'[y] = "replayed"
      BY <1>0, <2>1, <2>2 DEF TypeOK
    <3>2. \A e \in todo'[y] : outbox'[e] # "none"
      BY <2>1 DEF Inv, DispatcherInv, Fanning, localVars
    <3> QED
      BY <3>1, <3>2 DEF Fanning, Trying
  <2>3. CASE y # g
    <3>1. pc'[y] = pc[y]
      BY <1>0, <2>1, <2>3 DEF TypeOK
    <3> QED
      BY <1>0, <2>1, <3>1, OtherDispatcher DEF localVars
  <2> QED
    BY <2>2, <2>3
<1> QED
  BY <1>1, <1>2 DEF Replay

(* A dispatcher's step leaves it knowing what its new pc promises. *)
LEMMA DispatcherBySelf ==
  ASSUME Inv, NEW x \in Dispatcher, DispatcherStep(x) \/ Crash(x)
  PROVE  Fanning(x)' /\ Trying(x)'
<1> USE DEF ledgerVars, localVars, consumerVars, boundVars, Goto
<1>0. TypeOK /\ Fanning(x) /\ Trying(x)
  BY DEF Inv, DispatcherInv
<1>1. CASE RunOnce(x)
  <2>1. /\ pc'[x] = "fanning" /\ outbox' = outbox
        /\ todo'[x] = {e \in Event : outbox[e] = "committed"}
    BY <1>0, <1>1 DEF RunOnce, TypeOK
  <2> QED
    BY <2>1 DEF Fanning, Trying
<1>2. CASE EndpointsFor(x)
  <2>1. PICK e \in todo[x] : event' = [event EXCEPT ![x] = e]
    BY <1>2 DEF EndpointsFor
  <2>2. e \in Event /\ outbox[e] # "none" /\ owed[e] \subseteq Endpoint
    BY <1>0 DEF TypeOK, Fanning
  <2>3. /\ event'[x] = e /\ pc'[x] = "creating"
        /\ targets'[x] = {p \in Endpoint : endpoint[p] = "active"}
        /\ UNCHANGED <<outbox, endpoint, todo, owed>>
    BY <1>0, <1>2, <2>1 DEF EndpointsFor, TypeOK
  <2> QED
    BY <1>0, <2>2, <2>3 DEF Fanning, Trying
<1>3. CASE CreateDelivery(x)
  <2>1. PICK p \in targets[x] :
          /\ targets' = [targets EXCEPT ![x] = @ \ {p}]
          /\ IF status[<<p, event[x]>>] = "none"
               THEN status' = [status EXCEPT ![<<p, event[x]>>] = "pending"]
               ELSE UNCHANGED status
    BY <1>3 DEF CreateDelivery
  <2>2. pc[x] = "creating" /\ UNCHANGED <<pc, outbox, endpoint, todo, event, owed, try, answer>>
    BY <1>3 DEF CreateDelivery
  <2>3. event[x] \in Event /\ p \in Endpoint /\ <<p, event[x]>> \in Delivery
    BY <1>0, <2>2 DEF Fanning, TypeOK, Delivery
  <2>4. status'[<<p, event[x]>>] # "none"
    BY <1>0, <2>1, <2>3 DEF TypeOK
  <2>5. \A q \in Endpoint : status[<<q, event[x]>>] # "none" => status'[<<q, event[x]>>] # "none"
    <3>1. \A q \in Endpoint : <<q, event[x]>> \in Delivery
      BY <2>3 DEF Delivery
    <3>2. \A d \in Delivery : status[d] # "none" => status'[d] # "none"
      BY <1>0, <2>1 DEF TypeOK
    <3> QED
      BY <3>1, <3>2
  <2>6. targets'[x] = targets[x] \ {p}
    BY <1>0, <2>1 DEF TypeOK
  <2>7. owed[event[x]] \subseteq Endpoint
    BY <1>0, <2>3 DEF TypeOK
  <2>8. ASSUME NEW q \in owed[event[x]], endpoint[q] = "active"
        PROVE  q \in targets'[x] \/ status'[<<q, event[x]>>] # "none"
    <3>1. q \in targets[x] \/ status[<<q, event[x]>>] # "none"
      BY <1>0, <2>2, <2>8 DEF Fanning
    <3> QED
      BY <2>4, <2>5, <2>6, <2>7, <3>1
  <2> QED
    BY <1>0, <2>2, <2>3, <2>8 DEF Fanning, Trying
<1>4. CASE MarkFannedOut(x)
  <2>1. event[x] \in Event
    BY <1>0, <1>4 DEF MarkFannedOut, Fanning
  <2>2. /\ pc'[x] = "fanning" /\ todo'[x] \subseteq todo[x] /\ todo[x] \subseteq Event
        /\ outbox' = [outbox EXCEPT ![event[x]] = "fanned"]
    BY <1>0, <1>4 DEF MarkFannedOut, TypeOK
  <2> QED
    BY <1>0, <2>1, <2>2 DEF Fanning, Trying, TypeOK
<1>5. CASE DueDeliveries(x) \/ Block(x)
  <2>1. pc'[x] = "delivering" /\ UNCHANGED <<outbox, todo>>
    BY <1>0, <1>5 DEF DueDeliveries, Block, TypeOK
  <2> QED
    BY <1>0, <2>1 DEF Fanning, Trying
<1>6. CASE Attempt(x)
  <2>1. PICK t \in batch[x] : try' = [try EXCEPT ![x] = t]
    BY <1>6 DEF Attempt
  <2>2. t \in Try /\ try'[x] = t
    BY <1>0, <2>1 DEF TypeOK
  <2>3. pc'[x] = "posting" /\ UNCHANGED <<outbox, todo>>
    BY <1>0, <1>6 DEF Attempt, TypeOK
  <2> QED
    BY <1>0, <2>2, <2>3 DEF Fanning, Trying
<1>7. CASE Post(x)
  <2>1. try[x] \in Try /\ UNCHANGED <<outbox, todo, try>> /\ pc'[x] = "marking"
    BY <1>0, <1>7 DEF Post, Trying, TypeOK
  <2>2. answer'[x] => try[x][1] \in received'
    BY <1>0, <1>7 DEF Post, TypeOK
  <2> QED
    BY <1>0, <2>1, <2>2 DEF Fanning, Trying
<1>8. CASE MarkResult(x)
  <2>1. try[x] \in Try /\ UNCHANGED <<outbox, todo, try>> /\ pc'[x] \in {"counting", "delivering"}
    BY <1>0, <1>8 DEF MarkResult, Trying, TypeOK
  <2> QED
    BY <1>0, <2>1 DEF Fanning, Trying
<1>9. CASE CountDead(x)
  <2>1. try[x] \in Try /\ UNCHANGED <<outbox, todo, try>> /\ pc'[x] \in {"disabling", "delivering"}
    BY <1>0, <1>9 DEF CountDead, Trying, TypeOK
  <2> QED
    BY <1>0, <2>1 DEF Fanning, Trying
<1>10. CASE Disable(x) \/ Finish(x) \/ Crash(x)
  <2>1. outbox' = outbox /\ pc'[x] \in {"delivering", "idle"} /\ todo'[x] \in {todo[x], {}}
    BY <1>0, <1>10 DEF Disable, Finish, Crash, TypeOK
  <2> QED
    BY <1>0, <2>1 DEF Fanning, Trying
<1> QED
  BY <1>1, <1>2, <1>3, <1>4, <1>5, <1>6, <1>7, <1>8, <1>9, <1>10 DEF DispatcherStep

(* Every dispatcher keeps its record, whoever moves. *)
LEMMA DispatcherByNext == Inv /\ Next => DispatcherInv'
<1> SUFFICES ASSUME Inv, Next PROVE DispatcherInv'
  OBVIOUS
<1>1. CASE Environment \/ Replay
  BY <1>1, DispatcherByEnvironment
<1>2. ASSUME NEW x \in Dispatcher, DispatcherStep(x) \/ Crash(x) PROVE DispatcherInv'
  <2> SUFFICES ASSUME NEW y \in Dispatcher PROVE Fanning(y)' /\ Trying(y)'
    BY DEF DispatcherInv
  <2>1. CASE y = x
    BY <1>2, <2>1, DispatcherBySelf
  <2>2. CASE y # x
    <3>1. /\ pc'[y] = pc[y] /\ todo'[y] = todo[y] /\ targets'[y] = targets[y]
          /\ event'[y] = event[y] /\ try'[y] = try[y] /\ answer'[y] = answer[y]
      BY <1>2, <2>2, Locals DEF Inv
    <3> QED
      BY <3>1, KeptByNext, OtherDispatcher
  <2> QED
    BY <2>1, <2>2
<1> QED
  BY <1>1, <1>2 DEF Next

-----------------------------------------------------------------------------
(* The steps that change the outbox or what it owes, and those that do not. *)
LEMMA OutboxStep ==
  Next => \/ UNCHANGED <<outbox, owed>>
          \/ \E e \in Event : Commit(e)
          \/ \E x \in Dispatcher : MarkFannedOut(x)
<1> SUFFICES ASSUME Next
             PROVE  \/ UNCHANGED <<outbox, owed>>
                    \/ \E e \in Event : Commit(e)
                    \/ \E x \in Dispatcher : MarkFannedOut(x)
  OBVIOUS
<1>1. ASSUME NEW p \in Endpoint, RegisterWebhook(p) \/ DisableWebhook(p)
      PROVE  UNCHANGED <<outbox, owed>>
  BY <1>1 DEF RegisterWebhook, DisableWebhook
<1>2. ASSUME NEW d \in Delivery, BackoffElapses(d) PROVE UNCHANGED <<outbox, owed>>
  BY <1>2 DEF BackoffElapses
<1>3. ASSUME NEW g \in Gateway, NEW scope, ReplayDead(g, scope) PROVE UNCHANGED <<outbox, owed>>
  BY <1>3 DEF ReplayDead
<1>4. ASSUME NEW x \in Dispatcher, DispatcherStep(x) \/ Crash(x), ~MarkFannedOut(x)
      PROVE  UNCHANGED <<outbox, owed>>
  BY <1>4 DEF DispatcherStep, RunOnce, EndpointsFor, CreateDelivery, DueDeliveries, Block,
     Attempt, Post, MarkResult, CountDead, Disable, Finish, Crash
<1> QED
  BY <1>1, <1>2, <1>3, <1>4 DEF Next, Environment, Replay

(* An event is marked only when all its rows exist, and it was committed.  *)
LEMMA MarkedComplete ==
  ASSUME Inv, Next, NEW e \in Event, outbox'[e] = "fanned"
  PROVE  /\ outbox[e] # "none"
         /\ \A p \in owed[e] : endpoint[p] = "active" => status[<<p, e>>] # "none"
<1>0. outbox \in [Event -> {"none", "committed", "fanned"}] /\ FanOutComplete
  BY DEF Inv, TypeOK
<1>1. CASE outbox[e] = "fanned"
  BY <1>0, <1>1 DEF FanOutComplete
<1>2. CASE outbox[e] # "fanned"
  <2>1. ASSUME NEW f \in Event, Commit(f) PROVE FALSE
    BY <1>0, <1>2, <2>1 DEF Commit
  <2>2. PICK x \in Dispatcher : MarkFannedOut(x)
    BY <1>2, <2>1, OutboxStep
  <2>3. Fanning(x) /\ pc[x] = "creating" /\ targets[x] = {} /\ e = event[x]
    BY <1>0, <1>2, <2>2 DEF MarkFannedOut, Inv, DispatcherInv
  <2> QED
    BY <2>3 DEF Fanning
<1> QED
  BY <1>1, <1>2

(* What is owed is fixed when the event is committed. *)
LEMMA OwedByNext == Inv /\ Next => OwedInv'
<1> SUFFICES ASSUME Inv, Next, NEW e \in Event, NEW p \in owed'[e] PROVE endpoint'[p] # "none"
  BY DEF OwedInv
<1>0. TypeOK /\ Kept /\ OwedInv
  BY KeptByNext DEF Inv
<1>1. CASE p \in owed[e]
  <2>1. p \in Endpoint /\ endpoint[p] # "none"
    BY <1>0, <1>1 DEF TypeOK, OwedInv
  <2> QED
    BY <1>0, <2>1 DEF Kept
<1>2. CASE p \notin owed[e]
  <2>1. PICK f \in Event : Commit(f)
    BY <1>2, OutboxStep DEF MarkFannedOut
  <2>2. /\ owed' = [owed EXCEPT ![f] = {q \in Endpoint : endpoint[q] = "active"}]
        /\ endpoint' = endpoint /\ owed \in [Event -> SUBSET Endpoint]
    BY <1>0, <2>1 DEF Commit, TypeOK
  <2> QED
    BY <1>2, <2>2
<1> QED
  BY <1>1, <1>2

(* Nobody owed a marked event is without a row. *)
LEMMA FanOutByNext == Inv /\ Next => FanOutComplete'
<1> SUFFICES ASSUME Inv, Next, NEW e \in Event, outbox'[e] = "fanned",
                    NEW p \in owed'[e], endpoint'[p] = "active"
             PROVE  status'[<<p, e>>] # "none"
  BY DEF FanOutComplete
<1>0. TypeOK /\ Kept /\ OwedInv
  BY KeptByNext DEF Inv
<1>1. p \in owed[e] /\ p \in Endpoint /\ <<p, e>> \in Delivery
  BY <1>0, MarkedComplete DEF Kept, TypeOK, Delivery
<1>2. endpoint[p] = "active"
  BY <1>0, <1>1 DEF Kept, OwedInv
<1> QED
  BY <1>0, <1>1, <1>2, MarkedComplete DEF Kept

-----------------------------------------------------------------------------
(* The steps that write the ledger's status and attempt columns. *)
LEMMA LedgerStep ==
  ASSUME Inv, Next, NEW d \in Delivery
  PROVE  \/ status'[d] = status[d] /\ attempt'[d] = attempt[d]
         \/ status'[d] = "pending" /\ attempt'[d] = 0
         \/ status'[d] = "blocked"
         \/ status'[d] = "delivered" /\ d \in received'
         \/ status'[d] = "dead" /\ attempt'[d] = MaxAttempts
         \/ status'[d] = "retrying" /\ attempt'[d] \in 1 .. MaxAttempts - 1
<1> USE DEF ledgerVars, localVars, consumerVars, boundVars
<1> DEFINE Goal ==
         \/ status'[d] = status[d] /\ attempt'[d] = attempt[d]
         \/ status'[d] = "pending" /\ attempt'[d] = 0
         \/ status'[d] = "blocked"
         \/ status'[d] = "delivered" /\ d \in received'
         \/ status'[d] = "dead" /\ attempt'[d] = MaxAttempts
         \/ status'[d] = "retrying" /\ attempt'[d] \in 1 .. MaxAttempts - 1
<1>0. /\ status \in [Delivery -> Status] /\ attempt \in [Delivery -> 0 .. MaxAttempts]
      /\ LedgerConsistent
  BY DEF Inv, TypeOK
<1>1. CASE UNCHANGED <<status, attempt>>
  BY <1>1
<1>2. ASSUME NEW g \in Gateway, NEW scope, ReplayDead(g, scope) PROVE Goal
  BY <1>0, <1>2 DEF ReplayDead
<1>3. ASSUME NEW x \in Dispatcher, CreateDelivery(x) PROVE Goal
  <2>1. PICK p \in targets[x] :
          IF status[<<p, event[x]>>] = "none"
            THEN status' = [status EXCEPT ![<<p, event[x]>>] = "pending"]
            ELSE UNCHANGED status
    BY <1>3 DEF CreateDelivery
  <2>2. UNCHANGED attempt
    BY <1>3 DEF CreateDelivery
  <2>3. CASE d = <<p, event[x]>> /\ status[d] = "none"
    BY <1>0, <2>1, <2>2, <2>3 DEF LedgerConsistent
  <2>4. CASE ~(d = <<p, event[x]>> /\ status[d] = "none")
    BY <1>0, <2>1, <2>2, <2>4
  <2> QED
    BY <2>3, <2>4
<1>4. ASSUME NEW x \in Dispatcher, Block(x) PROVE Goal
  <2>1. PICK t \in batch[x] : MarkDelivery(t[1], "blocked", t[2] + 1)
    BY <1>4 DEF Block
  <2> QED
    BY <1>0, <2>1 DEF MarkDelivery
<1>5. ASSUME NEW x \in Dispatcher, MarkResult(x) PROVE Goal
  <2>1. try[x] \in Try /\ (answer[x] => try[x][1] \in received)
    BY <1>5 DEF MarkResult, Inv, DispatcherInv, Trying
  <2>2. try[x][2] \in Nat /\ try[x][2] < MaxAttempts /\ MaxAttempts \in Nat
    BY <2>1, Numbers
  <2>3. CASE d # try[x][1]
    BY <1>0, <1>5, <2>3 DEF MarkResult, MarkDelivery
  <2>4. CASE d = try[x][1] /\ answer[x]
    BY <1>0, <1>5, <2>1, <2>4 DEF MarkResult, MarkDelivery
  <2>5. CASE d = try[x][1] /\ ~answer[x] /\ try[x][2] + 1 >= MaxAttempts
    <3>1. status'[d] = "dead" /\ attempt'[d] = try[x][2] + 1
      BY <1>0, <1>5, <2>5 DEF MarkResult, MarkDelivery
    <3> QED
      BY <2>2, <2>5, <3>1
  <2>6. CASE d = try[x][1] /\ ~answer[x] /\ ~(try[x][2] + 1 >= MaxAttempts)
    <3>1. status'[d] = "retrying" /\ attempt'[d] = try[x][2] + 1
      BY <1>0, <1>5, <2>6 DEF MarkResult, MarkDelivery
    <3> QED
      BY <2>2, <2>6, <3>1
  <2> QED
    BY <2>3, <2>4, <2>5, <2>6
<1>6. ASSUME NEW e \in Event, Commit(e) PROVE UNCHANGED <<status, attempt>>
  BY <1>6 DEF Commit
<1>7. ASSUME NEW p \in Endpoint, RegisterWebhook(p) \/ DisableWebhook(p)
      PROVE  UNCHANGED <<status, attempt>>
  BY <1>7 DEF RegisterWebhook, DisableWebhook
<1>8. ASSUME NEW c \in Delivery, BackoffElapses(c) PROVE UNCHANGED <<status, attempt>>
  BY <1>8 DEF BackoffElapses
<1>9. ASSUME NEW x \in Dispatcher, DispatcherStep(x) \/ Crash(x),
             ~CreateDelivery(x), ~Block(x), ~MarkResult(x)
      PROVE  UNCHANGED <<status, attempt>>
  BY <1>9 DEF DispatcherStep, RunOnce, EndpointsFor, MarkFannedOut, DueDeliveries, Attempt,
     Post, CountDead, Disable, Finish, Crash
<1>10. Goal
  BY <1>1, <1>2, <1>3, <1>4, <1>5, <1>6, <1>7, <1>8, <1>9 DEF Next, Environment, Replay
<1> QED
  BY <1>10

(* Counts agree with statuses, and delivered rows were received. *)
LEMMA LedgerByNext == Inv /\ Next => LedgerConsistent' /\ DeliveredIsReceived'
<1> SUFFICES ASSUME Inv, Next PROVE LedgerConsistent' /\ DeliveredIsReceived'
  OBVIOUS
<1>0. LedgerConsistent /\ DeliveredIsReceived /\ received \subseteq received'
  BY KeptByNext DEF Inv, Kept
<1>1. LedgerConsistent'
  BY <1>0, LedgerStep DEF LedgerConsistent
<1>2. DeliveredIsReceived'
  BY <1>0, LedgerStep DEF DeliveredIsReceived
<1> QED
  BY <1>1, <1>2

-----------------------------------------------------------------------------
(* Every step keeps the invariant. *)
LEMMA InvNext == Inv /\ [Next]_vars => Inv'
<1> SUFFICES ASSUME Inv, [Next]_vars PROVE Inv'
  OBVIOUS
<1>1. CASE Next
  <2>1. TypeOK'
    BY <1>1, TypeEnvironment, TypeDispatcher DEF Next
  <2> QED
    BY <1>1, <2>1, OwedByNext, DispatcherByNext, FanOutByNext, LedgerByNext DEF Inv
<1>2. CASE UNCHANGED vars
  BY <1>2 DEF vars, ledgerVars, localVars, consumerVars, boundVars, Inv, TypeOK, OwedInv,
     DispatcherInv, Fanning, Trying, FanOutComplete, DeliveredIsReceived, LedgerConsistent
<1> QED
  BY <1>1, <1>2

(* Inv is an invariant, for any number of overlapping dispatchers.         *)
THEOREM Invariance == Spec => []Inv
  BY InvInit, InvNext, PTL DEF Spec

(* Every variable keeps its type; no count ever exceeds MaxAttempts. *)
THEOREM TypeCorrect == Spec => []TypeOK
<1>1. Inv => TypeOK
  BY DEF Inv
<1> QED
  BY <1>1, Invariance, PTL

(* Once an event is marked, every endpoint owed it and still active has    *)
(* its row, wherever dispatchers stopped (delivery.fan_out).               *)
THEOREM NobodySkipped == Spec => []FanOutComplete
<1>1. Inv => FanOutComplete
  BY DEF Inv
<1> QED
  BY <1>1, Invariance, PTL

(* A row's attempt count agrees with its status, although dispatchers and  *)
(* replays overwrite each other (store.mark_delivery, replay_dead).        *)
THEOREM CountsAgree == Spec => []LedgerConsistent
<1>1. Inv => LedgerConsistent
  BY DEF Inv
<1> QED
  BY <1>1, Invariance, PTL

(* Only what a consumer handled is ever marked delivered (delivery._post). *)
THEOREM DeliveredWasReceived == Spec => []DeliveredIsReceived
<1>1. Inv => DeliveredIsReceived
  BY DEF Inv
<1> QED
  BY <1>1, Invariance, PTL

-----------------------------------------------------------------------------
(* Dispatchers only ever add to the POSTs made for a row. *)
LEMMA PostsGrow ==
  ASSUME Inv, NEW x \in Dispatcher, DispatcherStep(x) \/ Crash(x), NEW d \in Delivery
  PROVE  posts[d] \in Nat /\ posts'[d] \in Nat /\ posts[d] <= posts'[d]
<1>0. posts \in [Delivery -> Nat]
  BY DEF Inv, TypeOK
<1>1. CASE Post(x)
  <2>1. posts' = [posts EXCEPT ![try[x][1]] = @ + 1]
    BY <1>1 DEF Post
  <2> QED
    BY <1>0, <2>1
<1>2. CASE ~Post(x)
  <2>1. posts' = posts
    BY <1>2 DEF DispatcherStep, RunOnce, EndpointsFor, CreateDelivery, MarkFannedOut,
       DueDeliveries, Block, Attempt, MarkResult, CountDead, Disable, Finish, Crash,
       consumerVars
  <2> QED
    BY <1>0, <2>1
<1> QED
  BY <1>1, <1>2

(* Nothing is posted or recorded before the first event. *)
LEMMA HonestInit == Init => HonestInv
<1> SUFFICES ASSUME Init PROVE HonestInv
  OBVIOUS
<1>1. \A d \in Delivery : status[d] = "none" /\ attempt[d] = 0 /\ posts[d] = 0
  BY DEF Init
<1>2. \A x \in Dispatcher : pc[x] = "idle" /\ batch[x] = {}
  BY DEF Init
<1> QED
  BY <1>1, <1>2 DEF HonestInv, TriesCounted

(* What others do: a quiet replay finds every dispatcher idle, with an empty list. *)
LEMMA HonestByOthers ==
  ASSUME Inv, HonestInv, Environment \/ (Quiet /\ Replay) PROVE HonestInv'
<1>0. TypeOK
  BY DEF Inv
<1>1. CASE Environment
  <2>1. UNCHANGED <<status, attempt, posts, pc, batch, try>>
    BY <1>1 DEF Environment, Commit, RegisterWebhook, DisableWebhook, BackoffElapses,
       ledgerVars, localVars, consumerVars
  <2> QED
    BY <2>1 DEF HonestInv, TriesCounted
<1>2. ASSUME Quiet, NEW g \in Gateway, NEW scope, ReplayDead(g, scope) PROVE HonestInv'
  <2>1. batch' = batch /\ pc' = [pc EXCEPT ![g] = "replayed"] /\ pc \in [Dispatcher -> Pc]
    BY <1>0, <1>2 DEF ReplayDead, Goto, localVars, TypeOK
  <2>2. ASSUME NEW x \in Dispatcher PROVE TriesCounted(x)'
    <3>1. pc[x] = "idle" /\ batch[x] = {}
      BY <1>2 DEF Quiet, HonestInv, TriesCounted
    <3>2. pc'[x] \in {"idle", "replayed"} /\ batch'[x] = {}
      BY <2>1, <3>1
    <3> QED
      BY <3>2 DEF TriesCounted
  <2>3. ASSUME NEW d \in Delivery, status'[d] \in {"pending", "retrying", "dead"}
        PROVE  attempt'[d] <= posts'[d]
    <3>1. \/ attempt'[d] = 0 /\ posts'[d] = 0
          \/ status'[d] = status[d] /\ attempt'[d] = attempt[d] /\ posts'[d] = posts[d]
      BY <1>2 DEF ReplayDead
    <3> QED
      BY <2>3, <3>1 DEF HonestInv
  <2> QED
    BY <2>2, <2>3 DEF HonestInv
<1> QED
  BY <1>1, <1>2 DEF Replay

(* A row's count is backed by POSTs after any dispatcher's step. *)
LEMMA RowsByDispatcher ==
  ASSUME Inv, HonestInv, NEW x \in Dispatcher, DispatcherStep(x) \/ Crash(x),
         NEW d \in Delivery, status'[d] \in {"pending", "retrying", "dead"}
  PROVE  attempt'[d] <= posts'[d]
<1>0. /\ status \in [Delivery -> Status] /\ attempt \in [Delivery -> 0 .. MaxAttempts]
      /\ attempt[d] \in Nat /\ LedgerConsistent
      /\ posts[d] \in Nat /\ posts'[d] \in Nat /\ posts[d] <= posts'[d]
  BY PostsGrow, Numbers DEF Inv, TypeOK
<1>1. CASE UNCHANGED <<status, attempt>>
  <2>1. attempt[d] <= posts[d] /\ attempt'[d] = attempt[d]
    BY <1>1 DEF HonestInv
  <2> QED
    BY <1>0, <2>1
<1>2. CASE CreateDelivery(x)
  <2>1. attempt' = attempt
    BY <1>2 DEF CreateDelivery
  <2>2. CASE status[d] = "none"
    BY <1>0, <2>1, <2>2 DEF LedgerConsistent
  <2>3. CASE status[d] # "none"
    <3>1. status'[d] = status[d]
      BY <1>0, <1>2, <2>3 DEF CreateDelivery
    <3>2. attempt[d] <= posts[d]
      BY <3>1 DEF HonestInv
    <3> QED
      BY <1>0, <2>1, <3>2
  <2> QED
    BY <2>2, <2>3
<1>3. CASE Block(x)
  <2>1. PICK t \in batch[x] : MarkDelivery(t[1], "blocked", t[2] + 1)
    BY <1>3 DEF Block
  <2>2. d # t[1]
    BY <1>0, <2>1 DEF MarkDelivery
  <2>3. status'[d] = status[d] /\ attempt'[d] = attempt[d]
    BY <1>0, <2>1, <2>2 DEF MarkDelivery
  <2>4. attempt[d] <= posts[d]
    BY <2>3 DEF HonestInv
  <2> QED
    BY <1>0, <2>3, <2>4
<1>4. CASE MarkResult(x)
  <2>1. PICK s \in {"delivered", "dead", "retrying"} :
          MarkDelivery(try[x][1], s, try[x][2] + 1)
    BY <1>4 DEF MarkResult
  <2>2. CASE d = try[x][1]
    <3>1. attempt'[d] = try[x][2] + 1
      BY <1>0, <2>1, <2>2 DEF MarkDelivery
    <3>2. try[x][2] < posts[d]
      BY <1>4, <2>2 DEF MarkResult, HonestInv, TriesCounted
    <3>3. try[x][2] \in Nat
      BY <1>4, Numbers DEF MarkResult, Inv, DispatcherInv, Trying
    <3> QED
      BY <1>0, <3>1, <3>2, <3>3
  <2>3. CASE d # try[x][1]
    <3>1. status'[d] = status[d] /\ attempt'[d] = attempt[d]
      BY <1>0, <2>1, <2>3 DEF MarkDelivery
    <3>2. attempt[d] <= posts[d]
      BY <3>1 DEF HonestInv
    <3> QED
      BY <1>0, <3>1, <3>2
  <2> QED
    BY <2>2, <2>3
<1>5. CASE ~CreateDelivery(x) /\ ~Block(x) /\ ~MarkResult(x)
  <2>1. UNCHANGED <<status, attempt>>
    BY <1>5 DEF DispatcherStep, RunOnce, EndpointsFor, MarkFannedOut, DueDeliveries, Attempt,
       Post, CountDead, Disable, Finish, Crash, ledgerVars
  <2> QED
    BY <1>1, <2>1
<1> QED
  BY <1>2, <1>3, <1>4, <1>5

(* A dispatcher that does not move still knows of enough POSTs. *)
LEMMA TriesOfOthers ==
  ASSUME Inv, HonestInv, NEW x \in Dispatcher, DispatcherStep(x) \/ Crash(x),
         NEW y \in Dispatcher, y # x
  PROVE  TriesCounted(y)'
<1>1. pc'[y] = pc[y] /\ try'[y] = try[y] /\ batch'[y] = batch[y]
  BY Locals DEF Inv
<1>2. TriesCounted(y) /\ Trying(y) /\ batch[y] \subseteq Try
  BY DEF HonestInv, Inv, DispatcherInv, TypeOK
<1>3. ASSUME NEW t \in Try
      PROVE  /\ t[2] <= posts[t[1]] => t[2] <= posts'[t[1]]
             /\ t[2] < posts[t[1]] => t[2] < posts'[t[1]]
  <2>1. t[2] \in Nat /\ t[1] \in Delivery
    BY Numbers
  <2>2. posts[t[1]] \in Nat /\ posts'[t[1]] \in Nat /\ posts[t[1]] <= posts'[t[1]]
    BY <2>1, PostsGrow
  <2> QED
    BY <2>1, <2>2
<1>4. \A t \in batch[y] : t[2] <= posts'[t[1]]
  BY <1>2, <1>3 DEF TriesCounted
<1>5. pc[y] = "posting" => try[y][2] <= posts'[try[y][1]]
  BY <1>2, <1>3 DEF TriesCounted, Trying
<1>6. pc[y] = "marking" => try[y][2] < posts'[try[y][1]]
  BY <1>2, <1>3 DEF TriesCounted, Trying
<1> QED
  BY <1>1, <1>2, <1>4, <1>5, <1>6 DEF TriesCounted

(* A dispatcher's step leaves it knowing of enough POSTs. *)
LEMMA TriesOfSelf ==
  ASSUME Inv, HonestInv, NEW x \in Dispatcher, DispatcherStep(x) \/ Crash(x)
  PROVE  TriesCounted(x)'
<1> USE DEF ledgerVars, localVars, consumerVars, Goto
<1>0. /\ TypeOK /\ TriesCounted(x) /\ Trying(x)
      /\ pc \in [Dispatcher -> Pc] /\ batch \in [Dispatcher -> SUBSET Try]
      /\ batch[x] \subseteq Try
  BY DEF HonestInv, Inv, DispatcherInv, TypeOK
<1>1. CASE RunOnce(x) \/ EndpointsFor(x) \/ CreateDelivery(x) \/ MarkFannedOut(x)
  <2>1. /\ pc'[x] \in {"fanning", "creating"} /\ batch' = batch /\ posts' = posts
    BY <1>0, <1>1 DEF RunOnce, EndpointsFor, CreateDelivery, MarkFannedOut
  <2> QED
    BY <1>0, <2>1 DEF TriesCounted
<1>2. CASE DueDeliveries(x)
  <2>1. /\ pc'[x] = "delivering" /\ posts' = posts
        /\ batch'[x] = {<<d, attempt[d]>> :
              d \in {e \in Delivery : status[e] \in {"pending", "retrying"} /\ e \notin resting}}
    BY <1>0, <1>2 DEF DueDeliveries
  <2>2. \A t \in batch'[x] : t[2] <= posts[t[1]]
    BY <2>1 DEF HonestInv
  <2> QED
    BY <2>1, <2>2 DEF TriesCounted
<1>3. CASE Block(x)
  <2>1. pc'[x] = "delivering" /\ batch'[x] \subseteq batch[x] /\ posts' = posts
    BY <1>0, <1>3 DEF Block
  <2> QED
    BY <1>0, <2>1 DEF TriesCounted
<1>4. CASE Attempt(x)
  <2>1. PICK t \in batch[x] : /\ try' = [try EXCEPT ![x] = t]
                              /\ batch' = [batch EXCEPT ![x] = @ \ {t}]
    BY <1>4 DEF Attempt
  <2>2. /\ pc'[x] = "posting" /\ posts' = posts
        /\ batch'[x] \subseteq batch[x] /\ try'[x] = t
    BY <1>0, <1>4, <2>1 DEF Attempt, TypeOK
  <2> QED
    BY <1>0, <2>1, <2>2 DEF TriesCounted
<1>5. CASE Post(x)
  <2>1. try[x] \in Try /\ try[x][2] <= posts[try[x][1]]
    BY <1>0, <1>5 DEF Post, Trying, TriesCounted
  <2>2. /\ pc'[x] = "marking" /\ try' = try /\ batch' = batch
        /\ posts' = [posts EXCEPT ![try[x][1]] = @ + 1]
    BY <1>0, <1>5 DEF Post
  <2>3. try[x][1] \in Delivery /\ try[x][2] \in Nat
    BY <2>1, Numbers
  <2>4. try[x][2] < posts'[try[x][1]]
    BY <1>0, <2>1, <2>2, <2>3 DEF TypeOK
  <2>5. ASSUME NEW t \in batch[x] PROVE t[2] <= posts'[t[1]]
    <3>1. t[2] <= posts[t[1]] /\ t[2] \in Nat /\ t[1] \in Delivery
      BY <1>0, Numbers DEF TriesCounted
    <3>2. posts[t[1]] \in Nat /\ posts'[t[1]] \in Nat /\ posts[t[1]] <= posts'[t[1]]
      BY <3>1, PostsGrow
    <3> QED
      BY <3>1, <3>2
  <2> QED
    BY <2>2, <2>4, <2>5 DEF TriesCounted
<1>6. CASE MarkResult(x) \/ CountDead(x) \/ Disable(x)
  <2>1. /\ pc'[x] \in {"delivering", "counting", "disabling"}
        /\ batch' = batch /\ posts' = posts
    BY <1>0, <1>6 DEF MarkResult, CountDead, Disable
  <2> QED
    BY <1>0, <2>1 DEF TriesCounted
<1>7. CASE Finish(x) \/ Crash(x)
  <2>1. pc'[x] = "idle" /\ batch'[x] = {}
    BY <1>0, <1>7 DEF Finish, Crash
  <2> QED
    BY <2>1 DEF TriesCounted
<1> QED
  BY <1>1, <1>2, <1>3, <1>4, <1>5, <1>6, <1>7 DEF DispatcherStep

(* Every step keeps the counts honest. *)
LEMMA HonestNext == Inv /\ HonestInv /\ [QuietNext]_vars => HonestInv'
<1> SUFFICES ASSUME Inv, HonestInv, [QuietNext]_vars PROVE HonestInv'
  OBVIOUS
<1>1. CASE Environment \/ (Quiet /\ Replay)
  BY <1>1, HonestByOthers
<1>2. ASSUME NEW x \in Dispatcher, DispatcherStep(x) \/ Crash(x) PROVE HonestInv'
  <2>1. ASSUME NEW y \in Dispatcher PROVE TriesCounted(y)'
    BY <1>2, TriesOfSelf, TriesOfOthers
  <2>2. \A d \in Delivery :
          status'[d] \in {"pending", "retrying", "dead"} => attempt'[d] <= posts'[d]
    BY <1>2, RowsByDispatcher
  <2> QED
    BY <2>1, <2>2 DEF HonestInv
<1>3. CASE UNCHANGED vars
  BY <1>3 DEF vars, ledgerVars, localVars, consumerVars, HonestInv, TriesCounted
<1> QED
  BY <1>1, <1>2, <1>3 DEF QuietNext

(* With any number of dispatchers that read stale lists, overwrite each    *)
(* other and crash, and any number of quiet replays: no row is given up    *)
(* before all its tries were made since it was armed, nor called delivered *)
(* without a receipt (delivery._attempt, store.replay_dead).               *)
THEOREM SettledFairly == QuietSpec => []SettledHonestly
<1>1. Init => Inv /\ HonestInv
  BY InvInit, HonestInit
<1>2. [QuietNext]_vars => [Next]_vars
  BY DEF QuietNext, Next
<1>3. Inv /\ HonestInv /\ [QuietNext]_vars => (Inv /\ HonestInv)'
  BY <1>2, InvNext, HonestNext
<1>4. Inv /\ HonestInv => SettledHonestly
  <2> SUFFICES ASSUME Inv, HonestInv, NEW d \in Delivery, status[d] = "dead"
               PROVE  DeliveredIsReceived /\ posts[d] >= MaxAttempts
    BY DEF SettledHonestly, Inv
  <2>1. attempt[d] = MaxAttempts /\ attempt[d] <= posts[d] /\ posts[d] \in Nat
    BY DEF Inv, LedgerConsistent, HonestInv, TypeOK
  <2> QED
    BY <2>1, Numbers DEF Inv
<1> QED
  BY <1>1, <1>3, <1>4, PTL DEF QuietSpec
=============================================================================
