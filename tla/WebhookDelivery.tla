--------------------------- MODULE WebhookDelivery ---------------------------
(***************************************************************************)
(* From committed outbox events to consumer endpoints: the dispatcher      *)
(* (voclyp/delivery.py) over the outbox, webhook_endpoints and             *)
(* webhook_deliveries tables of voclyp/store.py, and the gateway's webhook *)
(* and replay handlers (voclyp/gateway/app.py), for one tenant.            *)
(*                                                                         *)
(* A worker runs the dispatcher after each conversation and while idle     *)
(* (fan_out, then deliver_due); the gateway runs deliver_due after a       *)
(* replay.  Each works from a list it read at the start, and every         *)
(* committed statement is a step of its own.                               *)
(*                                                                         *)
(* Abstractions.  Only endpoints subscribed to the event type appear.  A   *)
(* back-off is a timer that runs out some time later.  A list is worked    *)
(* off in any order and has every row: the code reads at most 100, oldest  *)
(* first, and leaves the others to the next pass (ConversationPipeline     *)
(* has that limit on the fan-out).  A consumer may handle a POST and still *)
(* be counted as failed: a lost answer, or an error in recording it.       *)
(***************************************************************************)
EXTENDS Naturals, FiniteSets

CONSTANTS
  Event,            \* outbox events
  Endpoint,         \* webhook endpoints
  Worker,           \* dispatchers of worker processes
  Gateway,          \* dispatchers of gateway processes
  NoEvent, NoTry,   \* "none" values
  MaxAttempts,      \* delivery.MAX_ATTEMPTS
  AutoDisableAfter, \* delivery.AUTO_DISABLE_AFTER
  MaxReplays,       \* bound: how often an operator replays the dead letters
  MaxCrashes        \* bound: how often a dispatcher stops halfway

ASSUME ConstantsAssumption ==
  /\ Worker \cap Gateway = {}
  /\ NoEvent \notin Event
  /\ MaxAttempts \in Nat \ {0}
  /\ AutoDisableAfter \in Nat \ {0}
  /\ MaxReplays \in Nat
  /\ MaxCrashes \in Nat

VARIABLES
  \* voclyp.db
  outbox,           \* [Event -> {"none", "committed", "fanned"}]
  endpoint,         \* [Endpoint -> {"none", "active", "disabled"}]
  status,           \* [Delivery -> webhook_deliveries.status, "none": no row]
  attempt,          \* [Delivery -> Nat]: webhook_deliveries.attempt
  rowId,            \* [Delivery -> Nat]: webhook_deliveries.id
  lastRow,          \* the last AUTOINCREMENT id handed out
  resting,          \* deliveries whose next_retry_at is in the future
  \* dispatchers
  pc,               \* [Dispatcher -> where it stands]
  todo,             \* [Dispatcher -> events of this pass still to fan out]
  targets,          \* [Dispatcher -> endpoints the event in hand still needs]
  batch,            \* [Dispatcher -> <<delivery, attempt>> still to try]
  event,            \* [Dispatcher -> the event being fanned out]
  try,              \* [Dispatcher -> the <<delivery, attempt>> being tried]
  answer,           \* [Dispatcher -> BOOLEAN]: the POST was acknowledged
  \* consumers, and what is owed to them
  received,         \* deliveries a consumer has handled
  owed,             \* [Event -> endpoints active when it was committed]
  posts,            \* [Delivery -> Nat]: POSTs since the row was last armed
  \* bounds
  replays, crashes

ledgerVars   == <<status, attempt, rowId, lastRow, resting>>
localVars    == <<todo, targets, batch, event, try, answer>>
consumerVars == <<received, posts>>
boundVars    == <<replays, crashes>>
vars == <<outbox, endpoint, ledgerVars, pc, localVars, consumerVars, owed, boundVars>>

Dispatcher == Worker \cup Gateway

(* UNIQUE (endpoint_id, event_id): a delivery is named by the pair.        *)
Delivery == Endpoint \X Event

Status == {"none", "pending", "retrying", "delivered", "dead", "blocked"}

Pc == {"idle", "fanning", "creating", "replayed", "delivering", "posting",
       "marking", "counting", "disabling"}

Try == Delivery \X (0 .. MaxAttempts - 1)

TypeOK ==
  /\ outbox \in [Event -> {"none", "committed", "fanned"}]
  /\ endpoint \in [Endpoint -> {"none", "active", "disabled"}]
  /\ status \in [Delivery -> Status]
  /\ attempt \in [Delivery -> 0 .. MaxAttempts]
  /\ rowId \in [Delivery -> Nat]
  /\ lastRow \in Nat
  /\ resting \subseteq Delivery
  /\ pc \in [Dispatcher -> Pc]
  /\ todo \in [Dispatcher -> SUBSET Event]
  /\ targets \in [Dispatcher -> SUBSET Endpoint]
  /\ batch \in [Dispatcher -> SUBSET Try]
  /\ event \in [Dispatcher -> Event \cup {NoEvent}]
  /\ try \in [Dispatcher -> Try \cup {NoTry}]
  /\ answer \in [Dispatcher -> BOOLEAN]
  /\ received \subseteq Delivery
  /\ owed \in [Event -> SUBSET Endpoint]
  /\ posts \in [Delivery -> Nat]
  /\ replays \in Nat
  /\ crashes \in Nat

Init ==
  /\ outbox = [e \in Event |-> "none"]
  /\ endpoint = [p \in Endpoint |-> "none"]
  /\ status = [d \in Delivery |-> "none"]
  /\ attempt = [d \in Delivery |-> 0]
  /\ rowId = [d \in Delivery |-> 0]
  /\ lastRow = 0
  /\ resting = {}
  /\ pc = [x \in Dispatcher |-> "idle"]
  /\ todo = [x \in Dispatcher |-> {}]
  /\ targets = [x \in Dispatcher |-> {}]
  /\ batch = [x \in Dispatcher |-> {}]
  /\ event = [x \in Dispatcher |-> NoEvent]
  /\ try = [x \in Dispatcher |-> NoTry]
  /\ answer = [x \in Dispatcher |-> FALSE]
  /\ received = {}
  /\ owed = [e \in Event |-> {}]
  /\ posts = [d \in Delivery |-> 0]
  /\ replays = 0
  /\ crashes = 0

Goto(x, next) == pc' = [pc EXCEPT ![x] = next]

-----------------------------------------------------------------------------
(* What others do: the pipeline commits events, an admin registers and     *)
(* disables endpoints (nothing enables one again), time passes.            *)

Commit(e) ==
  /\ outbox[e] = "none"
  /\ outbox' = [outbox EXCEPT ![e] = "committed"]
  /\ owed' = [owed EXCEPT ![e] = {p \in Endpoint : endpoint[p] = "active"}]
  /\ UNCHANGED <<endpoint, ledgerVars, pc, localVars, consumerVars, boundVars>>

RegisterWebhook(p) ==
  /\ endpoint[p] = "none"
  /\ endpoint' = [endpoint EXCEPT ![p] = "active"]
  /\ UNCHANGED <<outbox, ledgerVars, pc, localVars, consumerVars, owed, boundVars>>

DisableWebhook(p) ==
  /\ endpoint[p] = "active"
  /\ endpoint' = [endpoint EXCEPT ![p] = "disabled"]
  /\ UNCHANGED <<outbox, ledgerVars, pc, localVars, consumerVars, owed, boundVars>>

BackoffElapses(d) ==
  /\ d \in resting
  /\ resting' = resting \ {d}
  /\ UNCHANGED <<outbox, endpoint, status, attempt, rowId, lastRow, pc, localVars,
                 consumerVars, owed, boundVars>>

-----------------------------------------------------------------------------
(* Fan-out.  run_once reads the unfanned events; for each it reads the     *)
(* active endpoints, inserts a row per endpoint, then marks the event.     *)

RunOnce(w) ==
  /\ pc[w] = "idle"
  /\ todo' = [todo EXCEPT ![w] = {e \in Event : outbox[e] = "committed"}]
  /\ Goto(w, "fanning")
  /\ UNCHANGED <<outbox, endpoint, ledgerVars, targets, batch, event, try, answer,
                 consumerVars, owed, boundVars>>

(* Mutation of EndpointsFor: the event is marked before its rows exist.    *)
EndpointsForMarkingFirst(w) ==
  /\ pc[w] = "fanning"
  /\ \E e \in todo[w] :
       /\ event' = [event EXCEPT ![w] = e]
       /\ outbox' = [outbox EXCEPT ![e] = "fanned"]
  /\ targets' = [targets EXCEPT ![w] = {p \in Endpoint : endpoint[p] = "active"}]
  /\ Goto(w, "creating")
  /\ UNCHANGED <<endpoint, ledgerVars, todo, batch, try, answer, consumerVars,
                 owed, boundVars>>

EndpointsFor(w) ==
  /\ pc[w] = "fanning"
  /\ \E e \in todo[w] : event' = [event EXCEPT ![w] = e]
  /\ targets' = [targets EXCEPT ![w] = {p \in Endpoint : endpoint[p] = "active"}]
  /\ Goto(w, "creating")
  /\ UNCHANGED <<outbox, endpoint, ledgerVars, todo, batch, try, answer,
                 consumerVars, owed, boundVars>>

(* INSERT OR IGNORE: a row that exists stays as it is.                     *)
CreateDelivery(w) ==
  /\ pc[w] = "creating"
  /\ \E p \in targets[w] :
       LET d == <<p, event[w]>> IN
       /\ targets' = [targets EXCEPT ![w] = @ \ {p}]
       /\ IF status[d] = "none"
            THEN /\ status' = [status EXCEPT ![d] = "pending"]
                 /\ lastRow' = lastRow + 1
                 /\ rowId' = [rowId EXCEPT ![d] = lastRow']
            ELSE UNCHANGED <<status, lastRow, rowId>>
  /\ UNCHANGED <<outbox, endpoint, attempt, resting, pc, todo, batch, event, try,
                 answer, consumerVars, owed, boundVars>>

MarkFannedOut(w) ==
  /\ pc[w] = "creating"
  /\ targets[w] = {}
  /\ outbox' = [outbox EXCEPT ![event[w]] = "fanned"]
  /\ todo' = [todo EXCEPT ![w] = @ \ {event[w]}]
  /\ event' = [event EXCEPT ![w] = NoEvent]
  /\ Goto(w, "fanning")
  /\ UNCHANGED <<endpoint, ledgerVars, targets, batch, try, answer, consumerVars,
                 owed, boundVars>>

-----------------------------------------------------------------------------
(* Delivery.                                                               *)

(* Mutation of ReplayDead: the row keeps its attempt count.                *)
ReplayDeadKeepingCount(g, scope) ==
  LET dead == {d \in Delivery : d[1] \in scope /\ status[d] = "dead"} IN
  /\ replays < MaxReplays
  /\ pc[g] = "idle"
  /\ status' = [d \in Delivery |-> IF d \in dead THEN "pending" ELSE status[d]]
  /\ posts' = [d \in Delivery |-> IF d \in dead THEN 0 ELSE posts[d]]
  /\ resting' = resting \ dead
  /\ replays' = replays + 1
  /\ Goto(g, "replayed")
  /\ UNCHANGED <<outbox, endpoint, attempt, rowId, lastRow, localVars, received,
                 owed, crashes>>

(* replay_dead: one UPDATE over the tenant's dead rows, or one endpoint's. *)
ReplayDead(g, scope) ==
  LET dead == {d \in Delivery : d[1] \in scope /\ status[d] = "dead"} IN
  /\ replays < MaxReplays
  /\ pc[g] = "idle"
  /\ status' = [d \in Delivery |-> IF d \in dead THEN "pending" ELSE status[d]]
  /\ attempt' = [d \in Delivery |-> IF d \in dead THEN 0 ELSE attempt[d]]
  /\ posts' = [d \in Delivery |-> IF d \in dead THEN 0 ELSE posts[d]]
  /\ resting' = resting \ dead
  /\ replays' = replays + 1
  /\ Goto(g, "replayed")
  /\ UNCHANGED <<outbox, endpoint, rowId, lastRow, localVars, received, owed, crashes>>

(* Mutation of DueDeliveries: rows that failed once are not read again.    *)
DueDeliveriesPendingOnly(x) ==
  /\ \/ pc[x] = "fanning" /\ todo[x] = {}
     \/ pc[x] = "replayed"
  /\ LET due == {d \in Delivery : status[d] = "pending" /\ d \notin resting}
     IN  batch' = [batch EXCEPT ![x] = {<<d, attempt[d]>> : d \in due}]
  /\ Goto(x, "delivering")
  /\ UNCHANGED <<outbox, endpoint, ledgerVars, todo, targets, event, try, answer,
                 consumerVars, owed, boundVars>>

(* deliver_due reads the due rows: a worker's after its fan-out, the       *)
(* gateway's after a replay.                                               *)
DueDeliveries(x) ==
  /\ \/ pc[x] = "fanning" /\ todo[x] = {}
     \/ pc[x] = "replayed"
  /\ LET due == {d \in Delivery : status[d] \in {"pending", "retrying"} /\ d \notin resting}
     IN  batch' = [batch EXCEPT ![x] = {<<d, attempt[d]>> : d \in due}]
  /\ Goto(x, "delivering")
  /\ UNCHANGED <<outbox, endpoint, ledgerVars, todo, targets, event, try, answer,
                 consumerVars, owed, boundVars>>

(* mark_delivery overwrites the row, whatever it says by now.              *)
MarkDelivery(d, state, n) ==
  /\ status' = [status EXCEPT ![d] = state]
  /\ attempt' = [attempt EXCEPT ![d] = n]
  /\ resting' = IF state = "retrying" THEN resting \cup {d} ELSE resting \ {d}
  /\ UNCHANGED <<rowId, lastRow>>

(* _attempt gives up at once: the endpoint is not active any more, or its  *)
(* URL fails the SSRF guard, which it also does when DNS does not answer.  *)
Block(x) ==
  /\ pc[x] = "delivering"
  /\ \E t \in batch[x] :
       /\ MarkDelivery(t[1], "blocked", t[2] + 1)
       /\ batch' = [batch EXCEPT ![x] = @ \ {t}]
  /\ UNCHANGED <<outbox, endpoint, pc, todo, targets, event, try, answer,
                 consumerVars, owed, boundVars>>

Attempt(x) ==
  /\ pc[x] = "delivering"
  /\ \E t \in batch[x] :
       /\ endpoint[t[1][1]] = "active"
       /\ try' = [try EXCEPT ![x] = t]
       /\ batch' = [batch EXCEPT ![x] = @ \ {t}]
  /\ Goto(x, "posting")
  /\ UNCHANGED <<outbox, endpoint, ledgerVars, todo, targets, event, answer,
                 consumerVars, owed, boundVars>>

(* One HTTP attempt: acknowledged, handled but counted as failed, or lost. *)
Post(x) ==
  /\ pc[x] = "posting"
  /\ LET d == try[x][1] IN
     /\ posts' = [posts EXCEPT ![d] = @ + 1]
     /\ \E ok, handled \in BOOLEAN :
          /\ ok => handled
          /\ answer' = [answer EXCEPT ![x] = ok]
          /\ received' = IF handled THEN received \cup {d} ELSE received
  /\ Goto(x, "marking")
  /\ UNCHANGED <<outbox, endpoint, ledgerVars, todo, targets, batch, event, try,
                 owed, boundVars>>

(* Mutation of MarkResult: the last try is never made.                     *)
MarkResultEarly(x) ==
  /\ pc[x] = "marking"
  /\ LET d == try[x][1]
         n == try[x][2] + 1 IN
     IF answer[x]
       THEN MarkDelivery(d, "delivered", n) /\ Goto(x, "delivering")
       ELSE IF n >= MaxAttempts - 1
         THEN MarkDelivery(d, "dead", n) /\ Goto(x, "counting")
         ELSE MarkDelivery(d, "retrying", n) /\ Goto(x, "delivering")
  /\ UNCHANGED <<outbox, endpoint, localVars, consumerVars, owed, boundVars>>

MarkResult(x) ==
  /\ pc[x] = "marking"
  /\ LET d == try[x][1]
         n == try[x][2] + 1 IN
     IF answer[x]
       THEN MarkDelivery(d, "delivered", n) /\ Goto(x, "delivering")
       ELSE IF n >= MaxAttempts
         THEN MarkDelivery(d, "dead", n) /\ Goto(x, "counting")
         ELSE MarkDelivery(d, "retrying", n) /\ Goto(x, "delivering")
  /\ UNCHANGED <<outbox, endpoint, localVars, consumerVars, owed, boundVars>>

(* consecutive_dead: the endpoint's settled rows, newest id first, up to   *)
(* the first that was delivered.                                           *)
ConsecutiveDead(p) ==
  Cardinality({e \in Event :
    /\ status[<<p, e>>] = "dead"
    /\ \A f \in Event : status[<<p, f>>] = "delivered" => rowId[<<p, f>>] < rowId[<<p, e>>]})

CountDead(x) ==
  /\ pc[x] = "counting"
  /\ Goto(x, IF ConsecutiveDead(try[x][1][1]) >= AutoDisableAfter
               THEN "disabling" ELSE "delivering")
  /\ UNCHANGED <<outbox, endpoint, ledgerVars, localVars, consumerVars, owed, boundVars>>

Disable(x) ==
  /\ pc[x] = "disabling"
  /\ endpoint' = [endpoint EXCEPT ![try[x][1][1]] = "disabled"]
  /\ Goto(x, "delivering")
  /\ UNCHANGED <<outbox, ledgerVars, localVars, consumerVars, owed, boundVars>>

Finish(x) ==
  /\ pc[x] = "delivering"
  /\ batch[x] = {}
  /\ try' = [try EXCEPT ![x] = NoTry]
  /\ answer' = [answer EXCEPT ![x] = FALSE]
  /\ Goto(x, "idle")
  /\ UNCHANGED <<outbox, endpoint, ledgerVars, todo, targets, batch, event,
                 consumerVars, owed, boundVars>>

(* The process dies, or an exception leaves run_once.                      *)
Crash(x) ==
  /\ crashes < MaxCrashes
  /\ pc[x] # "idle"
  /\ crashes' = crashes + 1
  /\ todo' = [todo EXCEPT ![x] = {}]
  /\ targets' = [targets EXCEPT ![x] = {}]
  /\ batch' = [batch EXCEPT ![x] = {}]
  /\ event' = [event EXCEPT ![x] = NoEvent]
  /\ try' = [try EXCEPT ![x] = NoTry]
  /\ answer' = [answer EXCEPT ![x] = FALSE]
  /\ Goto(x, "idle")
  /\ UNCHANGED <<outbox, endpoint, ledgerVars, consumerVars, owed, replays>>

-----------------------------------------------------------------------------
Environment ==
  \/ \E e \in Event : Commit(e)
  \/ \E p \in Endpoint : RegisterWebhook(p) \/ DisableWebhook(p)
  \/ \E d \in Delivery : BackoffElapses(d)

DispatcherStep(x) ==
  \/ x \in Worker /\ RunOnce(x)
  \/ EndpointsFor(x) \/ CreateDelivery(x) \/ MarkFannedOut(x)
  \/ DueDeliveries(x) \/ Block(x) \/ Attempt(x) \/ Post(x) \/ MarkResult(x)
  \/ CountDead(x) \/ Disable(x) \/ Finish(x)

Replay ==
  \E g \in Gateway, scope \in {Endpoint} \cup {{p} : p \in Endpoint} : ReplayDead(g, scope)

Next ==
  \/ Environment
  \/ Replay
  \/ \E x \in Dispatcher : DispatcherStep(x) \/ Crash(x)

Spec == Init /\ [][Next]_vars

(* A careful operator replays dead letters only while no dispatcher is in  *)
(* the middle of a pass.                                                   *)
Quiet == \A x \in Dispatcher : pc[x] = "idle"

QuietNext ==
  \/ Environment
  \/ Quiet /\ Replay
  \/ \E x \in Dispatcher : DispatcherStep(x) \/ Crash(x)

QuietSpec == Init /\ [][QuietNext]_vars

(* Workers poll for ever, a pass once begun goes on, and timers run out.   *)
Fairness ==
  /\ \A x \in Dispatcher : WF_vars(DispatcherStep(x))
  /\ \A d \in Delivery : WF_vars(BackoffElapses(d))

FairQuietSpec == QuietSpec /\ Fairness

-----------------------------------------------------------------------------
(* Fan-out skips nobody: once an event is marked, every endpoint that was  *)
(* active when it was committed and still is has its row.  NobodySkipped   *)
(* proves it wherever dispatchers stopped and however many ran             *)
(* (delivery.fan_out).                                                     *)
FanOutComplete ==
  \A e \in Event : outbox[e] = "fanned" =>
    \A p \in owed[e] : endpoint[p] = "active" => status[<<p, e>>] # "none"

(* The attempt a row records is the one its status is about, although      *)
(* stale dispatchers overwrite each other's writes and replays reset them. *)
LedgerConsistent ==
  \A d \in Delivery :
    /\ status[d] \in {"none", "pending"} => attempt[d] = 0
    /\ status[d] = "retrying" => attempt[d] \in 1 .. MaxAttempts - 1
    /\ status[d] = "dead" => attempt[d] = MaxAttempts

(* Only an acknowledgement counts: a consumer has handled every delivered  *)
(* row, whichever dispatcher marked it (delivery._post, _attempt).         *)
DeliveredIsReceived ==
  \A d \in Delivery : status[d] = "delivered" => d \in received

(* ... and when replays are quiet a dead row had all its tries since it    *)
(* was last armed, however many stale dispatchers wrote its count.         *)
SettledHonestly ==
  /\ DeliveredIsReceived
  /\ \A d \in Delivery : status[d] = "dead" => posts[d] >= MaxAttempts

(* Every row is settled in the end: retries stop, and a crash loses none.  *)
DeliveriesSettle ==
  \A d \in Delivery :
    status[d] \in {"pending", "retrying"} ~> status[d] \in {"delivered", "dead", "blocked"}

(* What an event owes an endpoint is handled, dead-lettered or blocked, or *)
(* the endpoint is disabled (delivery.py: "At-least-once delivery").       *)
OwedIsSettled ==
  \A e \in Event, p \in Endpoint :
    p \in owed[e] ~>
      <<p, e>> \in received \/ status[<<p, e>>] \in {"dead", "blocked"} \/ endpoint[p] = "disabled"

(* What holds between the steps, strong enough to be inductive.            *)

(* An endpoint is owed only what was committed after it was registered.    *)
OwedInv == \A e \in Event : \A p \in owed[e] : endpoint[p] # "none"

(* The event in hand: whoever it is owed to has a row or is still to come. *)
Fanning(x) ==
  /\ \A e \in todo[x] : outbox[e] # "none"
  /\ pc[x] = "creating" =>
       /\ event[x] \in Event
       /\ outbox[event[x]] # "none"
       /\ \A p \in owed[event[x]] :
            endpoint[p] = "active" => p \in targets[x] \/ status[<<p, event[x]>>] # "none"

(* The row in hand, and what an acknowledgement means.                     *)
Trying(x) ==
  /\ pc[x] \in {"posting", "marking", "counting", "disabling"} => try[x] \in Try
  /\ pc[x] = "marking" /\ answer[x] => try[x][1] \in received

DispatcherInv == \A x \in Dispatcher : Fanning(x) /\ Trying(x)

Inv ==
  /\ TypeOK
  /\ OwedInv
  /\ DispatcherInv
  /\ FanOutComplete
  /\ DeliveredIsReceived
  /\ LedgerConsistent

(* What each dispatcher knows of the POSTs made for the rows it works on,  *)
(* since they were last armed: the proof of SettledHonestly rests on it.   *)
TriesCounted(x) ==
  /\ pc[x] = "idle" => batch[x] = {}
  /\ \A t \in batch[x] : t[2] <= posts[t[1]]
  /\ pc[x] = "posting" => try[x][2] <= posts[try[x][1]]
  /\ pc[x] = "marking" => try[x][2] < posts[try[x][1]]

HonestInv ==
  /\ \A d \in Delivery :
       status[d] \in {"pending", "retrying", "dead"} => attempt[d] <= posts[d]
  /\ \A x \in Dispatcher : TriesCounted(x)

(* delivery.py:13-14 promises retries, "then the dead-letter queue": a     *)
(* delivery is given up at once only when its endpoint is disabled.        *)
NothingSilentlyDropped ==
  \A d \in Delivery : status[d] = "blocked" => endpoint[d[1]] = "disabled"
=============================================================================
