---------------------- MODULE EnterprisePipelineProofs ----------------------
(***************************************************************************)
(* EnterprisePipeline's safety, for any conversations, channels, loops and *)
(* deployments, any number of attempts and any number of crashes.  Three   *)
(* arguments run side by side and share only the types: AudioInv follows a *)
(* recording from its consent to its deletion, RouteInv a conversation     *)
(* from its messages to its rows, CallsCount a row's attempts.             *)
(***************************************************************************)
EXTENDS EnterprisePipeline, TLAPS

USE DEF dbVars, routeVars, busVars, purgeVars, agentVars, setup, routerVars

(* The tables of the ladder and of the topics, read out. *)
LEMMA Names ==
  /\ \A s \in Stage : Target[s] \in {"transcribing", "extracting", "dispatching"}
  /\ \A s \in DOMAIN Downstream : Downstream[s] \in {"extractor", "routing"}
  /\ Downstream["asr"] = "extractor" /\ Downstream["extractor"] = "routing"
  /\ DOMAIN Downstream = {"asr", "extractor"}
  /\ State = {"consent_logged", "audio_uploaded", "transcribing", "extracting", "dispatching",
              "purged", "error_purged", "none"}
BY DEF Target, Downstream, Stage, Allowed, State

(* What a step leaves alone it does not disturb. *)
LEMMA AudioFrame ==
  ASSUME Inv, UNCHANGED <<ing, consent, state, erased, todo, hand, at, audio, undeleted>>
  PROVE  AudioInv'
BY DEF Inv, AudioInv, IngestKnows, PurgeKnows, NoStrandedAudio

(* The same for the bus and the routes. *)
LEMMA RouteFrame ==
  ASSUME Inv, UNCHANGED <<inbox, unsent, transcript, extraction, pc, needy, verified, flagged,
                          seen, verifying, row, task, messaged>>
  PROVE  RouteInv'
BY DEF Inv, RouteInv, BusKnows, Speaks, FlagKnows, HoldKnows, GroundedRouting,
   NoUnverifiedWhatsApp

(* The same for the count of the calls. *)
LEMMA CallsFrame ==
  ASSUME Inv, UNCHANGED <<row, task>>
  PROVE  CallsCount'
BY DEF Inv, CallsCount, Current

(* Before the first request there is nothing to be wrong about. *)
LEMMA InitInv == Init => Inv
<1> SUFFICES ASSUME Init PROVE Inv
  OBVIOUS
<1>1. TypeOK
  <2>1. <<>> \in Seq(Conv) /\ NoRow \in Row /\ NoTask \in Task /\ "none" \in State
    BY Names DEF NoRow, Row, RowStatus, NoTask, Task
  <2>2. /\ state \in [Conv -> State] /\ row \in [Key -> Row]
        /\ task \in [Deliverer \X Key -> Task]
    BY <2>1 DEF Init
  <2>3. inbox \in [Stage -> Seq(Conv)] /\ unsent \in [Stage -> Seq(Conv)]
    BY <2>1 DEF Init
  <2>4. crashes \in 0 .. MaxCrashes
    BY ConstantsAssumption DEF Init
  <2>5. opened \subseteq Opener
    BY DEF Init, Opener
  <2> QED
    BY <2>2, <2>3, <2>4, <2>5 DEF Init, TypeOK
<1>2. AudioInv
  BY DEF Init, AudioInv, IngestKnows, PurgeKnows, NoStrandedAudio, Terminal, Purger
<1>3. RouteInv
  BY DEF Init, RouteInv, BusKnows, Speaks, FlagKnows, HoldKnows, GroundedRouting,
     NoUnverifiedWhatsApp, Stage, NoRow, NoTask, Key, Deliverer
<1>4. CallsCount
  BY DEF Init, CallsCount, NoRow, NoTask, Key, Deliverer
<1> QED
  BY <1>1, <1>2, <1>3, <1>4 DEF Inv

-----------------------------------------------------------------------------
(* A process that starts again is one that keeps a store. *)
LEMMA Restarted ==
  ASSUME TypeOK, NEW p \in Opener, Restart(p)
  PROVE  opened' \subseteq Opener
BY DEF TypeOK, Restart

(* One row is replaced by another one of its type. *)
LEMMA RowSet ==
  ASSUME TypeOK, NEW k \in Key, NEW r \in Row, row' = [row EXCEPT ![k] = r]
  PROVE  /\ row' \in [Key -> Row]
         /\ row'[k] = r
         /\ \A j \in Key \ {k} : row'[j] = row[j]
BY DEF TypeOK

(* One delivery is replaced by another one of its type. *)
LEMMA TaskSet ==
  ASSUME TypeOK, NEW d \in Deliverer, NEW k \in Key, NEW x \in Task,
         task' = [task EXCEPT ![<<d, k>>] = x]
  PROVE  /\ task' \in [Deliverer \X Key -> Task]
         /\ task'[<<d, k>>] = x
         /\ \A e \in Deliverer, j \in Key :
              <<e, j>> # <<d, k>> => task'[<<e, j>>] = task[<<e, j>>]
BY DEF TypeOK

(* A list given to a deliverer holds each row's id and attempts as they are now. *)
LEMMA Enqueued ==
  ASSUME TypeOK, NEW d \in Deliverer, NEW ks \in SUBSET Key, Enqueue(d, ks)
  PROVE  /\ task' \in [Deliverer \X Key -> Task]
         /\ \A e \in Deliverer, k \in Key :
              \/ task'[<<e, k>>] = task[<<e, k>>]
              \/ /\ k \in ks
                 /\ task'[<<e, k>>].pc = "queued"
                 /\ task'[<<e, k>>].id = row[k].id
                 /\ task'[<<e, k>>].attempts = row[k].attempts
<1>1. \A k \in Key : row[k] \in Row
  BY DEF TypeOK
<1>2. \A k \in ks : [pc |-> "queued", id |-> row[k].id, attempts |-> row[k].attempts] \in Task
  BY <1>1 DEF Row, Task
<1>3. \A e \in Deliverer, k \in Key :
        task'[<<e, k>>] =
          IF e = d /\ k \in ks
            THEN [pc |-> "queued", id |-> row[k].id, attempts |-> row[k].attempts]
            ELSE task[<<e, k>>]
  BY DEF Enqueue
<1>4. \A e \in Deliverer, k \in Key : task[<<e, k>>] \in Task
  BY DEF TypeOK
<1>5. task' \in [Deliverer \X Key -> Task]
  <2>1. ASSUME NEW t \in Deliverer \X Key
        PROVE  (IF t[1] = d /\ t[2] \in ks
                  THEN [pc |-> "queued", id |-> row[t[2]].id, attempts |-> row[t[2]].attempts]
                  ELSE task[t]) \in Task
    BY <1>2 DEF TypeOK
  <2> QED
    BY <2>1 DEF Enqueue
<1>6. ASSUME NEW e \in Deliverer, NEW k \in Key, e = d, k \in ks
      PROVE  /\ task'[<<e, k>>].pc = "queued" /\ task'[<<e, k>>].id = row[k].id
             /\ task'[<<e, k>>].attempts = row[k].attempts
  <2>1. task'[<<e, k>>] = [pc |-> "queued", id |-> row[k].id, attempts |-> row[k].attempts]
    BY <1>3, <1>6
  <2> QED
    BY <2>1
<1> QED
  BY <1>3, <1>5, <1>6

(* The deliveries a process drops are idle, the others as they were. *)
LEMMA Dropped ==
  ASSUME TypeOK, NEW d, DropTasks(d)
  PROVE  /\ task' \in [Deliverer \X Key -> Task]
         /\ \A e \in Deliverer, k \in Key : task'[<<e, k>>] \in {task[<<e, k>>], NoTask}
<1>1. NoTask \in Task
  BY DEF NoTask, Task
<1>2. \A e \in Deliverer, k \in Key :
        task'[<<e, k>>] = IF e = d THEN NoTask ELSE task[<<e, k>>]
  BY DEF DropTasks
<1> QED
  BY <1>1, <1>2 DEF DropTasks, TypeOK

(* A released row keeps its id and its attempts. *)
LEMMA Released ==
  ASSUME TypeOK, NEW k \in Key, row' = [row EXCEPT ![k].status = "pending"]
  PROVE  /\ row' \in [Key -> Row]
         /\ row'[k].status = "pending" /\ row'[k].id = row[k].id
         /\ row'[k].attempts = row[k].attempts /\ row'[k].calls = row[k].calls
         /\ \A j \in Key \ {k} : row'[j] = row[j]
<1> DEFINE r == [row[k] EXCEPT !.status = "pending"]
<1>1. row[k] \in Row
  BY DEF TypeOK
<1>2. /\ r \in Row /\ r.status = "pending" /\ r.id = row[k].id
      /\ r.attempts = row[k].attempts /\ r.calls = row[k].calls
  BY <1>1 DEF Row, RowStatus
<1>3. row' = [row EXCEPT ![k] = r]
  OBVIOUS
<1> HIDE DEF r
<1> QED
  BY <1>2, <1>3, RowSet

(* An attempt leaves the row's id and attempts and counts the call, up to the number that *)
(* exhausts it.                                                                           *)
LEMMA Attempted ==
  ASSUME TypeOK, NEW d \in Deliverer, NEW k \in Key, Attempt(d, k)
  PROVE  /\ row' \in [Key -> Row] /\ task' \in [Deliverer \X Key -> Task]
         /\ \A j \in Key : row'[j].id = row[j].id /\ row'[j].attempts = row[j].attempts
         /\ \A j \in Key : row'[j].calls >= row[j].calls
         /\ \A j \in Key : \/ row'[j].status = row[j].status
                           \/ j = k /\ row[j].status # "none" /\ row'[j].status = "delivering"
         /\ Current(<<d, k>>) => row'[k].calls > row[k].calls \/ row[k].calls > MaxAttempts
         /\ task'[<<d, k>>].pc \in {"accepted", "refused"} /\ task[<<d, k>>].pc = "queued"
         /\ task'[<<d, k>>].id = task[<<d, k>>].id
         /\ task'[<<d, k>>].attempts = task[<<d, k>>].attempts
         /\ \A e \in Deliverer, j \in Key :
              <<e, j>> # <<d, k>> => task'[<<e, j>>] = task[<<e, j>>]
<1> DEFINE t == <<d, k>>
<1>1. row[k] \in Row /\ task[t] \in Task /\ task[t].pc = "queued"
  BY DEF TypeOK, Attempt
<1>2. PICK answer \in {"accepted", "refused"} : task' = [task EXCEPT ![t].pc = answer]
  BY DEF Attempt
<1> DEFINE x == [task[t] EXCEPT !.pc = answer]
<1>3. /\ x \in Task /\ x.pc = answer /\ x.id = task[t].id /\ x.attempts = task[t].attempts
  BY <1>1 DEF Task
<1>4. task' = [task EXCEPT ![t] = x]
  BY <1>2
<1> HIDE DEF x
<1>5. /\ task' \in [Deliverer \X Key -> Task] /\ task'[t] = x
      /\ \A e \in Deliverer, j \in Key :
           <<e, j>> # <<d, k>> => task'[<<e, j>>] = task[<<e, j>>]
  BY <1>3, <1>4, TaskSet
<1>6. CASE ~Current(t)
  <2>1. row' = row
    BY <1>6 DEF Attempt
  <2>2. \A j \in Key : row[j].calls \in Nat
    BY DEF TypeOK, Row
  <2> QED
    BY <1>1, <1>3, <1>5, <1>6, <2>1, <2>2 DEF TypeOK
<1>7. CASE Current(t)
  <2> DEFINE more == IF row[k].calls > MaxAttempts THEN row[k].calls ELSE row[k].calls + 1
             r == [row[k] EXCEPT !.status = "delivering", !.calls = more]
  <2>1. /\ row[k].calls \in Nat /\ more \in Nat /\ more >= row[k].calls
        /\ more > row[k].calls \/ row[k].calls > MaxAttempts
    BY <1>1, ConstantsAssumption DEF Row
  <2>2. row' = [row EXCEPT ![k] = r]
    BY <1>7 DEF Attempt
  <2> HIDE DEF more
  <2>3. /\ r \in Row /\ r.status = "delivering" /\ r.calls = more
        /\ r.id = row[k].id /\ r.attempts = row[k].attempts
    BY <1>1, <2>1 DEF Row, RowStatus
  <2> HIDE DEF r
  <2>4. /\ row' \in [Key -> Row] /\ row'[k] = r /\ \A j \in Key \ {k} : row'[j] = row[j]
    BY <2>2, <2>3, RowSet
  <2>5. \A j \in Key : row[j].calls \in Nat
    BY DEF TypeOK, Row
  <2>6. row[k].status # "none"
    BY <1>7 DEF Current
  <2> QED
    BY <1>1, <1>3, <1>5, <2>1, <2>3, <2>4, <2>5, <2>6
<1> QED
  BY <1>6, <1>7

(* An answer leaves the row delivered, failed within its attempts, or gone with its id kept. *)
LEMMA Recorded ==
  ASSUME Inv, NEW d \in Deliverer, NEW k \in Key, Record(d, k)
  PROVE  /\ row' \in [Key -> Row] /\ task' \in [Deliverer \X Key -> Task]
         /\ task'[<<d, k>>] = NoTask
         /\ \A e \in Deliverer, j \in Key :
              <<e, j>> # <<d, k>> => task'[<<e, j>>] = task[<<e, j>>]
         /\ \A j \in Key \ {k} : row'[j] = row[j]
         /\ row'[k].id = row[k].id
         /\ row'[k].status # "none" => row[k].status # "none" /\ row'[k].calls = row[k].calls
         /\ \/ row'[k] = row[k]
            \/ row'[k].status = "none" /\ row[k].status # "none" /\ row[k].calls > MaxAttempts
            \/ /\ row'[k].status \in {"delivered", "failed"}
               /\ row'[k].attempts <= row'[k].calls
               /\ row'[k].status = "failed" => row'[k].attempts <= MaxAttempts
<1> DEFINE t == <<d, k>>
<1>1. row[k] \in Row /\ task[t] \in Task /\ NoTask \in Task /\ TypeOK
  BY DEF Inv, TypeOK, NoTask, Task
<1>2. task' = [task EXCEPT ![t] = NoTask]
  BY DEF Record
<1>3. /\ task' \in [Deliverer \X Key -> Task] /\ task'[t] = NoTask
      /\ \A e \in Deliverer, j \in Key :
           <<e, j>> # <<d, k>> => task'[<<e, j>>] = task[<<e, j>>]
  BY <1>1, <1>2, TaskSet
<1>4. CASE ~Current(t)
  <2>1. row' = row
    BY <1>4 DEF Record
  <2> QED
    BY <1>3, <2>1 DEF Inv, TypeOK
<1>5. CASE Current(t)
  <2> DEFINE n == task[t].attempts + 1
  <2>1. /\ row[k].status # "none" /\ task[t].attempts \in Nat /\ row[k].calls \in Nat
        /\ row[k].calls >= n /\ task[t].attempts <= MaxAttempts
    BY <1>1, <1>5 DEF Record, Inv, CallsCount, Current, Row, Task
  <2>2. row' = [row EXCEPT ![k] = Outcome(row[k], t)]
    BY <1>5 DEF Record
  <2>3. /\ Outcome(row[k], t) \in Row
        /\ Outcome(row[k], t).id = row[k].id
        /\ \/ /\ Outcome(row[k], t).status = "none" /\ n > MaxAttempts
           \/ /\ Outcome(row[k], t).status \in {"delivered", "failed"}
              /\ Outcome(row[k], t).attempts = n /\ Outcome(row[k], t).calls = row[k].calls
              /\ Outcome(row[k], t).status = "failed" => n <= MaxAttempts
    <3> DEFINE accepted == [row[k] EXCEPT !.status = "delivered", !.attempts = n]
               gone == [NoRow EXCEPT !.id = row[k].id]
               failed == [row[k] EXCEPT !.status = "failed", !.attempts = n]
    <3>0. Outcome(row[k], t) = IF task[t].pc = "accepted" THEN accepted
                               ELSE IF n > MaxAttempts THEN gone ELSE failed
      BY DEF Outcome
    <3>n. n \in Nat
      BY <2>1
    <3> HIDE DEF n
    <3>1. /\ accepted \in Row /\ accepted.id = row[k].id /\ accepted.status = "delivered"
          /\ accepted.attempts = n /\ accepted.calls = row[k].calls
      BY <1>1, <3>n DEF Row, RowStatus
    <3>2. gone \in Row /\ gone.id = row[k].id /\ gone.status = "none"
      BY <1>1 DEF NoRow, Row, RowStatus
    <3>3. /\ failed \in Row /\ failed.id = row[k].id /\ failed.status = "failed"
          /\ failed.attempts = n /\ failed.calls = row[k].calls
      BY <1>1, <3>n DEF Row, RowStatus
    <3> HIDE DEF accepted, gone, failed
    <3> QED
      BY <3>0, <3>n, <3>1, <3>2, <3>3, ConstantsAssumption
  <2>4. /\ row' \in [Key -> Row] /\ row'[k] = Outcome(row[k], t)
        /\ \A j \in Key \ {k} : row'[j] = row[j]
    BY <1>1, <2>2, <2>3, RowSet
  <2>5. n > MaxAttempts => row[k].calls > MaxAttempts
    BY <2>1, ConstantsAssumption
  <2> HIDE DEF n
  <2> QED
    BY <1>3, <2>1, <2>3, <2>4, <2>5
<1> QED
  BY <1>4, <1>5

(* A pass takes a conversation of its list in hand. *)
LEMMA Stepped ==
  ASSUME TypeOK, NEW p \in Purger, NEW c \in Conv, NEW to, Step(p, c, to)
  PROVE  /\ todo' = todo /\ hand' \in [Purger -> SUBSET Conv]
         /\ at'[p] = to /\ hand'[p] = {c}
         /\ \A q \in Purger \ {p} : at'[q] = at[q] /\ hand'[q] = hand[q]
BY DEF Step, TypeOK

(* A pass is through with a conversation. *)
LEMMA PassedOver ==
  ASSUME TypeOK, NEW p \in Purger, NEW c \in Conv, Drop(p, c)
  PROVE  /\ todo' \in [Purger -> SUBSET Conv] /\ hand' \in [Purger -> SUBSET Conv]
         /\ at'[p] \in {"idle", "delete"} /\ hand'[p] = {} /\ todo'[p] \subseteq todo[p]
         /\ \A q \in Purger \ {p} : at'[q] = at[q] /\ hand'[q] = hand[q] /\ todo'[q] = todo[q]
<1>1. todo \in [Purger -> SUBSET Conv] /\ hand \in [Purger -> SUBSET Conv] /\ DOMAIN at = Purger
  BY DEF TypeOK
<1>2. todo[p] \ {c} \in SUBSET Conv
  BY <1>1
<1>3. todo' = [todo EXCEPT ![p] = todo[p] \ {c}]
  BY DEF Drop
<1>4. todo' \in [Purger -> SUBSET Conv] /\ todo'[p] \subseteq todo[p]
  BY <1>1, <1>2, <1>3
<1> QED
  BY <1>1, <1>3, <1>4 DEF Drop

-----------------------------------------------------------------------------
(* Consent comes first. *)
LEMMA RecordConsentKeeps ==
  ASSUME Inv, NEW c \in Conv, RecordConsent(c)
  PROVE  Inv'
<1>1. TypeOK'
  BY DEF RecordConsent, IngestStep, Inv, TypeOK, Opener
<1>2. AudioInv'
  BY DEF RecordConsent, IngestStep, Inv, TypeOK, AudioInv, IngestKnows, PurgeKnows,
     NoStrandedAudio, Terminal, Purger
<1>3. RouteInv'
  BY RouteFrame DEF RecordConsent
<1>4. CallsCount'
  BY CallsFrame DEF RecordConsent
<1> QED
  BY <1>1, <1>2, <1>3, <1>4 DEF Inv

(* A refused request has written nothing. *)
LEMMA RefuseConsentKeeps ==
  ASSUME Inv, NEW c \in Conv, RefuseConsent(c)
  PROVE  Inv'
<1>1. TypeOK'
  BY DEF RefuseConsent, IngestStep, Inv, TypeOK
<1>2. AudioInv'
  BY DEF RefuseConsent, IngestStep, Inv, TypeOK, AudioInv, IngestKnows, PurgeKnows,
     NoStrandedAudio, Terminal, Purger
<1>3. RouteInv'
  BY RouteFrame DEF RefuseConsent
<1>4. CallsCount'
  BY CallsFrame DEF RefuseConsent
<1> QED
  BY <1>1, <1>2, <1>3, <1>4 DEF Inv

(* The row is inserted after its consent. *)
LEMMA InsertConversationKeeps ==
  ASSUME Inv, NEW c \in Conv, InsertConversation(c)
  PROVE  Inv'
<1>1. TypeOK'
  BY Names DEF InsertConversation, IngestStep, Inv, TypeOK
<1>2. AudioInv'
  BY DEF InsertConversation, IngestStep, Inv, TypeOK, AudioInv, IngestKnows, PurgeKnows,
     NoStrandedAudio, Terminal, Purger
<1>3. RouteInv'
  BY RouteFrame DEF InsertConversation
<1>4. CallsCount'
  BY CallsFrame DEF InsertConversation
<1> QED
  BY <1>1, <1>2, <1>3, <1>4 DEF Inv

(* Audio is stored for a row that no pass has listed. *)
LEMMA PutAudioKeeps ==
  ASSUME Inv, NEW c \in Conv, PutAudio(c)
  PROVE  Inv'
<1>1. TypeOK'
  BY DEF PutAudio, IngestStep, Inv, TypeOK
<1>2. AudioInv'
  BY DEF PutAudio, IngestStep, Inv, TypeOK, AudioInv, IngestKnows, PurgeKnows, NoStrandedAudio,
     Terminal, Purger
<1>3. RouteInv'
  BY RouteFrame DEF PutAudio
<1>4. CallsCount'
  BY CallsFrame DEF PutAudio
<1> QED
  BY <1>1, <1>2, <1>3, <1>4 DEF Inv

(* The row is moved on. *)
LEMMA MarkUploadedKeeps ==
  ASSUME Inv, NEW c \in Conv, MarkUploaded(c)
  PROVE  Inv'
<1>1. TypeOK'
  BY Names DEF MarkUploaded, IngestStep, Inv, TypeOK
<1>2. AudioInv'
  BY DEF MarkUploaded, IngestStep, Inv, TypeOK, AudioInv, IngestKnows, PurgeKnows,
     NoStrandedAudio, Terminal, Purger
<1>3. RouteInv'
  BY RouteFrame DEF MarkUploaded
<1>4. CallsCount'
  BY CallsFrame DEF MarkUploaded
<1> QED
  BY <1>1, <1>2, <1>3, <1>4 DEF Inv

(* The request ends. *)
LEMMA ProduceRawKeeps ==
  ASSUME Inv, NEW c \in Conv, ProduceRaw(c)
  PROVE  Inv'
<1>1. TypeOK'
  BY DEF ProduceRaw, IngestStep, Inv, TypeOK, Stage
<1>2. AudioInv'
  BY DEF ProduceRaw, IngestStep, Inv, TypeOK, AudioInv, IngestKnows, PurgeKnows,
     NoStrandedAudio, Terminal, Purger
<1>3. RouteInv'
  <2>1. BusKnows'
    BY Names DEF ProduceRaw, IngestStep, Inv, TypeOK, RouteInv, BusKnows, Speaks, Stage
  <2>2. FlagKnows'
    BY Names DEF ProduceRaw, IngestStep, Inv, TypeOK, RouteInv, BusKnows, Speaks, FlagKnows,
       HoldKnows, Stage
  <2>3. HoldKnows'
    BY Names DEF ProduceRaw, IngestStep, Inv, TypeOK, RouteInv, BusKnows, FlagKnows, HoldKnows,
       Stage, Key, Deliverer, NoTask, NoRow
  <2>4. GroundedRouting'
    BY Names DEF ProduceRaw, IngestStep, Inv, TypeOK, RouteInv, BusKnows, Speaks,
       GroundedRouting, Stage, Key, NoRow
  <2>5. NoUnverifiedWhatsApp'
    BY Names DEF ProduceRaw, IngestStep, Inv, TypeOK, RouteInv, HoldKnows, NoUnverifiedWhatsApp,
       Key, NoTask, Deliverer
  <2> QED
    BY <2>1, <2>2, <2>3, <2>4, <2>5 DEF RouteInv
<1>4. CallsCount'
  BY CallsFrame DEF ProduceRaw
<1> QED
  BY <1>1, <1>2, <1>3, <1>4 DEF Inv

(* A verified conversation is verified for good. *)
LEMMA VerifyKeeps ==
  ASSUME Inv, NEW c \in Conv, Verify(c)
  PROVE  Inv'
<1>1. TypeOK'
  BY DEF Verify, AgentStep, Inv, TypeOK
<1>2. AudioInv'
  BY AudioFrame DEF Verify
<1>3. RouteInv'
  <2>1. BusKnows'
    BY Names DEF Verify, AgentStep, Inv, TypeOK, RouteInv, BusKnows, Speaks, Stage
  <2>2. FlagKnows'
    BY Names DEF Verify, AgentStep, Inv, TypeOK, RouteInv, BusKnows, Speaks, FlagKnows,
       HoldKnows, Stage
  <2>3. HoldKnows'
    BY Names DEF Verify, AgentStep, Inv, TypeOK, RouteInv, BusKnows, FlagKnows, HoldKnows, Stage,
       Key, Deliverer, NoTask, NoRow
  <2>4. GroundedRouting'
    BY Names DEF Verify, AgentStep, Inv, TypeOK, RouteInv, BusKnows, Speaks, GroundedRouting,
       Stage, Key, NoRow
  <2>5. NoUnverifiedWhatsApp'
    BY Names DEF Verify, AgentStep, Inv, TypeOK, RouteInv, HoldKnows, NoUnverifiedWhatsApp, Key,
       NoTask, Deliverer
  <2> QED
    BY <2>1, <2>2, <2>3, <2>4, <2>5 DEF RouteInv
<1>4. CallsCount'
  BY CallsFrame DEF Verify
<1> QED
  BY <1>1, <1>2, <1>3, <1>4 DEF Inv

(* A message stays true on its way. *)
LEMMA SendKeeps ==
  ASSUME Inv, NEW s \in Stage, Send(s)
  PROVE  Inv'
<1>1. TypeOK'
  BY DEF Send, Inv, TypeOK, Stage
<1>2. AudioInv'
  BY AudioFrame DEF Send
<1>3. RouteInv'
  <2>1. BusKnows'
    <3>1. /\ inbox \in [Stage -> Seq(Conv)] /\ unsent \in [Stage -> Seq(Conv)] /\ unsent[s] # <<>>
          /\ inbox' = [inbox EXCEPT ![s] = Append(@, Head(unsent[s]))]
          /\ unsent' = [unsent EXCEPT ![s] = Tail(@)]
      BY DEF Send, Inv, TypeOK
    <3>2. /\ inbox'[s] = Append(inbox[s], Head(unsent[s])) /\ unsent'[s] = Tail(unsent[s])
          /\ \A r \in Stage \ {s} : inbox'[r] = inbox[r] /\ unsent'[r] = unsent[r]
      BY <3>1
    <3>3. ASSUME NEW q \in Seq(Conv), NEW m \in Seq(Conv), m # <<>>, NEW known,
                 Speaks(q, known), Speaks(m, known)
          PROVE  Speaks(Append(q, Head(m)), known) /\ Speaks(Tail(m), known)
      <4>1. Head(m) = m[1] /\ 1 \in 1 .. Len(m) /\ Head(m) \in Conv
        BY <3>3
      <4>2. Speaks(Append(q, Head(m)), known)
        BY <3>3, <4>1 DEF Speaks
      <4>3. Speaks(Tail(m), known)
        <5>1. \A i \in 1 .. Len(Tail(m)) : Tail(m)[i] = m[i + 1] /\ i + 1 \in 1 .. Len(m)
          BY <3>3
        <5> QED
          BY <3>3, <5>1 DEF Speaks
      <4> QED
        BY <4>2, <4>3
    <3>4. BusKnows
      BY DEF Inv, RouteInv
    <3>5. \A q \in {inbox'["extractor"], unsent'["extractor"]} : Speaks(q, transcript)
      <4>1. CASE s = "extractor"
        <5>1. Speaks(inbox[s], transcript) /\ Speaks(unsent[s], transcript)
          BY <3>4, <4>1 DEF BusKnows
        <5>2. inbox[s] \in Seq(Conv) /\ unsent[s] \in Seq(Conv) /\ unsent[s] # <<>>
          BY <3>1
        <5>3. Speaks(inbox'[s], transcript) /\ Speaks(unsent'[s], transcript)
          BY <3>2, <3>3, <5>1, <5>2
        <5> QED
          BY <4>1, <5>3
      <4>2. CASE s # "extractor"
        BY <3>2, <3>4, <4>2 DEF BusKnows, Stage
      <4> QED
        BY <4>1, <4>2
    <3>6. \A q \in {inbox'["routing"], unsent'["routing"]} : Speaks(q, transcript \cap extraction)
      <4>1. CASE s = "routing"
        <5>1. Speaks(inbox[s], transcript \cap extraction) /\ Speaks(unsent[s], transcript \cap extraction)
          BY <3>4, <4>1 DEF BusKnows
        <5>2. inbox[s] \in Seq(Conv) /\ unsent[s] \in Seq(Conv) /\ unsent[s] # <<>>
          BY <3>1
        <5>3. Speaks(inbox'[s], transcript \cap extraction) /\ Speaks(unsent'[s], transcript \cap extraction)
          BY <3>2, <3>3, <5>1, <5>2
        <5> QED
          BY <4>1, <5>3
      <4>2. CASE s # "routing"
        BY <3>2, <3>4, <4>2 DEF BusKnows, Stage
      <4> QED
        BY <4>1, <4>2
    <3>7. \A r \in Stage : inbox[r] # <<>> => inbox'[r] # <<>>
      BY <3>1, <3>2
    <3> QED
      BY <3>4, <3>5, <3>6, <3>7 DEF Send, BusKnows
  <2>2. FlagKnows'
    BY Names DEF Send, Inv, TypeOK, RouteInv, BusKnows, Speaks, FlagKnows, HoldKnows, Stage
  <2>3. HoldKnows'
    BY Names DEF Send, Inv, TypeOK, RouteInv, BusKnows, FlagKnows, HoldKnows, Stage, Key,
       Deliverer, NoTask, NoRow
  <2>4. GroundedRouting'
    BY Names DEF Send, Inv, TypeOK, RouteInv, BusKnows, Speaks, GroundedRouting, Stage, Key,
       NoRow
  <2>5. NoUnverifiedWhatsApp'
    BY Names DEF Send, Inv, TypeOK, RouteInv, HoldKnows, NoUnverifiedWhatsApp, Key, NoTask,
       Deliverer
  <2> QED
    BY <2>1, <2>2, <2>3, <2>4, <2>5 DEF RouteInv
<1>4. CallsCount'
  BY CallsFrame DEF Send
<1> QED
  BY <1>1, <1>2, <1>3, <1>4 DEF Inv

(* A message passed over leaves everything as it was. *)
LEMMA SkipKeeps ==
  ASSUME Inv, NEW s \in Stage, NEW c \in Conv, Skip(s, c)
  PROVE  Inv'
<1>0. /\ pc' \in [Stage -> {"idle", "checked", "working", "done"}]
      /\ pc'[s] = "done" /\ inbox[s] # <<>>
      /\ \A q \in Stage \ {s} : pc'[q] = pc[q]
  BY DEF Skip, Polled, Inv, TypeOK
<1>1. TypeOK'
  BY <1>0 DEF Skip, Inv, TypeOK
<1>2. AudioInv'
  BY AudioFrame DEF Skip
<1>3. RouteInv'
  <2>1. BusKnows'
    BY <1>0 DEF Skip, Inv, RouteInv, BusKnows, Speaks
  <2>2. FlagKnows'
    BY <1>0 DEF Skip, Inv, RouteInv, FlagKnows, Stage
  <2>3. HoldKnows' /\ GroundedRouting' /\ NoUnverifiedWhatsApp'
    BY DEF Skip, Inv, RouteInv, HoldKnows, GroundedRouting, NoUnverifiedWhatsApp
  <2> QED
    BY <2>1, <2>2, <2>3 DEF RouteInv
<1>4. CallsCount'
  BY CallsFrame DEF Skip
<1> QED
  BY <1>1, <1>2, <1>3, <1>4 DEF Inv

(* The routing consumer reads the flag of the message in hand. *)
LEMMA BeginKeeps ==
  ASSUME Inv, NEW s \in Stage, NEW c \in Conv, Begin(s, c)
  PROVE  Inv'
<1>1. TypeOK'
  <2>1. pc' \in [Stage -> {"idle", "checked", "working", "done"}]
    BY DEF Begin, Inv, TypeOK
  <2>2. seen' \in BOOLEAN /\ toRoute' \subseteq Channel
    <3>1. seen \in BOOLEAN /\ toRoute \subseteq Channel
      BY DEF Inv, TypeOK
    <3>2. CASE s = "routing"
      <4>1. seen' = (c \in flagged) /\ toRoute' = Channel
        BY <3>2 DEF Begin
      <4> QED
        BY <4>1
    <3>3. CASE s # "routing"
      <4>1. seen' = seen /\ toRoute' = toRoute
        BY <3>3 DEF Begin
      <4> QED
        BY <3>1, <4>1
    <3> QED
      BY <3>2, <3>3
  <2> QED
    BY <2>1, <2>2 DEF Begin, Inv, TypeOK
<1>2. AudioInv'
  BY AudioFrame DEF Begin
<1>3. RouteInv'
  <2>1. BusKnows'
    BY Names DEF Begin, Polled, Inv, TypeOK, RouteInv, BusKnows, Speaks, Stage
  <2>2. FlagKnows'
    <3>1. FlagKnows /\ BusKnows /\ pc \in [Stage -> {"idle", "checked", "working", "done"}]
      BY DEF Inv, RouteInv, TypeOK
    <3>2. pc'["routing"] \in {"checked", "working"} /\ Head(inbox'["routing"]) \in needy' \ verified'
            => seen'
      <4>1. CASE s = "routing"
        <5>1. c = Head(inbox["routing"]) /\ inbox["routing"] # <<>> /\ inbox["routing"] \in Seq(Conv)
          BY <4>1 DEF Begin, Polled, Inv, TypeOK
        <5>2. c \in extraction
          BY <3>1, <5>1 DEF BusKnows, Speaks
        <5>3. seen' = (c \in flagged)
          BY <4>1 DEF Begin
        <5>4. c \in needy \ verified => c \in flagged
          BY <3>1, <5>2 DEF FlagKnows
        <5> QED
          BY <5>1, <5>3, <5>4 DEF Begin
      <4>2. CASE s # "routing"
        BY <3>1, <4>2 DEF Begin, FlagKnows, Stage
      <4> QED
        BY <4>1, <4>2
    <3> QED
      BY <3>1, <3>2 DEF Begin, FlagKnows
  <2>3. HoldKnows'
    BY Names DEF Begin, Polled, Inv, TypeOK, RouteInv, BusKnows, FlagKnows, HoldKnows, Stage,
       Key, Deliverer, NoTask, NoRow
  <2>4. GroundedRouting'
    BY Names DEF Begin, Polled, Inv, TypeOK, RouteInv, BusKnows, Speaks, GroundedRouting, Stage,
       Key, NoRow
  <2>5. NoUnverifiedWhatsApp'
    BY Names DEF Begin, Polled, Inv, TypeOK, RouteInv, HoldKnows, NoUnverifiedWhatsApp, Key,
       NoTask, Deliverer
  <2> QED
    BY <2>1, <2>2, <2>3, <2>4, <2>5 DEF RouteInv
<1>4. CallsCount'
  BY CallsFrame DEF Begin
<1> QED
  BY <1>1, <1>2, <1>3, <1>4 DEF Inv

(* A consumer that dies on a message leaves it at the head. *)
LEMMA WedgeKeeps ==
  ASSUME Inv, NEW s \in Stage, NEW c \in Conv, Wedge(s, c)
  PROVE  Inv'
<1>1. TypeOK'
  BY Names DEF Wedge, Polled, Inv, TypeOK, Stage
<1>2. AudioInv'
  BY AudioFrame DEF Wedge
<1>3. RouteInv'
  <2>1. BusKnows'
    BY Names DEF Wedge, Polled, Inv, TypeOK, RouteInv, BusKnows, Speaks, Stage
  <2>2. FlagKnows'
    BY Names DEF Wedge, Polled, Inv, TypeOK, RouteInv, BusKnows, Speaks, FlagKnows, HoldKnows,
       Stage
  <2>3. HoldKnows'
    BY Names DEF Wedge, Polled, Inv, TypeOK, RouteInv, BusKnows, FlagKnows, HoldKnows, Stage,
       Key, Deliverer, NoTask, NoRow
  <2>4. GroundedRouting'
    BY Names DEF Wedge, Polled, Inv, TypeOK, RouteInv, BusKnows, Speaks, GroundedRouting, Stage,
       Key, NoRow
  <2>5. NoUnverifiedWhatsApp'
    BY Names DEF Wedge, Polled, Inv, TypeOK, RouteInv, HoldKnows, NoUnverifiedWhatsApp, Key,
       NoTask, Deliverer
  <2> QED
    BY <2>1, <2>2, <2>3, <2>4, <2>5 DEF RouteInv
<1>4. CallsCount'
  BY CallsFrame DEF Wedge
<1> QED
  BY <1>1, <1>2, <1>3, <1>4 DEF Inv

(* A consumer moves a row that is on no ending list of a request. *)
LEMMA SetStateKeeps ==
  ASSUME Inv, NEW s \in Stage, NEW c \in Conv, SetState(s, c)
  PROVE  Inv'
<1>1. TypeOK'
  BY Names DEF SetState, Polled, Inv, TypeOK, Stage
<1>2. AudioInv'
  <2>1. /\ TypeOK /\ IngestKnows /\ PurgeKnows /\ NoStrandedAudio
        /\ Target[s] \notin Terminal \cup {"none"}
        /\ state' = [state EXCEPT ![c] = Target[s]]
    BY Names DEF SetState, Inv, AudioInv, Terminal
  <2>2. \A x \in Conv : /\ state'[x] = "none" => state[x] = "none"
                        /\ state'[x] \in Terminal => state[x] \in Terminal
    BY <2>1 DEF TypeOK
  <2>3. IngestKnows'
    BY <2>1, <2>2 DEF SetState, IngestKnows
  <2>4. PurgeKnows'
    BY <2>1 DEF SetState, PurgeKnows
  <2>5. NoStrandedAudio'
    BY <2>1, <2>2 DEF SetState, NoStrandedAudio, TypeOK
  <2> QED
    BY <2>3, <2>4, <2>5 DEF AudioInv
<1>3. RouteInv'
  <2>1. BusKnows'
    BY Names DEF SetState, Polled, Inv, TypeOK, RouteInv, BusKnows, Speaks, Stage
  <2>2. FlagKnows'
    BY Names DEF SetState, Polled, Inv, TypeOK, RouteInv, BusKnows, Speaks, FlagKnows, HoldKnows,
       Stage
  <2>3. HoldKnows'
    BY Names DEF SetState, Polled, Inv, TypeOK, RouteInv, BusKnows, FlagKnows, HoldKnows, Stage,
       Key, Deliverer, NoTask, NoRow
  <2>4. GroundedRouting'
    BY Names DEF SetState, Polled, Inv, TypeOK, RouteInv, BusKnows, Speaks, GroundedRouting,
       Stage, Key, NoRow
  <2>5. NoUnverifiedWhatsApp'
    BY Names DEF SetState, Polled, Inv, TypeOK, RouteInv, HoldKnows, NoUnverifiedWhatsApp, Key,
       NoTask, Deliverer
  <2> QED
    BY <2>1, <2>2, <2>3, <2>4, <2>5 DEF RouteInv
<1>4. CallsCount'
  BY CallsFrame DEF SetState
<1> QED
  BY <1>1, <1>2, <1>3, <1>4 DEF Inv

(* A failure produces nothing. *)
LEMMA FailKeeps ==
  ASSUME Inv, NEW s \in Stage, Fail(s)
  PROVE  Inv'
<1>1. TypeOK'
  BY DEF Fail, Worked, Inv, TypeOK, Stage
<1>2. AudioInv'
  BY AudioFrame DEF Fail
<1>3. RouteInv'
  <2>1. BusKnows'
    BY Names DEF Fail, Worked, Inv, TypeOK, RouteInv, BusKnows, Speaks, Stage
  <2>2. FlagKnows'
    BY Names DEF Fail, Worked, Inv, TypeOK, RouteInv, BusKnows, Speaks, FlagKnows, HoldKnows,
       Stage
  <2>3. HoldKnows'
    BY Names DEF Fail, Worked, Inv, TypeOK, RouteInv, BusKnows, FlagKnows, HoldKnows, Stage, Key,
       Deliverer, NoTask, NoRow
  <2>4. GroundedRouting'
    BY Names DEF Fail, Worked, Inv, TypeOK, RouteInv, BusKnows, Speaks, GroundedRouting, Stage,
       Key, NoRow
  <2>5. NoUnverifiedWhatsApp'
    BY Names DEF Fail, Worked, Inv, TypeOK, RouteInv, HoldKnows, NoUnverifiedWhatsApp, Key,
       NoTask, Deliverer
  <2> QED
    BY <2>1, <2>2, <2>3, <2>4, <2>5 DEF RouteInv
<1>4. CallsCount'
  BY CallsFrame DEF Fail
<1> QED
  BY <1>1, <1>2, <1>3, <1>4 DEF Inv

(* The message in hand is dropped. *)
LEMMA CommitKeeps ==
  ASSUME Inv, NEW s \in Stage, Commit(s)
  PROVE  Inv'
<1>1. TypeOK'
  <2>1. pc' \in [Stage -> {"idle", "checked", "working", "done"}]
    BY DEF Commit, Inv, TypeOK
  <2>2. inbox' \in [Stage -> Seq(Conv)]
    <3>1. inbox[s] # <<>> /\ inbox[s] \in Seq(Conv)
      BY DEF Commit, Inv, TypeOK, RouteInv, BusKnows
    <3>2. Tail(inbox[s]) \in Seq(Conv)
      BY <3>1
    <3> QED
      BY <3>2 DEF Commit, Inv, TypeOK
  <2> QED
    BY <2>1, <2>2 DEF Commit, Inv, TypeOK
<1>2. AudioInv'
  BY AudioFrame DEF Commit
<1>3. RouteInv'
  <2>1. BusKnows'
    BY Names DEF Commit, Inv, TypeOK, RouteInv, BusKnows, Speaks, Stage
  <2>2. FlagKnows'
    BY Names DEF Commit, Inv, TypeOK, RouteInv, BusKnows, Speaks, FlagKnows, HoldKnows, Stage
  <2>3. HoldKnows'
    BY Names DEF Commit, Inv, TypeOK, RouteInv, BusKnows, FlagKnows, HoldKnows, Stage, Key,
       Deliverer, NoTask, NoRow
  <2>4. GroundedRouting'
    BY Names DEF Commit, Inv, TypeOK, RouteInv, BusKnows, Speaks, GroundedRouting, Stage, Key,
       NoRow
  <2>5. NoUnverifiedWhatsApp'
    BY Names DEF Commit, Inv, TypeOK, RouteInv, HoldKnows, NoUnverifiedWhatsApp, Key, NoTask,
       Deliverer
  <2> QED
    BY <2>1, <2>2, <2>3, <2>4, <2>5 DEF RouteInv
<1>4. CallsCount'
  BY CallsFrame DEF Commit
<1> QED
  BY <1>1, <1>2, <1>3, <1>4 DEF Inv

(* A consumer dies. *)
LEMMA CrashConsumerKeeps ==
  ASSUME Inv, NEW s \in Stage, CrashConsumer(s)
  PROVE  Inv'
<1>1. TypeOK'
  <2>1. /\ pc' \in [Stage -> {"idle", "checked", "working", "done"}]
        /\ crashes' \in 0 .. MaxCrashes
    BY ConstantsAssumption DEF CrashConsumer, Crash, Inv, TypeOK
  <2>2. unsent' \in [Stage -> Seq(Conv)]
    <3>1. unsent \in [Stage -> Seq(Conv)] /\ <<>> \in Seq(Conv)
      BY DEF Inv, TypeOK
    <3>2. CASE s \in DOMAIN Downstream
      BY <3>1, <3>2 DEF CrashConsumer
    <3>3. CASE s \notin DOMAIN Downstream
      BY <3>1, <3>3 DEF CrashConsumer
    <3> QED
      BY <3>2, <3>3
  <2>3. /\ task' \in [Deliverer \X Key -> Task]
        /\ seen' \in BOOLEAN /\ toRoute' \subseteq Channel
    BY Dropped DEF CrashConsumer, Inv, TypeOK
  <2>4. opened' \subseteq Opener
    BY Restarted DEF CrashConsumer, Inv, Opener
  <2> QED
    BY <2>1, <2>2, <2>3, <2>4 DEF CrashConsumer, Inv, TypeOK
<1>2. AudioInv'
  BY AudioFrame DEF CrashConsumer
<1>3. RouteInv'
  <2>1. BusKnows'
    BY Names DEF CrashConsumer, Crash, DropTasks, Inv, TypeOK, RouteInv, BusKnows, Speaks, Stage
  <2>2. FlagKnows'
    BY Names DEF CrashConsumer, Crash, DropTasks, Inv, TypeOK, RouteInv, BusKnows, Speaks,
       FlagKnows, HoldKnows, Stage
  <2>3. HoldKnows'
    BY Names DEF CrashConsumer, Crash, DropTasks, Inv, TypeOK, RouteInv, BusKnows, FlagKnows,
       HoldKnows, Stage, Key, Deliverer, NoTask, NoRow
  <2>4. GroundedRouting'
    BY Names DEF CrashConsumer, Crash, DropTasks, Inv, TypeOK, RouteInv, BusKnows, Speaks,
       GroundedRouting, Stage, Key, NoRow
  <2>5. NoUnverifiedWhatsApp'
    BY Names DEF CrashConsumer, Crash, DropTasks, Inv, TypeOK, RouteInv, HoldKnows,
       NoUnverifiedWhatsApp, Key, NoTask, Deliverer
  <2> QED
    BY <2>1, <2>2, <2>3, <2>4, <2>5 DEF RouteInv
<1>4. CallsCount'
  <2>1. TypeOK /\ CallsCount
    BY DEF Inv
  <2>2. \A e \in Deliverer, k \in Key : task'[<<e, k>>] \in {task[<<e, k>>], NoTask}
    BY <2>1, Dropped DEF CrashConsumer
  <2> QED
    BY <2>1, <2>2 DEF CrashConsumer, CallsCount, Current, NoTask
<1> QED
  BY <1>1, <1>2, <1>3, <1>4 DEF Inv

(* The transcript is stored before it is spoken of. *)
LEMMA TranscribeKeeps ==
  ASSUME Inv, NEW c \in Conv, Transcribe(c)
  PROVE  Inv'
<1>1. TypeOK'
  BY Names DEF Transcribe, Polled, Produce, Worked, Inv, TypeOK, Stage
<1>2. AudioInv'
  BY AudioFrame DEF Transcribe
<1>3. RouteInv'
  <2>1. BusKnows'
    <3>1. /\ unsent \in [Stage -> Seq(Conv)]
          /\ unsent' = [unsent EXCEPT !["extractor"] = Append(@, c)]
          /\ transcript' = transcript \cup {c} /\ inbox' = inbox /\ BusKnows
      BY Names DEF Transcribe, Produce, Inv, TypeOK, RouteInv
    <3>2. /\ unsent'["extractor"] = Append(unsent["extractor"], c)
          /\ unsent'["routing"] = unsent["routing"]
      BY <3>1 DEF Stage
    <3>3. unsent["extractor"] \in Seq(Conv) /\ Speaks(unsent["extractor"], transcript)
      BY <3>1 DEF Stage, BusKnows
    <3>4. Speaks(unsent'["extractor"], transcript')
      BY <3>1, <3>2, <3>3 DEF Speaks
    <3>5. /\ Speaks(inbox'["extractor"], transcript')
          /\ \A q \in {inbox'["routing"], unsent'["routing"]} :
               Speaks(q, transcript' \cap extraction)
      BY <3>1, <3>2 DEF BusKnows, Speaks
    <3>6. \A s \in Stage : pc'[s] # "idle" => inbox'[s] # <<>>
      BY <3>1 DEF Transcribe, Polled, Worked, BusKnows, Inv, TypeOK
    <3> QED
      BY <3>4, <3>5, <3>6 DEF Transcribe, BusKnows
  <2>2. FlagKnows'
    BY Names DEF Transcribe, Polled, Produce, Worked, Inv, TypeOK, RouteInv, BusKnows, Speaks,
       FlagKnows, HoldKnows, Stage
  <2>3. HoldKnows'
    BY Names DEF Transcribe, Polled, Produce, Worked, Inv, TypeOK, RouteInv, BusKnows, FlagKnows,
       HoldKnows, Stage, Key, Deliverer, NoTask, NoRow
  <2>4. GroundedRouting'
    BY Names DEF Transcribe, Polled, Produce, Worked, Inv, TypeOK, RouteInv, BusKnows, Speaks,
       GroundedRouting, Stage, Key, NoRow
  <2>5. NoUnverifiedWhatsApp'
    BY Names DEF Transcribe, Polled, Produce, Worked, Inv, TypeOK, RouteInv, HoldKnows,
       NoUnverifiedWhatsApp, Key, NoTask, Deliverer
  <2> QED
    BY <2>1, <2>2, <2>3, <2>4, <2>5 DEF RouteInv
<1>4. CallsCount'
  BY CallsFrame DEF Transcribe
<1> QED
  BY <1>1, <1>2, <1>3, <1>4 DEF Inv

(* The extraction and its flag are stored before they are spoken of. *)
LEMMA ExtractKeeps ==
  ASSUME Inv, NEW c \in Conv, Extract(c)
  PROVE  Inv'
<1>1. TypeOK'
  BY Names DEF Extract, Polled, Produce, Worked, Inv, TypeOK, Stage
<1>2. AudioInv'
  BY AudioFrame DEF Extract
<1>3. RouteInv'
  <2>1. BusKnows'
    BY Names DEF Extract, Polled, Produce, Worked, Inv, TypeOK, RouteInv, BusKnows, Speaks, Stage
  <2>2. FlagKnows'
    BY Names DEF Extract, Polled, Produce, Worked, Inv, TypeOK, RouteInv, BusKnows, Speaks,
       FlagKnows, HoldKnows, Stage
  <2>3. HoldKnows'
    BY Names DEF Extract, Polled, Produce, Worked, Inv, TypeOK, RouteInv, BusKnows, FlagKnows,
       HoldKnows, Stage, Key, Deliverer, NoTask, NoRow
  <2>4. GroundedRouting'
    BY Names DEF Extract, Polled, Produce, Worked, Inv, TypeOK, RouteInv, BusKnows, Speaks,
       GroundedRouting, Stage, Key, NoRow
  <2>5. NoUnverifiedWhatsApp'
    BY Names DEF Extract, Polled, Produce, Worked, Inv, TypeOK, RouteInv, HoldKnows,
       NoUnverifiedWhatsApp, Key, NoTask, Deliverer
  <2> QED
    BY <2>1, <2>2, <2>3, <2>4, <2>5 DEF RouteInv
<1>4. CallsCount'
  BY CallsFrame DEF Extract
<1> QED
  BY <1>1, <1>2, <1>3, <1>4 DEF Inv

(* The pending rows of the conversation go to the delivery threads. *)
LEMMA RouteReadyKeeps ==
  ASSUME Inv, NEW c \in Conv, RouteReady(c)
  PROVE  Inv'
<1>1. TypeOK'
  BY DEF RouteReady, Polled, Enqueue, Pending, Worked, Inv, TypeOK, Stage, Task, NoTask, Row,
     RowStatus, Key, Deliverer
<1>2. AudioInv'
  BY AudioFrame DEF RouteReady
<1>3. RouteInv'
  <2>1. BusKnows'
    BY Names DEF RouteReady, Polled, Enqueue, Pending, Worked, Inv, TypeOK, RouteInv, BusKnows,
       Speaks, Stage
  <2>2. FlagKnows'
    BY Names DEF RouteReady, Polled, Enqueue, Pending, Worked, Inv, TypeOK, RouteInv, BusKnows,
       Speaks, FlagKnows, HoldKnows, Stage
  <2>3. HoldKnows'
    <3>1. /\ HoldKnows /\ TypeOK /\ Enqueue("routing", Pending(c)) /\ Pending(c) \in SUBSET Key /\ "routing" \in Deliverer
          /\ \A k \in Pending(c) : row[k].status \in {"pending", "failed"}
          /\ row' = row /\ needy' = needy /\ verified' = verified
      BY DEF RouteReady, Inv, RouteInv, Deliverer, Pending
    <3>2. \A e \in Deliverer, k \in Key : task'[<<e, k>>] = task[<<e, k>>] \/ k \in Pending(c)
      BY <3>1, Enqueued
    <3>3. ASSUME NEW u \in needy \ verified, <<u, "whatsapp">> \in Key, NEW e \in Deliverer
          PROVE  task'[<<e, <<u, "whatsapp">>>>] = NoTask
      <4>1. /\ row[<<u, "whatsapp">>].status \in {"none", "held"}
            /\ task[<<e, <<u, "whatsapp">>>>] = NoTask
        BY <3>1, <3>3 DEF HoldKnows
      <4>2. <<u, "whatsapp">> \notin Pending(c)
        BY <3>1, <4>1
      <4> QED
        BY <3>2, <3>3, <4>1, <4>2
    <3>4. ASSUME NEW u \in needy \ verified, <<u, "whatsapp">> \in Key
          PROVE  /\ row'[<<u, "whatsapp">>].status \in {"none", "held"}
                 /\ \A e \in Deliverer : task'[<<e, <<u, "whatsapp">>>>] = NoTask
      <4>1. row[<<u, "whatsapp">>].status \in {"none", "held"}
        BY <3>1, <3>4 DEF HoldKnows
      <4> QED
        BY <3>1, <3>3, <3>4, <4>1
    <3> QED
      BY <3>1, <3>4 DEF HoldKnows
  <2>4. GroundedRouting'
    BY Names DEF RouteReady, Polled, Enqueue, Pending, Worked, Inv, TypeOK, RouteInv, BusKnows,
       Speaks, GroundedRouting, Stage, Key, NoRow
  <2>5. NoUnverifiedWhatsApp'
    BY Names DEF RouteReady, Polled, Enqueue, Pending, Worked, Inv, TypeOK, RouteInv, HoldKnows,
       NoUnverifiedWhatsApp, Key, NoTask, Deliverer
  <2> QED
    BY <2>1, <2>2, <2>3, <2>4, <2>5 DEF RouteInv
<1>4. CallsCount'
  BY DEF RouteReady, Polled, Enqueue, Pending, Worked, Inv, TypeOK, CallsCount, NoTask, NoRow,
     Current, Row, Task, Key, Deliverer
<1> QED
  BY <1>1, <1>2, <1>3, <1>4 DEF Inv

(* A row is held when the flag was seen. *)
LEMMA InsertRoutingKeeps ==
  ASSUME Inv, NEW c \in Conv, NEW ch \in Channel, InsertRouting(c, ch)
  PROVE  Inv'
<1>1. TypeOK'
  <2> DEFINE k == <<c, ch>>
             r == [status |-> IF ch = "whatsapp" /\ seen THEN "held" ELSE "pending",
                   id |-> row[k].id + 1, attempts |-> 0, calls |-> 0]
  <2>1. TypeOK /\ k \in Key /\ row[k] \in Row
    BY DEF Inv, TypeOK, Key
  <2>2. r \in Row
    BY <2>1 DEF Row, RowStatus
  <2>3. row' = row \/ row' = [row EXCEPT ![k] = r]
    BY DEF InsertRouting
  <2> HIDE DEF r, k
  <2>4. row' \in [Key -> Row]
    BY <2>1, <2>2, <2>3, RowSet DEF TypeOK
  <2> QED
    BY <2>1, <2>4 DEF InsertRouting, TypeOK
<1>2. AudioInv'
  BY AudioFrame DEF InsertRouting
<1>3. RouteInv'
  <2>1. BusKnows'
    BY Names DEF InsertRouting, Polled, Inv, TypeOK, RouteInv, BusKnows, Speaks, Stage
  <2>2. FlagKnows'
    BY Names DEF InsertRouting, Polled, Inv, TypeOK, RouteInv, BusKnows, Speaks, FlagKnows,
       HoldKnows, Stage
  <2>3. HoldKnows'
    BY Names DEF InsertRouting, Polled, Inv, TypeOK, RouteInv, BusKnows, FlagKnows, HoldKnows,
       Stage, Key, Deliverer, NoTask, NoRow
  <2>4. GroundedRouting'
    BY Names DEF InsertRouting, Polled, Inv, TypeOK, RouteInv, BusKnows, Speaks, GroundedRouting,
       Stage, Key, NoRow
  <2>5. NoUnverifiedWhatsApp'
    BY Names DEF InsertRouting, Polled, Inv, TypeOK, RouteInv, HoldKnows, NoUnverifiedWhatsApp,
       Key, NoTask, Deliverer
  <2> QED
    BY <2>1, <2>2, <2>3, <2>4, <2>5 DEF RouteInv
<1>4. CallsCount'
  <2> DEFINE k == <<c, ch>>
             r == [status |-> IF ch = "whatsapp" /\ seen THEN "held" ELSE "pending",
                   id |-> row[k].id + 1, attempts |-> 0, calls |-> 0]
  <2>1. TypeOK /\ CallsCount /\ k \in Key /\ row[k] \in Row /\ task' = task
    BY DEF InsertRouting, Inv, TypeOK, Key
  <2>2. /\ r \in Row /\ r.id = row[k].id + 1 /\ r.attempts = 0 /\ r.calls = 0
    BY <2>1 DEF Row, RowStatus
  <2>3. row' = row \/ row' = [row EXCEPT ![k] = r]
    BY DEF InsertRouting
  <2> HIDE DEF r, k
  <2>4. CASE row' = row
    BY <2>1, <2>4, CallsFrame
  <2>5. CASE row' = [row EXCEPT ![k] = r]
    <3>1. row'[k] = r /\ \A j \in Key \ {k} : row'[j] = row[j]
      BY <2>1, <2>2, <2>5, RowSet
    <3>2. \A d \in Deliverer, j \in Key : task[<<d, j>>] \in Task /\ row[j].id \in Nat
      BY <2>1 DEF TypeOK, Row
    <3>3. ASSUME NEW d \in Deliverer, task[<<d, k>>].pc # "idle"
          PROVE  /\ task[<<d, k>>].id < row'[k].id /\ task[<<d, k>>].attempts <= MaxAttempts
                 /\ ~(row'[k].id = task[<<d, k>>].id)
      BY <2>1, <2>2, <3>1, <3>2, <3>3 DEF CallsCount, Task
    <3>4. ASSUME NEW j \in Key PROVE
            /\ row'[j].status # "none" => row'[j].attempts <= row'[j].calls
            /\ row'[j].status \in {"held", "pending", "failed"} => row'[j].attempts <= MaxAttempts
      BY <2>1, <2>2, <3>1, ConstantsAssumption DEF CallsCount
    <3>5. ASSUME NEW j \in Key, NEW d \in Deliverer, task'[<<d, j>>].pc # "idle"
          PROVE  /\ task'[<<d, j>>].id <= row'[j].id /\ task'[<<d, j>>].attempts <= MaxAttempts
                 /\ Current(<<d, j>>)' =>
                      row'[j].calls >= task'[<<d, j>>].attempts
                                       + IF task'[<<d, j>>].pc = "queued" THEN 0 ELSE 1
      <4>1. CASE j = k
        BY <2>1, <2>2, <3>1, <3>2, <3>3, <3>5, <4>1 DEF Current, Task
      <4>2. CASE j # k
        BY <2>1, <3>1, <3>5, <4>2 DEF CallsCount, Current
      <4> QED
        BY <4>1, <4>2
    <3> QED
      BY <3>4, <3>5 DEF CallsCount
  <2> QED
    BY <2>3, <2>4, <2>5
<1> QED
  BY <1>1, <1>2, <1>3, <1>4 DEF Inv

(* The verify request ends. *)
LEMMA AnswerKeeps ==
  ASSUME Inv, Answer
  PROVE  Inv'
<1>1. TypeOK'
  BY DEF Answer, AgentStep, Inv, TypeOK
<1>2. AudioInv'
  BY AudioFrame DEF Answer
<1>3. RouteInv'
  <2>1. BusKnows'
    BY Names DEF Answer, AgentStep, Inv, TypeOK, RouteInv, BusKnows, Speaks, Stage
  <2>2. FlagKnows'
    BY Names DEF Answer, AgentStep, Inv, TypeOK, RouteInv, BusKnows, Speaks, FlagKnows,
       HoldKnows, Stage
  <2>3. HoldKnows'
    BY Names DEF Answer, AgentStep, Inv, TypeOK, RouteInv, BusKnows, FlagKnows, HoldKnows, Stage,
       Key, Deliverer, NoTask, NoRow
  <2>4. GroundedRouting'
    BY Names DEF Answer, AgentStep, Inv, TypeOK, RouteInv, BusKnows, Speaks, GroundedRouting,
       Stage, Key, NoRow
  <2>5. NoUnverifiedWhatsApp'
    BY Names DEF Answer, AgentStep, Inv, TypeOK, RouteInv, HoldKnows, NoUnverifiedWhatsApp, Key,
       NoTask, Deliverer
  <2> QED
    BY <2>1, <2>2, <2>3, <2>4, <2>5 DEF RouteInv
<1>4. CallsCount'
  BY CallsFrame DEF Answer
<1> QED
  BY <1>1, <1>2, <1>3, <1>4 DEF Inv

(* The held row of a verified conversation is released. *)
LEMMA ReleaseKeeps ==
  ASSUME Inv, NEW c \in Conv, Release(c)
  PROVE  Inv'
<1>1. TypeOK'
  <2>1. TypeOK /\ <<c, "whatsapp">> \in Key /\ row' = [row EXCEPT ![<<c, "whatsapp">>].status = "pending"]
    BY DEF Release, Inv
  <2>2. row' \in [Key -> Row]
    BY <2>1, Released
  <2> QED
    BY <2>1, <2>2 DEF Release, AgentStep, TypeOK
<1>2. AudioInv'
  BY AudioFrame DEF Release
<1>3. RouteInv'
  <2>1. BusKnows'
    BY Names DEF Release, AgentStep, Inv, TypeOK, RouteInv, BusKnows, Speaks, Stage
  <2>2. FlagKnows'
    BY Names DEF Release, AgentStep, Inv, TypeOK, RouteInv, BusKnows, Speaks, FlagKnows,
       HoldKnows, Stage
  <2>3. HoldKnows'
    BY Names DEF Release, AgentStep, Inv, TypeOK, RouteInv, BusKnows, FlagKnows, HoldKnows,
       Stage, Key, Deliverer, NoTask, NoRow
  <2>4. GroundedRouting'
    BY Names DEF Release, AgentStep, Inv, TypeOK, RouteInv, BusKnows, Speaks, GroundedRouting,
       Stage, Key, NoRow
  <2>5. NoUnverifiedWhatsApp'
    BY Names DEF Release, AgentStep, Inv, TypeOK, RouteInv, HoldKnows, NoUnverifiedWhatsApp, Key,
       NoTask, Deliverer
  <2> QED
    BY <2>1, <2>2, <2>3, <2>4, <2>5 DEF RouteInv
<1>4. CallsCount'
  <2> DEFINE k == <<c, "whatsapp">>
  <2>1. /\ TypeOK /\ CallsCount /\ k \in Key /\ row[k].status = "held" /\ task' = task
        /\ row' = [row EXCEPT ![k].status = "pending"]
    BY DEF Release, Inv
  <2>2. /\ row'[k].status = "pending" /\ row'[k].id = row[k].id
        /\ row'[k].attempts = row[k].attempts /\ row'[k].calls = row[k].calls
        /\ \A j \in Key \ {k} : row'[j] = row[j]
    BY <2>1, Released
  <2> HIDE DEF k
  <2> QED
    BY <2>1, <2>2 DEF CallsCount, Current
<1> QED
  BY <1>1, <1>2, <1>3, <1>4 DEF Inv

(* There was nothing to release. *)
LEMMA NothingHeldKeeps ==
  ASSUME Inv, NEW c \in Conv, NothingHeld(c)
  PROVE  Inv'
<1>1. TypeOK'
  BY DEF NothingHeld, AgentStep, Inv, TypeOK
<1>2. AudioInv'
  BY AudioFrame DEF NothingHeld
<1>3. RouteInv'
  <2>1. BusKnows'
    BY Names DEF NothingHeld, AgentStep, Inv, TypeOK, RouteInv, BusKnows, Speaks, Stage
  <2>2. FlagKnows'
    BY Names DEF NothingHeld, AgentStep, Inv, TypeOK, RouteInv, BusKnows, Speaks, FlagKnows,
       HoldKnows, Stage
  <2>3. HoldKnows'
    BY Names DEF NothingHeld, AgentStep, Inv, TypeOK, RouteInv, BusKnows, FlagKnows, HoldKnows,
       Stage, Key, Deliverer, NoTask, NoRow
  <2>4. GroundedRouting'
    BY Names DEF NothingHeld, AgentStep, Inv, TypeOK, RouteInv, BusKnows, Speaks,
       GroundedRouting, Stage, Key, NoRow
  <2>5. NoUnverifiedWhatsApp'
    BY Names DEF NothingHeld, AgentStep, Inv, TypeOK, RouteInv, HoldKnows, NoUnverifiedWhatsApp,
       Key, NoTask, Deliverer
  <2> QED
    BY <2>1, <2>2, <2>3, <2>4, <2>5 DEF RouteInv
<1>4. CallsCount'
  BY CallsFrame DEF NothingHeld
<1> QED
  BY <1>1, <1>2, <1>3, <1>4 DEF Inv

(* The rows of a verified conversation go to the delivery threads. *)
LEMMA DeliverReleasedKeeps ==
  ASSUME Inv, NEW c \in Conv, DeliverReleased(c)
  PROVE  Inv'
<1>1. TypeOK'
  BY DEF DeliverReleased, AgentStep, Enqueue, Pending, Inv, TypeOK, Task, NoTask, Row,
     RowStatus, Key, Deliverer
<1>2. AudioInv'
  BY AudioFrame DEF DeliverReleased
<1>3. RouteInv'
  <2>1. BusKnows'
    BY Names DEF DeliverReleased, AgentStep, Enqueue, Pending, Inv, TypeOK, RouteInv, BusKnows,
       Speaks, Stage
  <2>2. FlagKnows'
    BY Names DEF DeliverReleased, AgentStep, Enqueue, Pending, Inv, TypeOK, RouteInv, BusKnows,
       Speaks, FlagKnows, HoldKnows, Stage
  <2>3. HoldKnows'
    BY Names DEF DeliverReleased, AgentStep, Enqueue, Pending, Inv, TypeOK, RouteInv, BusKnows,
       FlagKnows, HoldKnows, Stage, Key, Deliverer, NoTask, NoRow
  <2>4. GroundedRouting'
    BY Names DEF DeliverReleased, AgentStep, Enqueue, Pending, Inv, TypeOK, RouteInv, BusKnows,
       Speaks, GroundedRouting, Stage, Key, NoRow
  <2>5. NoUnverifiedWhatsApp'
    BY Names DEF DeliverReleased, AgentStep, Enqueue, Pending, Inv, TypeOK, RouteInv, HoldKnows,
       NoUnverifiedWhatsApp, Key, NoTask, Deliverer
  <2> QED
    BY <2>1, <2>2, <2>3, <2>4, <2>5 DEF RouteInv
<1>4. CallsCount'
  BY DEF DeliverReleased, AgentStep, Enqueue, Pending, Inv, TypeOK, CallsCount, NoTask, NoRow,
     Current, Row, Task, Key, Deliverer
<1> QED
  BY <1>1, <1>2, <1>3, <1>4 DEF Inv

(* The provider is called once more for a row that is still there. *)
LEMMA AttemptKeeps ==
  ASSUME Inv, NEW d \in Deliverer, NEW k \in Key, Attempt(d, k)
  PROVE  Inv'
<1>1. TypeOK'
  <2>1. TypeOK
    BY DEF Inv
  <2>2. messaged' \subseteq Conv
    BY <2>1 DEF Attempt, TypeOK, Key
  <2> QED
    BY <2>1, <2>2, Attempted DEF Attempt, TypeOK
<1>2. AudioInv'
  BY AudioFrame DEF Attempt
<1>3. RouteInv'
  <2>1. BusKnows'
    BY Names DEF Attempt, Current, Inv, TypeOK, RouteInv, BusKnows, Speaks, Stage
  <2>2. FlagKnows'
    BY Names DEF Attempt, Current, Inv, TypeOK, RouteInv, BusKnows, Speaks, FlagKnows, HoldKnows,
       Stage
  <2>3. HoldKnows'
    <3>1. HoldKnows /\ TypeOK /\ needy' = needy /\ verified' = verified
      BY DEF Attempt, Inv, RouteInv
    <3>2. ASSUME NEW u \in needy \ verified, <<u, "whatsapp">> \in Key
          PROVE  /\ row'[<<u, "whatsapp">>].status \in {"none", "held"}
                 /\ \A e \in Deliverer : task'[<<e, <<u, "whatsapp">>>>] = NoTask
      <4>1. k # <<u, "whatsapp">>
        <5>1. task[<<d, k>>].pc = "queued" /\ NoTask.pc = "idle"
          BY <3>1, Attempted DEF NoTask
        <5>2. task[<<d, <<u, "whatsapp">>>>] = NoTask
          BY <3>1, <3>2 DEF HoldKnows
        <5> QED
          BY <5>1, <5>2
      <4>2. row'[<<u, "whatsapp">>].status = row[<<u, "whatsapp">>].status
        BY <3>1, <3>2, <4>1, Attempted
      <4>3. ASSUME NEW e \in Deliverer
            PROVE  task'[<<e, <<u, "whatsapp">>>>] = task[<<e, <<u, "whatsapp">>>>]
        BY <3>1, <3>2, <4>1, Attempted
      <4> QED
        BY <3>1, <3>2, <4>2, <4>3 DEF HoldKnows
    <3> QED
      BY <3>1, <3>2 DEF HoldKnows
  <2>4. GroundedRouting'
    BY Names DEF Attempt, Current, Inv, TypeOK, RouteInv, BusKnows, Speaks, GroundedRouting,
       Stage, Key, NoRow
  <2>5. NoUnverifiedWhatsApp'
    BY Names DEF Attempt, Current, Inv, TypeOK, RouteInv, HoldKnows, NoUnverifiedWhatsApp, Key,
       NoTask, Deliverer
  <2> QED
    BY <2>1, <2>2, <2>3, <2>4, <2>5 DEF RouteInv
<1>4. CallsCount'
  <2> DEFINE t == <<d, k>>
  <2>1. TypeOK /\ CallsCount
    BY DEF Inv
  <2>2. ASSUME NEW j \in Key
        PROVE  /\ row[j].id \in Nat /\ row[j].attempts \in Nat /\ row[j].calls \in Nat
               /\ row'[j].calls \in Nat
               /\ \A e \in Deliverer :
                    task[<<e, j>>].attempts \in Nat /\ task[<<e, j>>].id \in Nat
    <3>1. row[j] \in Row /\ row'[j] \in Row
      BY <2>1, Attempted DEF TypeOK
    <3>2. \A e \in Deliverer : task[<<e, j>>] \in Task
      BY <2>1 DEF TypeOK
    <3> QED
      BY <3>1, <3>2 DEF Row, Task
  <2>3. ASSUME NEW j \in Key
        PROVE  /\ row'[j].status # "none" => row'[j].attempts <= row'[j].calls
               /\ row'[j].status \in {"held", "pending", "failed"} => row'[j].attempts <= MaxAttempts
    <3>1. /\ row'[j].attempts = row[j].attempts /\ row'[j].calls >= row[j].calls
          /\ row'[j].status # "none" => row[j].status # "none"
          /\ row'[j].status \in {"held", "pending", "failed"} => row'[j].status = row[j].status
      BY <2>1, Attempted
    <3> QED
      BY <2>1, <2>2, <3>1 DEF CallsCount
  <2>4. ASSUME NEW j \in Key, NEW e \in Deliverer, task'[<<e, j>>].pc # "idle"
        PROVE  /\ task'[<<e, j>>].id <= row'[j].id /\ task'[<<e, j>>].attempts <= MaxAttempts
               /\ Current(<<e, j>>)' =>
                    row'[j].calls >= task'[<<e, j>>].attempts
                                     + IF task'[<<e, j>>].pc = "queued" THEN 0 ELSE 1
    <3>1. row'[j].id = row[j].id /\ row'[j].calls >= row[j].calls
      BY <2>1, Attempted
    <3>2. row'[j].status # "none" => row[j].status # "none"
      BY <2>1, Attempted
    <3>3. CASE <<e, j>> # <<d, k>>
      <4>1. task'[<<e, j>>] = task[<<e, j>>]
        BY <2>1, <3>3, Attempted
      <4>2. Current(<<e, j>>)' => Current(<<e, j>>)
        BY <3>1, <3>2, <4>1 DEF Current
      <4>3. /\ task[<<e, j>>].id <= row[j].id /\ task[<<e, j>>].attempts <= MaxAttempts
            /\ Current(<<e, j>>) =>
                 row[j].calls >= task[<<e, j>>].attempts
                                 + IF task[<<e, j>>].pc = "queued" THEN 0 ELSE 1
        BY <2>1, <2>4, <4>1 DEF CallsCount
      <4> QED
        BY <2>2, <3>1, <4>1, <4>2, <4>3
    <3>4. CASE e = d /\ j = k
      <4>1. /\ task'[t].id = task[t].id /\ task'[t].attempts = task[t].attempts
            /\ task[t].pc = "queued" /\ task'[t].pc # "queued"
        BY <2>1, Attempted
      <4>2. /\ task[t].id <= row[k].id /\ task[t].attempts <= MaxAttempts
            /\ Current(t) => row[k].calls >= task[t].attempts
        BY <2>1, <2>2, <4>1 DEF CallsCount
      <4>3. Current(t)' => Current(t)
        BY <3>1, <3>2, <3>4, <4>1 DEF Current
      <4>4. Current(t) => row'[k].calls > row[k].calls \/ row[k].calls > MaxAttempts
        BY <2>1, Attempted
      <4>5. Current(t) => row'[k].calls >= task[t].attempts + 1
        BY <2>2, <3>1, <3>4, <4>2, <4>4, ConstantsAssumption
      <4> QED
        BY <3>1, <3>4, <4>1, <4>2, <4>3, <4>5
    <3> QED
      BY <3>3, <3>4
  <2> QED
    BY <2>3, <2>4 DEF CallsCount
<1> QED
  BY <1>1, <1>2, <1>3, <1>4 DEF Inv

(* What the provider answered is written, attempts counted from the list. *)
LEMMA RecordKeeps ==
  ASSUME Inv, NEW d \in Deliverer, NEW k \in Key, Record(d, k)
  PROVE  Inv'
<1>1. TypeOK'
  <2>1. dead' \subseteq Key
    BY DEF Record, Inv, TypeOK
  <2> QED
    BY <2>1, Recorded DEF Record, Inv, TypeOK
<1>2. AudioInv'
  BY AudioFrame DEF Record
<1>3. RouteInv'
  <2>1. BusKnows'
    BY Names DEF Record, Current, Outcome, NoRow, Inv, TypeOK, RouteInv, BusKnows, Speaks, Stage
  <2>2. FlagKnows'
    BY Names DEF Record, Current, Outcome, NoRow, Inv, TypeOK, RouteInv, BusKnows, Speaks,
       FlagKnows, HoldKnows, Stage
  <2>3. HoldKnows'
    BY Names DEF Record, Current, Outcome, NoRow, Inv, TypeOK, RouteInv, BusKnows, FlagKnows,
       HoldKnows, Stage, Key, Deliverer, NoTask
  <2>4. GroundedRouting'
    BY Names DEF Record, Current, Outcome, NoRow, Inv, TypeOK, RouteInv, BusKnows, Speaks,
       GroundedRouting, Stage, Key
  <2>5. NoUnverifiedWhatsApp'
    BY Names DEF Record, Current, Outcome, NoRow, Inv, TypeOK, RouteInv, HoldKnows,
       NoUnverifiedWhatsApp, Key, NoTask, Deliverer
  <2> QED
    BY <2>1, <2>2, <2>3, <2>4, <2>5 DEF RouteInv
<1>4. CallsCount'
  <2>1. TypeOK /\ CallsCount
    BY DEF Inv
  <2>2. ASSUME NEW j \in Key
        PROVE  /\ row'[j].status # "none" => row'[j].attempts <= row'[j].calls
               /\ row'[j].status \in {"held", "pending", "failed"} => row'[j].attempts <= MaxAttempts
    BY <2>1, Recorded DEF CallsCount
  <2>3. ASSUME NEW j \in Key, NEW e \in Deliverer, task'[<<e, j>>].pc # "idle"
        PROVE  /\ task'[<<e, j>>].id <= row'[j].id /\ task'[<<e, j>>].attempts <= MaxAttempts
               /\ Current(<<e, j>>)' =>
                    row'[j].calls >= task'[<<e, j>>].attempts
                                     + IF task'[<<e, j>>].pc = "queued" THEN 0 ELSE 1
    <3>1. <<e, j>> # <<d, k>>
      <4>1. task'[<<d, k>>] = NoTask /\ NoTask.pc = "idle"
        BY Recorded DEF NoTask
      <4> QED
        BY <2>3, <4>1
    <3>2. task'[<<e, j>>] = task[<<e, j>>] /\ row'[j].id = row[j].id
      BY <3>1, Recorded
    <3>3. row'[j].status # "none" => row[j].status # "none" /\ row'[j].calls = row[j].calls
      BY Recorded
    <3> QED
      BY <2>1, <2>3, <3>2, <3>3 DEF CallsCount, Current
  <2> QED
    BY <2>2, <2>3 DEF CallsCount
<1> QED
  BY <1>1, <1>2, <1>3, <1>4 DEF Inv

(* Due rows go to the delivery threads. *)
LEMMA ProcessDueKeeps ==
  ASSUME Inv, NEW r \in Retrier, NEW ks \in SUBSET Key, ProcessDue(r, ks)
  PROVE  Inv'
<1>1. TypeOK'
  BY DEF ProcessDue, Enqueue, Inv, TypeOK, Task, NoTask, Row, RowStatus, Key, Deliverer
<1>2. AudioInv'
  BY AudioFrame DEF ProcessDue
<1>3. RouteInv'
  <2>1. BusKnows'
    BY Names DEF ProcessDue, Enqueue, Inv, TypeOK, RouteInv, BusKnows, Speaks, Stage
  <2>2. FlagKnows'
    BY Names DEF ProcessDue, Enqueue, Inv, TypeOK, RouteInv, BusKnows, Speaks, FlagKnows,
       HoldKnows, Stage
  <2>3. HoldKnows'
    <3>1. /\ HoldKnows /\ TypeOK /\ Enqueue(r, ks) /\ ks \in SUBSET Key /\ r \in Deliverer
          /\ \A k \in ks : row[k].status \in {"pending", "failed"}
          /\ row' = row /\ needy' = needy /\ verified' = verified
      BY DEF ProcessDue, Listed, Inv, RouteInv, Deliverer
    <3>2. \A e \in Deliverer, k \in Key : task'[<<e, k>>] = task[<<e, k>>] \/ k \in ks
      BY <3>1, Enqueued
    <3>3. ASSUME NEW u \in needy \ verified, <<u, "whatsapp">> \in Key, NEW e \in Deliverer
          PROVE  task'[<<e, <<u, "whatsapp">>>>] = NoTask
      <4>1. /\ row[<<u, "whatsapp">>].status \in {"none", "held"}
            /\ task[<<e, <<u, "whatsapp">>>>] = NoTask
        BY <3>1, <3>3 DEF HoldKnows
      <4>2. <<u, "whatsapp">> \notin ks
        BY <3>1, <4>1
      <4> QED
        BY <3>2, <3>3, <4>1, <4>2
    <3>4. ASSUME NEW u \in needy \ verified, <<u, "whatsapp">> \in Key
          PROVE  /\ row'[<<u, "whatsapp">>].status \in {"none", "held"}
                 /\ \A e \in Deliverer : task'[<<e, <<u, "whatsapp">>>>] = NoTask
      <4>1. row[<<u, "whatsapp">>].status \in {"none", "held"}
        BY <3>1, <3>4 DEF HoldKnows
      <4> QED
        BY <3>1, <3>3, <3>4, <4>1
    <3> QED
      BY <3>1, <3>4 DEF HoldKnows
  <2>4. GroundedRouting'
    BY Names DEF ProcessDue, Enqueue, Inv, TypeOK, RouteInv, BusKnows, Speaks, GroundedRouting,
       Stage, Key, NoRow
  <2>5. NoUnverifiedWhatsApp'
    BY Names DEF ProcessDue, Enqueue, Inv, TypeOK, RouteInv, HoldKnows, NoUnverifiedWhatsApp,
       Key, NoTask, Deliverer
  <2> QED
    BY <2>1, <2>2, <2>3, <2>4, <2>5 DEF RouteInv
<1>4. CallsCount'
  <2>1. /\ TypeOK /\ CallsCount /\ Enqueue(r, ks) /\ r \in Deliverer /\ row' = row
        /\ \A k \in ks : row[k].status \in {"pending", "failed"}
    BY DEF ProcessDue, Listed, Inv, Deliverer
  <2> QED
    BY <2>1 DEF Enqueue, TypeOK, CallsCount, NoTask, NoRow, Current, Row, Task, Key, Deliverer
<1> QED
  BY <1>1, <1>2, <1>3, <1>4 DEF Inv

(* Delivery threads die with their process. *)
LEMMA CrashRetrierKeeps ==
  ASSUME Inv, NEW r \in Retrier, CrashRetrier(r)
  PROVE  Inv'
<1>1. TypeOK'
  <2>1. TypeOK /\ crashes' \in 0 .. MaxCrashes
    BY ConstantsAssumption DEF CrashRetrier, Crash, Inv, TypeOK
  <2>2. opened' \subseteq Opener
    BY <2>1, Restarted DEF CrashRetrier, Opener
  <2> QED
    BY <2>1, <2>2, Dropped DEF CrashRetrier, TypeOK
<1>2. AudioInv'
  BY AudioFrame DEF CrashRetrier
<1>3. RouteInv'
  <2>1. BusKnows'
    BY Names DEF CrashRetrier, Crash, DropTasks, Inv, TypeOK, RouteInv, BusKnows, Speaks, Stage
  <2>2. FlagKnows'
    BY Names DEF CrashRetrier, Crash, DropTasks, Inv, TypeOK, RouteInv, BusKnows, Speaks,
       FlagKnows, HoldKnows, Stage
  <2>3. HoldKnows'
    BY Names DEF CrashRetrier, Crash, DropTasks, Inv, TypeOK, RouteInv, BusKnows, FlagKnows,
       HoldKnows, Stage, Key, Deliverer, NoTask, NoRow
  <2>4. GroundedRouting'
    BY Names DEF CrashRetrier, Crash, DropTasks, Inv, TypeOK, RouteInv, BusKnows, Speaks,
       GroundedRouting, Stage, Key, NoRow
  <2>5. NoUnverifiedWhatsApp'
    BY Names DEF CrashRetrier, Crash, DropTasks, Inv, TypeOK, RouteInv, HoldKnows,
       NoUnverifiedWhatsApp, Key, NoTask, Deliverer
  <2> QED
    BY <2>1, <2>2, <2>3, <2>4, <2>5 DEF RouteInv
<1>4. CallsCount'
  BY DEF CrashRetrier, Crash, DropTasks, Inv, TypeOK, CallsCount, NoTask, NoRow, Current, Row,
     Task, Key, Deliverer
<1> QED
  BY <1>1, <1>2, <1>3, <1>4 DEF Inv

(* A pass deletes what it lists. *)
LEMMA DeleteAudioKeeps ==
  ASSUME Inv, NEW p \in Purger, NEW c \in Conv, DeleteAudio(p, c)
  PROVE  Inv'
<1>1. TypeOK'
  BY DEF DeleteAudio, Step, Inv, TypeOK, Purger
<1>2. AudioInv'
  BY DEF DeleteAudio, Step, Inv, TypeOK, AudioInv, IngestKnows, PurgeKnows, NoStrandedAudio,
     Terminal, Purger
<1>3. RouteInv'
  BY RouteFrame DEF DeleteAudio
<1>4. CallsCount'
  BY CallsFrame DEF DeleteAudio
<1> QED
  BY <1>1, <1>2, <1>3, <1>4 DEF Inv

(* The sweep goes on after a failed delete, the worker does not. *)
LEMMA DeleteFailsKeeps ==
  ASSUME Inv, NEW p \in Purger, NEW c \in Conv, DeleteFails(p, c)
  PROVE  Inv'
<1>0. TypeOK /\ IngestKnows /\ PurgeKnows /\ NoStrandedAudio /\ c \in todo[p]
  BY DEF DeleteFails, Inv, AudioInv
<1>a. \/ Step(p, c, "force") /\ undeleted' = undeleted \cup {c}
      \/ Drop(p, c) /\ undeleted' = undeleted
  BY DEF DeleteFails
<1>b. /\ todo' \in [Purger -> SUBSET Conv] /\ hand' \in [Purger -> SUBSET Conv]
      /\ \A q \in Purger : todo'[q] \subseteq todo[q]
  BY <1>0, <1>a, Stepped, PassedOver DEF TypeOK
<1>1. TypeOK'
  <2>1. /\ at' \in [Purger -> {"idle", "delete", "purge", "force", "writePurged", "writeForced"}]
        /\ undeleted' \subseteq Conv
    BY <1>0, <1>a DEF Step, Drop, TypeOK
  <2> QED
    BY <1>0, <1>b, <2>1 DEF DeleteFails, TypeOK
<1>2. AudioInv'
  <2>1. IngestKnows'
    BY <1>0, <1>b DEF DeleteFails, IngestKnows
  <2>2. PurgeKnows'
    <3>1. CASE Step(p, c, "force") /\ undeleted' = undeleted \cup {c}
      BY <1>0, <3>1, Stepped DEF DeleteFails, PurgeKnows
    <3>2. CASE Drop(p, c) /\ undeleted' = undeleted
      BY <1>0, <3>2, PassedOver DEF DeleteFails, PurgeKnows
    <3> QED
      BY <1>a, <3>1, <3>2
  <2>3. NoStrandedAudio'
    BY <1>0, <1>a DEF DeleteFails, NoStrandedAudio
  <2> QED
    BY <2>1, <2>2, <2>3 DEF AudioInv
<1>3. RouteInv'
  BY RouteFrame DEF DeleteFails
<1>4. CallsCount'
  BY CallsFrame DEF DeleteFails
<1> QED
  BY <1>1, <1>2, <1>3, <1>4 DEF Inv

(* The pass decides how to end the row. *)
LEMMA AssertPurgeKeeps ==
  ASSUME Inv, NEW p \in Purger, NEW c \in Conv, AssertPurge(p, c)
  PROVE  Inv'
<1>1. TypeOK'
  BY DEF AssertPurge, Step, Inv, TypeOK, Purger
<1>2. AudioInv'
  BY DEF AssertPurge, Step, Inv, TypeOK, AudioInv, IngestKnows, PurgeKnows, NoStrandedAudio,
     Terminal, Purger
<1>3. RouteInv'
  BY RouteFrame DEF AssertPurge
<1>4. CallsCount'
  BY CallsFrame DEF AssertPurge
<1> QED
  BY <1>1, <1>2, <1>3, <1>4 DEF Inv

(* The pass ends the row, or leaves it when it has ended already. *)
LEMMA AssertForceKeeps ==
  ASSUME Inv, NEW p \in Purger, NEW c \in Conv, AssertForce(p, c)
  PROVE  Inv'
<1> DEFINE Over == /\ at' = [at EXCEPT ![p] = "idle"]
                   /\ todo' = [todo EXCEPT ![p] = {}]
                   /\ hand' = [hand EXCEPT ![p] = {}]
<1>0. /\ TypeOK /\ IngestKnows /\ PurgeKnows /\ NoStrandedAudio
      /\ at[p] = "force" /\ hand[p] = {c}
  BY DEF AssertForce, Inv, AudioInv
<1>a. Step(p, c, "writeForced") \/ Drop(p, c) \/ Over
  BY DEF AssertForce
<1>b. /\ todo' \in [Purger -> SUBSET Conv] /\ hand' \in [Purger -> SUBSET Conv]
      /\ \A q \in Purger : todo'[q] \subseteq todo[q]
  <2>1. CASE Over
    BY <1>0, <2>1 DEF TypeOK
  <2> QED
    BY <1>0, <1>a, <2>1, Stepped, PassedOver DEF TypeOK
<1>1. TypeOK'
  <2>1. at' \in [Purger -> {"idle", "delete", "purge", "force", "writePurged", "writeForced"}]
    BY <1>0, <1>a DEF Step, Drop, TypeOK
  <2> QED
    BY <1>0, <1>b, <2>1 DEF AssertForce, TypeOK
<1>2. AudioInv'
  <2>1. IngestKnows'
    BY <1>0, <1>b DEF AssertForce, IngestKnows
  <2>2. PurgeKnows'
    <3>1. CASE Step(p, c, "writeForced")
      BY <1>0, <3>1, Stepped DEF AssertForce, PurgeKnows
    <3>2. CASE Drop(p, c)
      BY <1>0, <3>2, PassedOver DEF AssertForce, PurgeKnows
    <3>3. CASE Over
      <4>1. /\ at'[p] = "idle" /\ todo'[p] = {} /\ hand'[p] = {}
            /\ \A q \in Purger \ {p} : at'[q] = at[q] /\ hand'[q] = hand[q] /\ todo'[q] = todo[q]
        BY <1>0, <3>3 DEF TypeOK
      <4> QED
        BY <1>0, <4>1 DEF AssertForce, PurgeKnows
    <3> QED
      BY <1>a, <3>1, <3>2, <3>3
  <2>3. NoStrandedAudio'
    BY <1>0 DEF AssertForce, NoStrandedAudio
  <2> QED
    BY <2>1, <2>2, <2>3 DEF AudioInv
<1>3. RouteInv'
  BY RouteFrame DEF AssertForce
<1>4. CallsCount'
  BY CallsFrame DEF AssertForce
<1> QED
  BY <1>1, <1>2, <1>3, <1>4 DEF Inv

(* The row ends with its audio deleted. *)
LEMMA WriteEndKeeps ==
  ASSUME Inv, NEW p \in Purger, NEW c \in Conv, WriteEnd(p, c)
  PROVE  Inv'
<1>1. TypeOK'
  BY Names DEF WriteEnd, Drop, Inv, TypeOK, Purger
<1>2. AudioInv'
  BY DEF WriteEnd, Drop, Inv, TypeOK, AudioInv, IngestKnows, PurgeKnows, NoStrandedAudio,
     Terminal, Purger
<1>3. RouteInv'
  BY RouteFrame DEF WriteEnd
<1>4. CallsCount'
  BY CallsFrame DEF WriteEnd
<1> QED
  BY <1>1, <1>2, <1>3, <1>4 DEF Inv

(* A pass dies. *)
LEMMA CrashPurgerKeeps ==
  ASSUME Inv, NEW p \in Purger, CrashPurger(p)
  PROVE  Inv'
<1>1. TypeOK'
  <2>1. TypeOK /\ crashes' \in 0 .. MaxCrashes
    BY ConstantsAssumption DEF CrashPurger, Crash, Inv, TypeOK
  <2>2. opened' \subseteq Opener
    <3>1. CASE p = "sweep"
      BY <2>1, <3>1 DEF CrashPurger, TypeOK
    <3>2. CASE p \in Eraser /\ p # "sweep"
      BY <2>1, <3>2, Restarted DEF CrashPurger, Opener
    <3> QED
      BY <3>1, <3>2 DEF Purger
  <2> QED
    BY <2>1, <2>2 DEF CrashPurger, TypeOK
<1>2. AudioInv'
  BY DEF CrashPurger, Crash, Inv, TypeOK, AudioInv, IngestKnows, PurgeKnows, NoStrandedAudio,
     Terminal, Purger
<1>3. RouteInv'
  BY RouteFrame DEF CrashPurger
<1>4. CallsCount'
  BY CallsFrame DEF CrashPurger
<1> QED
  BY <1>1, <1>2, <1>3, <1>4 DEF Inv

(* A pass lists rows whose requests have ended. *)
LEMMA ScanKeeps ==
  ASSUME Inv, NEW p \in Purger, NEW cs \in SUBSET Conv, Scan(p, cs)
  PROVE  Inv'
<1>1. TypeOK'
  BY DEF Scan, Due, Inv, TypeOK, Purger
<1>2. AudioInv'
  <2>1. IngestKnows'
    BY DEF Scan, Due, Inv, TypeOK, AudioInv, IngestKnows, Purger
  <2>2. PurgeKnows'
    BY ConstantsAssumption
       DEF Scan, Due, Inv, TypeOK, AudioInv, IngestKnows, PurgeKnows, Purger
  <2>3. NoStrandedAudio'
    BY DEF Scan, Inv, AudioInv, NoStrandedAudio
  <2> QED
    BY <2>1, <2>2, <2>3 DEF AudioInv
<1>3. RouteInv'
  BY RouteFrame DEF Scan
<1>4. CallsCount'
  BY CallsFrame DEF Scan
<1> QED
  BY <1>1, <1>2, <1>3, <1>4 DEF Inv

(* The gateway dies with its requests. *)
LEMMA CrashGatewayKeeps ==
  ASSUME Inv, CrashGateway
  PROVE  Inv'
<1>1. TypeOK'
  <2>1. TypeOK /\ crashes' \in 0 .. MaxCrashes
    BY ConstantsAssumption DEF CrashGateway, Crash, Inv, TypeOK
  <2>2. unsent' \in [Stage -> Seq(Conv)]
    <3>1. <<>> \in Seq(Conv) /\ unsent \in [Stage -> Seq(Conv)]
      BY <2>1 DEF TypeOK
    <3> QED
      BY <3>1 DEF CrashGateway
  <2>3. /\ ing' \in [Conv -> {"new", "consented", "inserted", "stored", "uploaded", "failed", "done"}]
        /\ verifying' \subseteq Conv
    BY <2>1 DEF CrashGateway, TypeOK
  <2> QED
    BY <2>1, <2>2, <2>3, Dropped DEF CrashGateway, TypeOK
<1>2. AudioInv'
  BY DEF CrashGateway, Crash, DropTasks, Inv, TypeOK, AudioInv, IngestKnows, PurgeKnows,
     NoStrandedAudio, Terminal, Purger
<1>3. RouteInv'
  <2>1. BusKnows'
    BY Names DEF CrashGateway, Crash, DropTasks, Inv, TypeOK, RouteInv, BusKnows, Speaks, Stage
  <2>2. FlagKnows'
    BY Names DEF CrashGateway, Crash, DropTasks, Inv, TypeOK, RouteInv, BusKnows, Speaks,
       FlagKnows, HoldKnows, Stage
  <2>3. HoldKnows'
    BY Names DEF CrashGateway, Crash, DropTasks, Inv, TypeOK, RouteInv, BusKnows, FlagKnows,
       HoldKnows, Stage, Key, Deliverer, NoTask, NoRow
  <2>4. GroundedRouting'
    BY Names DEF CrashGateway, Crash, DropTasks, Inv, TypeOK, RouteInv, BusKnows, Speaks,
       GroundedRouting, Stage, Key, NoRow
  <2>5. NoUnverifiedWhatsApp'
    BY Names DEF CrashGateway, Crash, DropTasks, Inv, TypeOK, RouteInv, HoldKnows,
       NoUnverifiedWhatsApp, Key, NoTask, Deliverer
  <2> QED
    BY <2>1, <2>2, <2>3, <2>4, <2>5 DEF RouteInv
<1>4. CallsCount'
  BY DEF CrashGateway, Crash, DropTasks, Inv, TypeOK, CallsCount, NoTask, NoRow, Current, Row,
     Task, Key, Deliverer
<1> QED
  BY <1>1, <1>2, <1>3, <1>4 DEF Inv

-----------------------------------------------------------------------------
(* Every step keeps the invariant. *)
LEMMA NextKeeps == Inv /\ [Next]_vars => Inv'
<1> SUFFICES ASSUME Inv, [Next]_vars PROVE Inv'
  OBVIOUS
<1>1. CASE UNCHANGED vars
  <2>1. /\ UNCHANGED <<dbVars, routeVars, audio, busVars, ing, pc, routerVars, purgeVars,
                       agentVars, setup, crashes>>
    BY <1>1 DEF vars
  <2>2. TypeOK'
    BY <2>1 DEF Inv, TypeOK
  <2> QED
    BY <2>1, <2>2, AudioFrame, RouteFrame, CallsFrame DEF Inv
<1>2. ASSUME NEW c \in Conv, Ingest(c) \/ Verify(c) PROVE Inv'
  BY <1>2, RecordConsentKeeps, RefuseConsentKeeps, InsertConversationKeeps, PutAudioKeeps,
     MarkUploadedKeeps, ProduceRawKeeps, VerifyKeeps DEF Ingest
<1>3. ASSUME NEW s \in Stage, Send(s) \/ Consume(s) \/ CrashConsumer(s) PROVE Inv'
  BY <1>3, SendKeeps, SkipKeeps, BeginKeeps, WedgeKeeps, SetStateKeeps, FailKeeps, CommitKeeps,
     CrashConsumerKeeps DEF Consume
<1>4. CASE AsrWork \/ ExtractWork \/ RouteWork
  BY <1>4, TranscribeKeeps, ExtractKeeps, RouteReadyKeeps, InsertRoutingKeeps
     DEF AsrWork, ExtractWork, RouteWork
<1>5. CASE AgentWork
  BY <1>5, AnswerKeeps, ReleaseKeeps, NothingHeldKeeps, DeliverReleasedKeeps DEF AgentWork
<1>6. ASSUME NEW d \in Deliverer, Deliver(d) PROVE Inv'
  BY <1>6, AttemptKeeps, RecordKeeps DEF Deliver
<1>7. ASSUME NEW r \in Retrier, RetryDue(r) \/ CrashRetrier(r) PROVE Inv'
  BY <1>7, ProcessDueKeeps, CrashRetrierKeeps DEF RetryDue
<1>8. ASSUME NEW p \in Purger,
             Purge(p) \/ CrashPurger(p) \/ \E cs \in SUBSET Conv : Scan(p, cs)
      PROVE  Inv'
  BY <1>8, DeleteAudioKeeps, DeleteFailsKeeps, AssertPurgeKeeps, AssertForceKeeps,
     WriteEndKeeps, CrashPurgerKeeps, ScanKeeps DEF Purge
<1> QED
  BY <1>1, <1>2, <1>3, <1>4, <1>5, <1>6, <1>7, <1>8, CrashGatewayKeeps DEF Next

(* The whole invariant, in every deployment. *)
THEOREM EnterpriseCorrect == Spec => []Inv
<1>1. Inv /\ [Next]_vars => Inv'
  BY NextKeeps
<1> QED
  BY InitInv, <1>1, PTL DEF Spec

(* Raw audio is never stored without a consent and a row that some pass    *)
(* will find, nor kept once its row says erased, except after a delete     *)
(* that failed in the sweep: erasure/worker.py and erasure/orphan_sweep.py.*)
THEOREM EnterpriseNoStrandedAudio == Spec => []NoStrandedAudio
<1>1. Inv => NoStrandedAudio
  BY DEF Inv, AudioInv
<1> QED
  BY EnterpriseCorrect, <1>1, PTL

(* The verification hold of routing/dispatcher.py: no WhatsApp message     *)
(* about a conversation that calls for verification before an agent has    *)
(* verified it.                                                            *)
THEOREM EnterpriseNoUnverifiedWhatsApp == Spec => []NoUnverifiedWhatsApp
<1>1. Inv => NoUnverifiedWhatsApp
  BY DEF Inv, RouteInv
<1> QED
  BY EnterpriseCorrect, <1>1, PTL

(* The consumers' chain: only a conversation with a stored transcript and  *)
(* a stored extraction has routing rows.                                   *)
THEOREM EnterpriseGroundedRouting == Spec => []GroundedRouting
<1>1. Inv => GroundedRouting
  BY DEF Inv, RouteInv
<1> QED
  BY EnterpriseCorrect, <1>1, PTL

(* Only Record takes a row away, and only after MaxAttempts + 1 calls. *)
LEMMA GoneAfterAllTries ==
  ASSUME Inv, [Next]_vars, NEW k \in Key, row[k].status # "none", row'[k].status = "none"
  PROVE  row[k].calls > MaxAttempts
<1>1. row' # row
  OBVIOUS
<1>2. ASSUME NEW c \in Conv, NEW ch \in Channel, InsertRouting(c, ch) PROVE FALSE
  <2> DEFINE j == <<c, ch>>
             r == [status |-> IF ch = "whatsapp" /\ seen THEN "held" ELSE "pending",
                   id |-> row[j].id + 1, attempts |-> 0, calls |-> 0]
  <2>1. row[j].status = "none" /\ row' = [row EXCEPT ![j] = r] /\ DOMAIN row = Key
    BY <1>1, <1>2 DEF InsertRouting, Inv, TypeOK
  <2> HIDE DEF r
  <2>2. k # j
    BY <2>1
  <2> QED
    BY <2>1, <2>2
<1>3. ASSUME NEW c \in Conv, Release(c) PROVE FALSE
  <2>1. /\ TypeOK /\ <<c, "whatsapp">> \in Key
        /\ row' = [row EXCEPT ![<<c, "whatsapp">>].status = "pending"]
    BY <1>3 DEF Release, Inv
  <2> QED
    BY <2>1, Released
<1>4. ASSUME NEW d \in Deliverer, NEW j \in Key, Attempt(d, j) PROVE FALSE
  <2>1. row'[k].status = row[k].status \/ row'[k].status = "delivering"
    BY <1>4, Attempted DEF Inv
  <2> QED
    BY <2>1
<1>5. ASSUME NEW d \in Deliverer, NEW j \in Key, Record(d, j) PROVE row[k].calls > MaxAttempts
  <2>1. j = k
    BY <1>5, Recorded
  <2> QED
    BY <1>5, <2>1, Recorded
<1>6. \/ \E c \in Conv, ch \in Channel : InsertRouting(c, ch)
      \/ \E c \in Conv : Release(c)
      \/ \E d \in Deliverer, j \in Key : Attempt(d, j) \/ Record(d, j)
  <2>1. CASE UNCHANGED vars
    BY <1>1, <2>1 DEF vars
  <2>2. ASSUME NEW c \in Conv, Ingest(c) \/ Verify(c) PROVE FALSE
    BY <1>1, <2>2 DEF Ingest, RecordConsent, RefuseConsent, InsertConversation, PutAudio,
       MarkUploaded, ProduceRaw, Verify
  <2>3. ASSUME NEW s \in Stage, Send(s) \/ Consume(s) \/ CrashConsumer(s) PROVE FALSE
    BY <1>1, <2>3 DEF Send, Consume, Skip, Begin, Wedge, SetState, Fail, Commit, CrashConsumer
  <2>4. CASE AsrWork \/ ExtractWork
    BY <1>1, <2>4 DEF AsrWork, ExtractWork, Transcribe, Extract
  <2>5. CASE RouteWork
    BY <1>1, <2>5 DEF RouteWork, RouteReady
  <2>6. CASE AgentWork
    BY <1>1, <2>6 DEF AgentWork, Answer, NothingHeld, DeliverReleased
  <2>7. ASSUME NEW r \in Retrier, RetryDue(r) \/ CrashRetrier(r) PROVE FALSE
    BY <1>1, <2>7 DEF RetryDue, ProcessDue, CrashRetrier
  <2>8. ASSUME NEW p \in Purger,
               Purge(p) \/ CrashPurger(p) \/ \E cs \in SUBSET Conv : Scan(p, cs)
        PROVE  FALSE
    BY <1>1, <2>8 DEF Purge, DeleteAudio, DeleteFails, AssertPurge, AssertForce, WriteEnd,
       CrashPurger, Scan
  <2>9. CASE CrashGateway
    BY <1>1, <2>9 DEF CrashGateway
  <2> QED
    BY <2>1, <2>2, <2>3, <2>4, <2>5, <2>6, <2>7, <2>8, <2>9 DEF Next, Deliver
<1> QED
  BY <1>2, <1>3, <1>4, <1>5, <1>6

(* RoutingDispatcher._deliver_one gives up on a row only after the         *)
(* provider has been called MaxAttempts + 1 times for it, although several *)
(* processes deliver the same row from attempt counts read earlier.        *)
THEOREM EnterpriseDeadLetteredAfterAllTries == Spec => DeadLetteredAfterAllTries
<1>1. Inv /\ [Next]_vars =>
        [\A k \in Key : row[k].status # "none" /\ row'[k].status = "none"
                          => row[k].calls > MaxAttempts]_vars
  BY GoneAfterAllTries
<1> QED
  BY EnterpriseCorrect, <1>1, PTL DEF Spec, DeadLetteredAfterAllTries

=============================================================================
