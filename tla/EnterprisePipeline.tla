------------------------- MODULE EnterprisePipeline -------------------------
(***************************************************************************)
(* The enterprise pipeline (voclyp/enterprise): consent-first ingestion in *)
(* the gateway, the ASR, extraction and routing consumers behind Kafka,    *)
(* the erasure worker and the orphan sweep, and the routing outbox with    *)
(* its verification hold.  Processes share the tenant's SQLite mirror      *)
(* (LocalStore) and the object store.                                      *)
(*                                                                         *)
(* LocalStore's lock belongs to one process.  A state update therefore     *)
(* reads the row and asserts the transition in one step and writes the new *)
(* state, whatever it is by then, in a later one.                          *)
(*                                                                         *)
(* Abstractions.  A topic is one partition, read by one consumer process   *)
(* that a supervisor restarts.  An ingest request ends within the erase    *)
(* window.  Whether a conversation needs verification is fixed per         *)
(* conversation.  Marking a row 'delivering' and calling the provider are  *)
(* one step: nothing that happens between them reads the row.  A list is   *)
(* worked off in any order.                                                *)
(*                                                                         *)
(* A process opens the tenants' database files when it starts, and that of *)
(* a new tenant only on a request of that tenant.  A consumer or a loop    *)
(* that is older than the file finds no row in it until it is restarted.   *)
(***************************************************************************)
EXTENDS Naturals, Sequences, FiniteSets

CONSTANTS
  Conv,          \* conversations
  Channel,       \* routing channels with a client: zoho, whatsapp, push
  Eraser,        \* loops and maintenance calls that run ErasureWorker.run_once
  Retrier,       \* loops and maintenance calls that run process_due
  Deployments,   \* sets of processes that may be deployed together
  MaxAttempts,   \* dispatcher.MAX_ATTEMPTS
  ListLimit,     \* most rows due_erasures, due_orphans and due_routing return
  MaxCrashes     \* bound: how often some process dies

ASSUME ConstantsAssumption ==
  /\ MaxAttempts \in Nat
  /\ MaxCrashes \in Nat
  /\ ListLimit \in Nat \ {0}
  /\ Deployments \subseteq SUBSET (Eraser \cup Retrier \cup {"sweep", "agent"})
  /\ "sweep" \notin Eraser
  /\ Retrier \cap {"routing", "agent"} = {}

VARIABLES
  \* the tenant's database file
  consent,       \* conversations with a consent log entry
  state,         \* [Conv -> showroom_conversations.state, "none": no row]
  erased,        \* conversations with erased_at set
  transcript,    \* conversations with a stored transcript
  extraction,    \* conversations with a stored extraction
  flagged,       \* conversations with requires_human_verification = 1
  verified,      \* conversations with verified_by set
  row,           \* [Key -> routing_outbox row]
  dead,          \* keys with a failed_routing_outbox row
  \* object store
  audio,         \* conversations whose raw audio is stored
  \* Kafka
  inbox,         \* [Stage -> produced messages not yet committed]
  unsent,        \* [Stage -> messages still in the producer's buffer]
  \* processes
  ing,           \* [Conv -> progress of its ingest request]
  pc,            \* [Stage -> where the consumer stands]
  seen,          \* the flag as the routing consumer read it
  toRoute,       \* channels it has still to insert a row for
  todo,          \* [Purger -> conversations of its list still to do]
  at,            \* [Purger -> where it stands]
  hand,          \* [Purger -> set of the conversation it works on]
  agent,         \* where the verify request stands
  verifying,     \* set of the conversation being verified
  task,          \* [Deliverer \X Key -> delivery in progress]
  opened,        \* processes that have the tenant's database file open
  \* what cannot be read off the database
  deployed,      \* erasers, retriers, "sweep", "agent": those that run at all
  needy,         \* conversations whose extraction calls for verification
  undeleted,     \* conversations whose delete failed in the sweep
  messaged,      \* conversations whose WhatsApp message went out
  crashes

dbVars     == <<consent, state, erased, transcript, extraction, flagged, verified>>
routeVars  == <<row, dead, task, messaged>>
busVars    == <<inbox, unsent>>
purgeVars  == <<todo, at, hand, undeleted>>
agentVars  == <<agent, verifying>>
setup      == <<deployed, needy, opened>>
routerVars == <<seen, toRoute>>
vars == <<dbVars, routeVars, audio, busVars, ing, pc, routerVars, purgeVars,
          agentVars, setup, crashes>>

Stage     == {"asr", "extractor", "routing"}
Purger    == Eraser \cup {"sweep"}
Deliverer == Retrier \cup {"routing", "agent"}
Key       == Conv \X Channel

(* Everything that keeps a LocalStore; the sweep makes one for every pass. *)
Opener == Stage \cup Eraser \cup Retrier \cup {"gateway"}

(* LocalStore.__init__ of a process that starts again: the file is there   *)
(* once any process has opened it.                                         *)
Restart(p) == opened' = IF opened = {} THEN {} ELSE opened \cup {p}

(* The state a consumer moves a conversation to before it works on it.     *)
Target == [asr |-> "transcribing", extractor |-> "extracting", routing |-> "dispatching"]

(* The consumer of the topic a stage produces to.                          *)
Downstream == [asr |-> "extractor", extractor |-> "routing"]

Terminal == {"purged", "error_purged"}

Allowed ==
  [consent_logged |-> {"audio_uploaded", "error_purged"},
   audio_uploaded |-> {"transcribing", "error_purged"},
   transcribing   |-> {"extracting", "error_purged"},
   extracting     |-> {"dispatching", "error_purged"},
   dispatching    |-> {"purged", "error_purged"},
   purged         |-> {},
   error_purged   |-> {}]

State == DOMAIN Allowed \cup {"none"}

(* assert_transition passes.                                               *)
Legal(c, new) == state[c] = new \/ new \in Allowed[state[c]]

NoRow == [status |-> "none", id |-> 0, attempts |-> 0, calls |-> 0]

RowStatus == {"none", "held", "pending", "delivering", "failed", "delivered"}

Row == [status: RowStatus, id: Nat, attempts: Nat, calls: Nat]

NoTask == [pc |-> "idle", id |-> 0, attempts |-> 0]

Task == [pc: {"idle", "queued", "accepted", "refused"}, id: Nat, attempts: Nat]

Idle(d) == \A k \in Key : task[<<d, k>>] = NoTask

(* Ingest and verify are coroutines without an await between their store   *)
(* calls: the gateway's event loop runs one of them at a time.             *)
LoopFree == agent = "idle" /\ \A c \in Conv : ing[c] \in {"new", "failed", "done"}

-----------------------------------------------------------------------------
Init ==
  /\ consent = {} /\ erased = {} /\ transcript = {} /\ extraction = {}
  /\ flagged = {} /\ verified = {} /\ dead = {} /\ audio = {}
  /\ state = [c \in Conv |-> "none"]
  /\ row = [k \in Key |-> NoRow]
  /\ inbox = [s \in Stage |-> <<>>]
  /\ unsent = [s \in Stage |-> <<>>]
  /\ ing = [c \in Conv |-> "new"]
  /\ pc = [s \in Stage |-> "idle"]
  /\ seen = FALSE /\ toRoute = {}
  /\ todo = [p \in Purger |-> {}]
  /\ at = [p \in Purger |-> "idle"]
  /\ hand = [p \in Purger |-> {}]
  /\ agent = "idle" /\ verifying = {}
  /\ task = [t \in Deliverer \X Key |-> NoTask]
  /\ deployed \in Deployments
  /\ needy \in SUBSET Conv
  /\ opened \in SUBSET (Stage \cup (deployed \cap (Eraser \cup Retrier)))
  /\ undeleted = {} /\ messaged = {}
  /\ crashes = 0

-----------------------------------------------------------------------------
(* EnterpriseIngestion.ingest                                              *)

IngestStep(c, from, to) == ing[c] = from /\ ing' = [ing EXCEPT ![c] = to]

RecordConsent(c) ==
  /\ LoopFree
  /\ IngestStep(c, "new", "consented")
  /\ consent' = consent \cup {c}
  /\ opened' = opened \cup {"gateway"}
  /\ UNCHANGED <<state, erased, transcript, extraction, flagged, verified, routeVars,
                 audio, busVars, pc, routerVars, purgeVars, agentVars, deployed, needy,
                 crashes>>

(* ConsentError: the request ends before anything is written.              *)
RefuseConsent(c) ==
  /\ LoopFree
  /\ IngestStep(c, "new", "failed")
  /\ UNCHANGED <<dbVars, routeVars, audio, busVars, pc, routerVars, purgeVars,
                 agentVars, setup, crashes>>

InsertConversation(c) ==
  /\ IngestStep(c, "consented", "inserted")
  /\ state' = [state EXCEPT ![c] = "consent_logged"]
  /\ UNCHANGED <<consent, erased, transcript, extraction, flagged, verified, routeVars,
                 audio, busVars, pc, routerVars, purgeVars, agentVars, setup, crashes>>

(* A PUT that raises may still have stored the object.                     *)
PutAudio(c) ==
  /\ \/ /\ IngestStep(c, "inserted", "stored")
        /\ audio' = audio \cup {c}
     \/ /\ IngestStep(c, "inserted", "failed")
        /\ audio' \in {audio, audio \cup {c}}
  /\ UNCHANGED <<dbVars, routeVars, busVars, pc, routerVars, purgeVars, agentVars,
                 setup, crashes>>

MarkUploaded(c) ==
  /\ IngestStep(c, "stored", "uploaded")
  /\ state' = [state EXCEPT ![c] = "audio_uploaded"]
  /\ UNCHANGED <<consent, erased, transcript, extraction, flagged, verified, routeVars,
                 audio, busVars, pc, routerVars, purgeVars, agentVars, setup, crashes>>

ProduceRaw(c) ==
  /\ IngestStep(c, "uploaded", "done")
  /\ unsent' = [unsent EXCEPT !["asr"] = Append(@, c)]
  /\ UNCHANGED <<dbVars, routeVars, audio, inbox, pc, routerVars, purgeVars,
                 agentVars, setup, crashes>>

Ingest(c) ==
  \/ RecordConsent(c) \/ RefuseConsent(c) \/ InsertConversation(c)
  \/ PutAudio(c) \/ MarkUploaded(c) \/ ProduceRaw(c)

-----------------------------------------------------------------------------
(* KafkaBus and the consumer loop                                          *)

(* produce() only queues: the client library sends later.                  *)
Send(s) ==
  /\ unsent[s] # <<>>
  /\ inbox' = [inbox EXCEPT ![s] = Append(@, Head(unsent[s]))]
  /\ unsent' = [unsent EXCEPT ![s] = Tail(@)]
  /\ UNCHANGED <<dbVars, routeVars, audio, ing, pc, routerVars, purgeVars,
                 agentVars, setup, crashes>>

(* The message in hand: polled, not committed.                             *)
Polled(s, c) == inbox[s] # <<>> /\ c = Head(inbox[s])

(* get_conversation finds no row: the handler returns and the message is   *)
(* committed as if it had been worked on.                                  *)
Skip(s, c) ==
  /\ pc[s] = "idle"
  /\ Polled(s, c)
  /\ s \notin opened
  /\ pc' = [pc EXCEPT ![s] = "done"]
  /\ UNCHANGED <<dbVars, routeVars, audio, busVars, ing, routerVars, purgeVars,
                 agentVars, setup, crashes>>

(* get_conversation, then the read and the assertion of set_state.         *)
Begin(s, c) ==
  /\ pc[s] = "idle"
  /\ Polled(s, c)
  /\ s \in opened
  /\ Legal(c, Target[s])
  /\ pc' = [pc EXCEPT ![s] = "checked"]
  /\ seen' = IF s = "routing" THEN c \in flagged ELSE seen
  /\ toRoute' = IF s = "routing" THEN Channel ELSE toRoute
  /\ UNCHANGED <<dbVars, routeVars, audio, busVars, ing, purgeVars, agentVars,
                 setup, crashes>>

(* IllegalTransition leaves the handler: the process exits, loses what its *)
(* producer had not sent, and finds the same message when it is restarted. *)
Wedge(s, c) ==
  /\ s \in DOMAIN Downstream
  /\ pc[s] = "idle"
  /\ Polled(s, c)
  /\ s \in opened
  /\ ~Legal(c, Target[s])
  /\ unsent' = [unsent EXCEPT ![Downstream[s]] = <<>>]
  /\ UNCHANGED <<dbVars, routeVars, audio, inbox, ing, pc, routerVars, purgeVars,
                 agentVars, setup, crashes>>

(* The UPDATE of set_state: it names the row only.                         *)
SetState(s, c) ==
  /\ pc[s] = "checked"
  /\ Polled(s, c)
  /\ pc' = [pc EXCEPT ![s] = "working"]
  /\ state' = [state EXCEPT ![c] = Target[s]]
  /\ UNCHANGED <<consent, erased, transcript, extraction, flagged, verified, routeVars,
                 audio, busVars, ing, routerVars, purgeVars, agentVars, setup, crashes>>

Worked(s) == pc' = [pc EXCEPT ![s] = "done"]

Produce(s, c) == unsent' = [unsent EXCEPT ![Downstream[s]] = Append(@, c)]

(* Mutation of Fail: the event is produced whatever happened.              *)
FailProducing(s) ==
  /\ s \in DOMAIN Downstream
  /\ pc[s] = "working"
  /\ Worked(s)
  /\ \E c \in Conv : Polled(s, c) /\ Produce(s, c)
  /\ UNCHANGED <<dbVars, routeVars, audio, inbox, ing, routerVars, purgeVars, agentVars,
                 setup, crashes>>

(* An exception is recorded in error_detail and the message is dropped.    *)
Fail(s) ==
  /\ s \in DOMAIN Downstream
  /\ pc[s] = "working"
  /\ Worked(s)
  /\ UNCHANGED <<dbVars, routeVars, audio, busVars, ing, routerVars, purgeVars,
                 agentVars, setup, crashes>>

Transcribe(c) ==
  /\ pc["asr"] = "working"
  /\ Polled("asr", c)
  /\ c \in audio
  /\ transcript' = transcript \cup {c}
  /\ Produce("asr", c)
  /\ Worked("asr")
  /\ UNCHANGED <<consent, state, erased, extraction, flagged, verified, routeVars,
                 audio, inbox, ing, routerVars, purgeVars, agentVars, setup, crashes>>

Extract(c) ==
  /\ pc["extractor"] = "working"
  /\ Polled("extractor", c)
  /\ extraction' = extraction \cup {c}
  /\ flagged' = IF c \in needy THEN flagged \cup {c} ELSE flagged \ {c}
  /\ Produce("extractor", c)
  /\ Worked("extractor")
  /\ UNCHANGED <<consent, state, erased, transcript, verified, routeVars,
                 audio, inbox, ing, routerVars, purgeVars, agentVars, setup, crashes>>

(* INSERT OR IGNORE, one row per channel; every row has an id of its own.  *)
InsertRouting(c, ch) ==
  LET k == <<c, ch>> IN
  /\ pc["routing"] = "working"
  /\ Polled("routing", c)
  /\ ch \in toRoute
  /\ toRoute' = toRoute \ {ch}
  /\ row' = IF row[k].status = "none"
              THEN [row EXCEPT ![k] =
                     [status   |-> IF ch = "whatsapp" /\ seen THEN "held" ELSE "pending",
                      id       |-> row[k].id + 1,
                      attempts |-> 0,
                      calls    |-> 0]]
              ELSE row
  /\ UNCHANGED <<dbVars, dead, task, messaged, audio, busVars, ing, pc, seen,
                 purgeVars, agentVars, setup, crashes>>

(* A list of rows goes to the delivery threads with the attempts it read.  *)
Enqueue(d, ks) ==
  task' = [t \in Deliverer \X Key |->
    IF t[1] = d /\ t[2] \in ks
      THEN [pc |-> "queued", id |-> row[t[2]].id, attempts |-> row[t[2]].attempts]
      ELSE task[t]]

Pending(c) == {k \in Key : k[1] = c /\ row[k].status = "pending"}

RouteReady(c) ==
  /\ pc["routing"] = "working"
  /\ Polled("routing", c)
  /\ toRoute = {} /\ toRoute' = {}
  /\ seen' = FALSE
  /\ Enqueue("routing", Pending(c))
  /\ Worked("routing")
  /\ UNCHANGED <<dbVars, row, dead, messaged, audio, busVars, ing,
                 purgeVars, agentVars, setup, crashes>>

Commit(s) ==
  /\ pc[s] = "done"
  /\ s = "routing" => Idle("routing")
  /\ pc' = [pc EXCEPT ![s] = "idle"]
  /\ inbox' = [inbox EXCEPT ![s] = Tail(@)]
  /\ UNCHANGED <<dbVars, routeVars, audio, unsent, ing, routerVars, purgeVars,
                 agentVars, setup, crashes>>

Consume(s) ==
  \/ \E c \in Conv : Skip(s, c) \/ Begin(s, c) \/ Wedge(s, c) \/ SetState(s, c)
  \/ Fail(s) \/ Commit(s)

AsrWork     == \E c \in Conv : Transcribe(c)
ExtractWork == \E c \in Conv : Extract(c)
RouteWork   == \E c \in Conv : RouteReady(c) \/ \E ch \in Channel : InsertRouting(c, ch)

-----------------------------------------------------------------------------
(* RoutingDispatcher._deliver_one, process_due and verify                  *)

(* The row the task was made from is still there (it is found by its id).  *)
Current(t) == row[t[2]].status # "none" /\ row[t[2]].id = task[t].id

(* Calls are counted per row, up to the number that exhausts it.           *)
Attempt(d, k) ==
  LET t == <<d, k>> IN
  /\ task[t].pc = "queued"
  /\ \E answer \in {"accepted", "refused"} : task' = [task EXCEPT ![t].pc = answer]
  /\ row' = IF Current(t)
              THEN [row EXCEPT ![k].status = "delivering",
                               ![k].calls = IF @ > MaxAttempts THEN @ ELSE @ + 1]
              ELSE row
  /\ messaged' = IF k[2] = "whatsapp" THEN messaged \cup {k[1]} ELSE messaged
  /\ UNCHANGED <<dbVars, dead, audio, busVars, ing, pc, routerVars, purgeVars,
                 agentVars, setup, crashes>>

(* Mutation of Outcome: the retry ceiling is one call too low.             *)
OutcomeEarly(r, t) ==
  IF task[t].pc = "accepted"
    THEN [r EXCEPT !.status = "delivered", !.attempts = task[t].attempts + 1]
  ELSE IF task[t].attempts + 1 >= MaxAttempts
    THEN [NoRow EXCEPT !.id = r.id]
    ELSE [r EXCEPT !.status = "failed", !.attempts = task[t].attempts + 1]

(* What _deliver_one leaves of the row.                                    *)
Outcome(r, t) ==
  IF task[t].pc = "accepted"
    THEN [r EXCEPT !.status = "delivered", !.attempts = task[t].attempts + 1]
  ELSE IF task[t].attempts + 1 > MaxAttempts
    THEN [NoRow EXCEPT !.id = r.id]
    ELSE [r EXCEPT !.status = "failed", !.attempts = task[t].attempts + 1]

Record(d, k) ==
  LET t == <<d, k>> IN
  /\ task[t].pc \in {"accepted", "refused"}
  /\ row' = IF Current(t) THEN [row EXCEPT ![k] = Outcome(@, t)] ELSE row
  /\ dead' = IF row[k].status # "none" /\ row'[k].status = "none"
               THEN dead \cup {k} ELSE dead
  /\ task' = [task EXCEPT ![t] = NoTask]
  /\ UNCHANGED <<dbVars, messaged, audio, busVars, ing, pc, routerVars,
                 purgeVars, agentVars, setup, crashes>>

(* due_routing lists, up to its limit, the pending rows and those failed   *)
(* ones whose back-off has ended.                                          *)
Listed(ks, due) ==
  /\ ks \subseteq due
  /\ Cardinality(ks) <= ListLimit
  /\ (\A c \in Conv : Pending(c) \subseteq ks) \/ Cardinality(ks) = ListLimit

(* Mutation of ProcessDue: held rows are due too.                          *)
ProcessDueHeld(r, ks) ==
  /\ r \in deployed \cap opened
  /\ Idle(r)
  /\ ks # {}
  /\ Listed(ks, {k \in Key : row[k].status \in {"held", "pending", "failed"}})
  /\ Enqueue(r, ks)
  /\ UNCHANGED <<dbVars, row, dead, messaged, audio, busVars, ing, pc,
                 routerVars, purgeVars, agentVars, setup, crashes>>

(* Mutation of ProcessDue: failed rows are never due again.                *)
ProcessDueOnce(r, ks) ==
  /\ r \in deployed \cap opened
  /\ Idle(r)
  /\ ks # {}
  /\ Listed(ks, {k \in Key : row[k].status \in {"pending"}})
  /\ Enqueue(r, ks)
  /\ UNCHANGED <<dbVars, row, dead, messaged, audio, busVars, ing, pc,
                 routerVars, purgeVars, agentVars, setup, crashes>>

(* One pass of process_due.                                                *)
ProcessDue(r, ks) ==
  /\ r \in deployed \cap opened
  /\ Idle(r)
  /\ ks # {}
  /\ Listed(ks, {k \in Key : row[k].status \in {"pending", "failed"}})
  /\ Enqueue(r, ks)
  /\ UNCHANGED <<dbVars, row, dead, messaged, audio, busVars, ing, pc,
                 routerVars, purgeVars, agentVars, setup, crashes>>

AgentStep(from, to) == agent = from /\ agent' = to

(* An agent may verify any conversation that has a row, at any time.       *)
Verify(c) ==
  /\ "agent" \in deployed
  /\ LoopFree
  /\ state[c] # "none"
  /\ AgentStep("idle", "verified")
  /\ verifying' = {c}
  /\ flagged' = flagged \ {c}
  /\ verified' = verified \cup {c}
  /\ UNCHANGED <<consent, state, erased, transcript, extraction, routeVars, audio,
                 busVars, ing, pc, routerVars, purgeVars, setup, crashes>>

Release(c) ==
  LET k == <<c, "whatsapp">> IN
  /\ verifying = {c}
  /\ k \in Key /\ row[k].status = "held"
  /\ AgentStep("verified", "released")
  /\ row' = [row EXCEPT ![k].status = "pending"]
  /\ UNCHANGED <<dbVars, dead, task, messaged, audio, busVars, ing, pc,
                 routerVars, purgeVars, verifying, setup, crashes>>

NothingHeld(c) ==
  /\ verifying = {c}
  /\ ~(<<c, "whatsapp">> \in Key /\ row[<<c, "whatsapp">>].status = "held")
  /\ AgentStep("verified", "idle")
  /\ verifying' = {}
  /\ UNCHANGED <<dbVars, routeVars, audio, busVars, ing, pc, routerVars,
                 purgeVars, setup, crashes>>

DeliverReleased(c) ==
  /\ verifying = {c}
  /\ AgentStep("released", "delivering")
  /\ Enqueue("agent", Pending(c))
  /\ UNCHANGED <<dbVars, row, dead, messaged, audio, busVars, ing, pc,
                 routerVars, purgeVars, verifying, setup, crashes>>

Answer ==
  /\ Idle("agent")
  /\ AgentStep("delivering", "idle")
  /\ verifying' = {}
  /\ UNCHANGED <<dbVars, routeVars, audio, busVars, ing, pc, routerVars,
                 purgeVars, setup, crashes>>

Deliver(d)  == \E k \in Key : Attempt(d, k) \/ Record(d, k)
AgentWork   == Answer \/ \E c \in Conv : Release(c) \/ NothingHeld(c) \/ DeliverReleased(c)
RetryDue(r) == \E ks \in SUBSET Key : ProcessDue(r, ks)

-----------------------------------------------------------------------------
(* ErasureWorker.run_once and the orphan sweep                             *)

(* Mutation of Due: the sweep skips rows with erased_at set, too.          *)
DueNotErased(p) ==
  {c \in Conv :
     /\ ing[c] \in {"failed", "done"}
     /\ state[c] \notin Terminal \cup {"none"}
     /\ c \notin erased}

(* due_erasures skips rows with erased_at set, due_orphans does not.  Both *)
(* list conversations whose window is over, which may be any whose request *)
(* has ended, up to a limit.                                               *)
Due(p) ==
  {c \in Conv :
     /\ ing[c] \in {"failed", "done"}
     /\ state[c] \notin Terminal \cup {"none"}
     /\ p # "sweep" => c \notin erased}

Scan(p, cs) ==
  /\ p \in deployed
  /\ p = "sweep" \/ p \in opened
  /\ at[p] = "idle"
  /\ cs # {} /\ cs \subseteq Due(p)
  /\ Cardinality(cs) <= ListLimit
  /\ at' = [at EXCEPT ![p] = "delete"]
  /\ todo' = [todo EXCEPT ![p] = cs]
  /\ UNCHANGED <<dbVars, routeVars, audio, busVars, ing, pc, routerVars, hand,
                 undeleted, agentVars, setup, crashes>>

(* p is through with c; the last conversation of the list ends the pass.   *)
Drop(p, c) ==
  /\ todo' = [todo EXCEPT ![p] = @ \ {c}]
  /\ hand' = [hand EXCEPT ![p] = {}]
  /\ at' = [at EXCEPT ![p] = IF todo[p] = {c} THEN "idle" ELSE "delete"]

Step(p, c, to) ==
  /\ at' = [at EXCEPT ![p] = to]
  /\ hand' = [hand EXCEPT ![p] = {c}]
  /\ UNCHANGED todo

DeleteAudio(p, c) ==
  /\ at[p] = "delete"
  /\ c \in todo[p]
  /\ audio' = audio \ {c}
  /\ Step(p, c, IF p = "sweep" THEN "force" ELSE "purge")
  /\ UNCHANGED <<dbVars, routeVars, busVars, ing, pc, routerVars, undeleted,
                 agentVars, setup, crashes>>

(* Mutation of DeleteFails: the erasure worker goes on after an error.     *)
DeleteFailsUnnoticed(p, c) ==
  /\ at[p] = "delete"
  /\ c \in todo[p] \cap audio
  /\ IF p = "sweep"
       THEN Step(p, c, "force") /\ undeleted' = undeleted \cup {c}
       ELSE Step(p, c, "purge") /\ UNCHANGED undeleted
  /\ UNCHANGED <<dbVars, routeVars, audio, busVars, ing, pc, routerVars, agentVars,
                 setup, crashes>>

(* The erasure worker leaves the conversation for its next pass; the sweep *)
(* logs the error and goes on.                                             *)
DeleteFails(p, c) ==
  /\ at[p] = "delete"
  /\ c \in todo[p] \cap audio
  /\ IF p = "sweep"
       THEN Step(p, c, "force") /\ undeleted' = undeleted \cup {c}
       ELSE Drop(p, c) /\ UNCHANGED undeleted
  /\ UNCHANGED <<dbVars, routeVars, audio, busVars, ing, pc, routerVars,
                 agentVars, setup, crashes>>

(* The assertion before 'purged' decides between the two ends.             *)
AssertPurge(p, c) ==
  /\ at[p] = "purge"
  /\ hand[p] = {c}
  /\ Step(p, c, IF Legal(c, "purged") THEN "writePurged" ELSE "force")
  /\ UNCHANGED <<dbVars, routeVars, audio, busVars, ing, pc, routerVars,
                 undeleted, agentVars, setup, crashes>>

(* mark_error_purged raises on a purged row: an error of this conversation *)
(* for the erasure worker, the end of the pass for the sweep.              *)
AssertForce(p, c) ==
  /\ at[p] = "force"
  /\ hand[p] = {c}
  /\ IF Legal(c, "error_purged") THEN Step(p, c, "writeForced")
     ELSE IF p = "sweep"
       THEN /\ at' = [at EXCEPT ![p] = "idle"]
            /\ todo' = [todo EXCEPT ![p] = {}]
            /\ hand' = [hand EXCEPT ![p] = {}]
       ELSE Drop(p, c)
  /\ UNCHANGED <<dbVars, routeVars, audio, busVars, ing, pc, routerVars,
                 undeleted, agentVars, setup, crashes>>

(* Mutation of WriteEnd: the state the docstring of erasure/worker.py names.*)
WriteEndErased(p, c) ==
  /\ at[p] \in {"writePurged", "writeForced"}
  /\ hand[p] = {c}
  /\ state' = [state EXCEPT ![c] = IF at[p] = "writePurged" THEN "erased" ELSE "error_purged"]
  /\ erased' = erased \cup {c}
  /\ Drop(p, c)
  /\ UNCHANGED <<consent, transcript, extraction, flagged, verified, routeVars, audio,
                 busVars, ing, pc, routerVars, undeleted, agentVars, setup, crashes>>

WriteEnd(p, c) ==
  /\ at[p] \in {"writePurged", "writeForced"}
  /\ hand[p] = {c}
  /\ state' = [state EXCEPT ![c] = IF at[p] = "writePurged" THEN "purged" ELSE "error_purged"]
  /\ erased' = erased \cup {c}
  /\ Drop(p, c)
  /\ UNCHANGED <<consent, transcript, extraction, flagged, verified, routeVars, audio,
                 busVars, ing, pc, routerVars, undeleted, agentVars, setup, crashes>>

Purge(p) ==
  \E c \in Conv :
    \/ DeleteAudio(p, c) \/ DeleteFails(p, c)
    \/ AssertPurge(p, c) \/ AssertForce(p, c) \/ WriteEnd(p, c)

-----------------------------------------------------------------------------
(* Processes die, or are stopped, and are restarted: wherever it shows     *)

Crash == crashes < MaxCrashes /\ crashes' = crashes + 1

(* Delivery threads die with their process; rows stay as they are.         *)
DropTasks(d) ==
  task' = [t \in Deliverer \X Key |-> IF t[1] = d THEN NoTask ELSE task[t]]

CrashConsumer(s) ==
  /\ Crash
  /\ \/ pc[s] # "idle" \/ s \notin opened
     \/ s \in DOMAIN Downstream /\ unsent[Downstream[s]] # <<>>
  /\ Restart(s)
  /\ pc' = [pc EXCEPT ![s] = "idle"]
  /\ unsent' = IF s \in DOMAIN Downstream
                 THEN [unsent EXCEPT ![Downstream[s]] = <<>>] ELSE unsent
  /\ IF s = "routing"
       THEN DropTasks("routing") /\ seen' = FALSE /\ toRoute' = {}
       ELSE UNCHANGED <<task, routerVars>>
  /\ UNCHANGED <<dbVars, row, dead, messaged, audio, inbox, ing,
                 purgeVars, agentVars, deployed, needy>>

CrashGateway ==
  /\ Crash
  /\ ~LoopFree \/ unsent["asr"] # <<>>
  /\ ing' = [c \in Conv |-> IF ing[c] = "new" THEN "new"
                            ELSE IF ing[c] = "done" THEN "done" ELSE "failed"]
  /\ unsent' = [unsent EXCEPT !["asr"] = <<>>]
  /\ agent' = "idle" /\ verifying' = {}
  /\ DropTasks("agent")
  /\ UNCHANGED <<dbVars, row, dead, messaged, audio, inbox, pc, routerVars,
                 purgeVars, setup>>

CrashPurger(p) ==
  /\ Crash
  /\ at[p] # "idle" \/ p \in deployed \ (opened \cup {"sweep"})
  /\ IF p = "sweep" THEN UNCHANGED opened ELSE Restart(p)
  /\ at' = [at EXCEPT ![p] = "idle"]
  /\ todo' = [todo EXCEPT ![p] = {}]
  /\ hand' = [hand EXCEPT ![p] = {}]
  /\ UNCHANGED <<dbVars, routeVars, audio, busVars, ing, pc, routerVars,
                 undeleted, agentVars, deployed, needy>>

CrashRetrier(r) ==
  /\ Crash
  /\ ~Idle(r) \/ r \in deployed \ opened
  /\ Restart(r)
  /\ DropTasks(r)
  /\ UNCHANGED <<dbVars, row, dead, messaged, audio, busVars, ing, pc,
                 routerVars, purgeVars, agentVars, deployed, needy>>

-----------------------------------------------------------------------------
Next ==
  \/ \E c \in Conv : Ingest(c) \/ Verify(c)
  \/ \E s \in Stage : Send(s) \/ Consume(s) \/ CrashConsumer(s)
  \/ AsrWork \/ ExtractWork \/ RouteWork \/ AgentWork
  \/ \E d \in Deliverer : Deliver(d)
  \/ \E r \in Retrier : RetryDue(r) \/ CrashRetrier(r)
  \/ \E p \in Purger : Purge(p) \/ CrashPurger(p) \/ \E cs \in SUBSET Conv : Scan(p, cs)
  \/ CrashGateway

Spec == Init /\ [][Next]_vars

(* A request once begun is carried on, the sweep and the retry loops run   *)
(* again and again and an ended window stays ended, a delivery thread      *)
(* finishes what it was given.  Nothing makes a consumer take a message, a *)
(* provider accept, an agent verify, a delete succeed.                     *)
FairSpec ==
  /\ Spec
  /\ \A c \in Conv :
       /\ WF_vars(Ingest(c))
       /\ SF_vars(\E cs \in SUBSET Conv : c \in cs /\ Scan("sweep", cs))
  /\ WF_vars(Purge("sweep"))
  /\ \A r \in Retrier : WF_vars(RetryDue(r))
  /\ \A d \in Deliverer : \A k \in Key : WF_vars(Attempt(d, k) \/ Record(d, k))

-----------------------------------------------------------------------------
(* Every variable has its type.                                            *)
TypeOK ==
  /\ consent \subseteq Conv /\ erased \subseteq Conv /\ transcript \subseteq Conv
  /\ extraction \subseteq Conv /\ flagged \subseteq Conv /\ verified \subseteq Conv
  /\ audio \subseteq Conv /\ needy \subseteq Conv
  /\ deployed \in Deployments /\ opened \subseteq Opener
  /\ undeleted \subseteq Conv /\ messaged \subseteq Conv /\ dead \subseteq Key
  /\ state \in [Conv -> State]
  /\ row \in [Key -> Row]
  /\ inbox \in [Stage -> Seq(Conv)]
  /\ unsent \in [Stage -> Seq(Conv)]
  /\ ing \in [Conv -> {"new", "consented", "inserted", "stored", "uploaded", "failed", "done"}]
  /\ pc \in [Stage -> {"idle", "checked", "working", "done"}]
  /\ seen \in BOOLEAN /\ toRoute \subseteq Channel
  /\ todo \in [Purger -> SUBSET Conv]
  /\ at \in [Purger -> {"idle", "delete", "purge", "force", "writePurged", "writeForced"}]
  /\ hand \in [Purger -> SUBSET Conv]
  /\ agent \in {"idle", "verified", "released", "delivering"}
  /\ verifying \subseteq Conv
  /\ task \in [Deliverer \X Key -> Task]
  /\ crashes \in 0 .. MaxCrashes

(* Raw audio in the object store always has a consent entry and a row that *)
(* some purge pass will still find; once a row says erased_at, whoever     *)
(* wrote it and whatever moved the state afterwards, the audio is gone     *)
(* unless the storage delete failed in the orphan sweep.                   *)
NoStrandedAudio ==
  \A c \in audio :
    /\ c \in consent
    /\ state[c] # "none"
    /\ state[c] \in Terminal \/ c \in erased => c \in undeleted

(* A WhatsApp message about a conversation whose extraction calls for      *)
(* verification goes out only after an agent has verified it, whatever is  *)
(* redelivered, retried or extracted again.                                *)
NoUnverifiedWhatsApp == messaged \cap needy \subseteq verified

(* Only conversations with a stored transcript and a stored extraction are *)
(* ever routed.                                                            *)
GroundedRouting ==
  \A k \in Key : row[k].status # "none" => k[1] \in transcript \cap extraction

(* A row is moved to the dead-letter table only after the provider has     *)
(* been called MaxAttempts + 1 times for it, although deliverers overwrite *)
(* each other's attempt counts.                                            *)
DeadLetteredAfterAllTries ==
  [][\A k \in Key : row[k].status # "none" /\ row'[k].status = "none"
                      => row[k].calls > MaxAttempts]_vars

(* Every conversation with a row ends purged or error-purged and stays so, *)
(* although a consumer may move a purged one back on its ladder, and even  *)
(* if consumers and loops older than the tenant's file passed it over.     *)
EveryConversationEnds ==
  "sweep" \in deployed => \A c \in Conv : <>[](state[c] \in Terminal \cup {"none"})

(* Left in 'delivering' by a process that died: no list names it again.    *)
Stranded(k) ==
  /\ row[k].status = "delivering"
  /\ \A d \in Deliverer :
       ~(task[<<d, k>>].pc \in {"accepted", "refused"} /\ Current(<<d, k>>))

(* Every row that is not held is delivered or dead-lettered, unless the    *)
(* process delivering it died, where the retry loops know the tenant.      *)
RoutesSettle ==
  \A k \in Key :
    row[k].status \in {"pending", "failed", "delivering"} /\ Retrier \subseteq deployed \cap opened ~>
      \/ row[k].status = "delivered" \/ Stranded(k)
      \/ row[k].status = "none" /\ k \in dead

-----------------------------------------------------------------------------
(* Why: what the requests, the passes and the deliverers know              *)

(* A request at work has its consent on record and, from the insert on, a  *)
(* row that no pass has listed yet.                                        *)
IngestKnows ==
  \A c \in Conv :
    /\ ing[c] \in {"consented", "inserted", "stored", "uploaded"} => c \in consent
    /\ ing[c] \in {"inserted", "stored", "uploaded"} => state[c] # "none"
    /\ ing[c] \notin {"failed", "done"} =>
         /\ c \notin erased /\ state[c] \notin Terminal
         /\ \A p \in Purger : c \notin todo[p]

(* What a pass has in hand is on its list and, past the delete, is gone    *)
(* from the object store unless the delete failed in the sweep.            *)
PurgeKnows ==
  \A p \in Purger :
    /\ hand[p] \subseteq todo[p]
    /\ at[p] \in {"idle", "delete"} => hand[p] = {}
    /\ at[p] \in {"purge", "force", "writePurged", "writeForced"} =>
         hand[p] \cap audio \subseteq undeleted

(* Why no audio is stranded: inductive.                                    *)
AudioInv == IngestKnows /\ PurgeKnows /\ NoStrandedAudio

(* A message that was produced speaks of what was stored before it.        *)
Speaks(q, known) == \A i \in 1 .. Len(q) : q[i] \in known

BusKnows ==
  /\ \A q \in {inbox["extractor"], unsent["extractor"]} : Speaks(q, transcript)
  /\ \A q \in {inbox["routing"], unsent["routing"]} : Speaks(q, transcript \cap extraction)
  /\ \A s \in Stage : pc[s] # "idle" => inbox[s] # <<>>

(* A conversation to be verified is flagged from its extraction on, and    *)
(* the routing consumer has seen the flag.                                 *)
FlagKnows ==
  /\ (needy \cap extraction) \ verified \subseteq flagged
  /\ pc["routing"] \in {"checked", "working"} /\ Head(inbox["routing"]) \in needy \ verified => seen
  /\ verifying \subseteq verified

(* Its WhatsApp row is held, and in no deliverer's hands, until then.      *)
HoldKnows ==
  \A c \in needy \ verified : <<c, "whatsapp">> \in Key =>
    /\ row[<<c, "whatsapp">>].status \in {"none", "held"}
    /\ \A d \in Deliverer : task[<<d, <<c, "whatsapp">>>>] = NoTask

(* Why only verified messages go out and only stored conversations are     *)
(* routed: inductive.                                                      *)
RouteInv == BusKnows /\ FlagKnows /\ HoldKnows /\ GroundedRouting /\ NoUnverifiedWhatsApp

(* The provider has been called at least as often as a row, or a task for  *)
(* it however stale, says.                                                 *)
CallsCount ==
  \A k \in Key :
    /\ row[k].status # "none" => row[k].attempts <= row[k].calls
    /\ row[k].status \in {"held", "pending", "failed"} => row[k].attempts <= MaxAttempts
    /\ \A d \in Deliverer :
         LET t == <<d, k>> IN
         task[t].pc # "idle" =>
           /\ task[t].id <= row[k].id /\ task[t].attempts <= MaxAttempts
           /\ Current(t) =>
                row[k].calls >= task[t].attempts + IF task[t].pc = "queued" THEN 0 ELSE 1

Inv == TypeOK /\ AudioInv /\ RouteInv /\ CallsCount
=============================================================================
