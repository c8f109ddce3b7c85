---------------------------- MODULE LiveSession ----------------------------
(***************************************************************************)
(* The live visit of src/voclyp/live/session.py: a rep starts a session,   *)
(* streams recording chunks over a websocket, patches the customer's name  *)
(* and number by hand, records the consent and ends the visit, which       *)
(* submits the recording to the pipeline under the reference               *)
(* "live-<session>".                                                       *)
(*                                                                         *)
(* The gateway is one process.  Its async handlers (start, patch, stream,  *)
(* complete) run on one event loop and do not interleave with each other;  *)
(* the consent handler is synchronous, runs in a thread pool and           *)
(* interleaves with every statement of a handler on the loop.  The worker  *)
(* is another process over the same tables.  The transcript's text, the    *)
(* chunks' bytes and the customer's actual name are left out: a field of   *)
(* the customer is known by who wrote it.                                  *)
(***************************************************************************)
EXTENDS Integers, FiniteSets

CONSTANTS
  Visit,          \* live sessions
  Socket,         \* websocket connections, each used once
  NoVisit,        \* no visit
  Field,          \* fields of the customer the transcript is searched for
  MaxSeq,         \* bound: chunks sent over one connection
  MaxTries,       \* MAX_ATTEMPTS of the job queue
  MaxVisitCrashes \* bound: crashes of the gateway and of the worker

ASSUME VisitAssumption ==
  /\ NoVisit \notin Visit
  /\ MaxSeq \in Nat /\ MaxVisitCrashes \in Nat
  /\ MaxTries \in Nat /\ MaxTries > 0

VARIABLES
  status,      \* live_sessions.status
  consentAt,   \* visits whose live_sessions.consent_at is set
  linked,      \* visits whose live_sessions.conversation_id is set
  source,      \* live_sessions.name_source and phone_source
  rows,        \* session_chunks rows, numbered from 1
  buffer,      \* _asr[v].sarvam_calls, 0 without a buffer
  socket,      \* a connection's visit, and seq of its handler
  ending,      \* the complete handler on the event loop
  reference,   \* visits whose client_ref is in the idempotency table
  jobs,        \* conversations enqueued for a visit
  job,         \* the queue's row of the visit's conversation
  insight,     \* visits whose insight has been stored
  calls,       \* speech-to-text calls made for a visit, ever
  metered,     \* the visit's rows of provider_usage, added up
  visitCrashes

visitVars == <<status, consentAt, linked, source, rows, buffer, socket, ending, reference,
               jobs, job, insight, calls, metered, visitCrashes>>

Status == {"none", "identity", "active", "processing", "complete"}
NotEnding == [step |-> "idle", visit |-> NoVisit, consent |-> FALSE]
NoJob == [state |-> "none", tries |-> 0]
Closed == [state |-> "closed", visit |-> NoVisit, seq |-> 0]

VisitTypeOK ==
  /\ status \in [Visit -> Status]
  /\ consentAt \subseteq Visit
  /\ linked \subseteq Visit
  /\ source \in [Visit -> [Field -> {"none", "asr", "manual"}]]
  /\ rows \in [Visit -> 0..MaxSeq]
  /\ buffer \in [Visit -> Nat]
  /\ socket \in [Socket -> [state : {"new", "open", "closed"}, visit : Visit \cup {NoVisit},
                            seq : 0..MaxSeq]]
  /\ ending \in [step : {"idle", "submit", "enqueue", "mark", "meter"},
                 visit : Visit \cup {NoVisit}, consent : BOOLEAN]
  /\ reference \subseteq Visit
  /\ jobs \in [Visit -> Nat]
  /\ job \in [Visit -> [state : {"none", "queued", "running", "stored", "marked", "done",
                                 "dead", "stranded"}, tries : 0..MaxTries]]
  /\ insight \subseteq Visit
  /\ calls \in [Visit -> Nat]
  /\ metered \in [Visit -> Nat]
  /\ visitCrashes \in 0..MaxVisitCrashes

VisitInit ==
  /\ status = [v \in Visit |-> "none"]
  /\ consentAt = {} /\ linked = {} /\ reference = {} /\ insight = {}
  /\ source = [v \in Visit |-> [f \in Field |-> "none"]]
  /\ rows = [v \in Visit |-> 0]
  /\ buffer = [v \in Visit |-> 0]
  /\ socket = [s \in Socket |-> [state |-> "new", visit |-> NoVisit, seq |-> 0]]
  /\ ending = NotEnding
  /\ jobs = [v \in Visit |-> 0]
  /\ job = [v \in Visit |-> NoJob]
  /\ calls = [v \in Visit |-> 0]
  /\ metered = [v \in Visit |-> 0]
  /\ visitCrashes = 0

-----------------------------------------------------------------------------
(* The requests of a visit *)

LoopFree == ending = NotEnding

Start(v) ==
  /\ LoopFree /\ status[v] = "none"
  /\ status' = [status EXCEPT ![v] = "identity"]
  /\ UNCHANGED <<consentAt, linked, source, rows, buffer, socket, ending, reference, jobs, job,
                 insight, calls, metered, visitCrashes>>

\* Runs in the thread pool, so not only when the loop is free; it asks nothing
\* of the session's status and opens an ended visit again.
Consent(v) ==
  /\ status[v] # "none"
  /\ status' = [status EXCEPT ![v] = "active"]
  /\ consentAt' = consentAt \cup {v}
  /\ UNCHANGED <<linked, source, rows, buffer, socket, ending, reference, jobs, job, insight,
                 calls, metered, visitCrashes>>

PatchCustomer(v, f) ==
  /\ LoopFree /\ status[v] # "none"
  /\ source' = [source EXCEPT ![v][f] = "manual"]
  /\ UNCHANGED <<status, consentAt, linked, rows, buffer, socket, ending, reference, jobs, job,
                 insight, calls, metered, visitCrashes>>

\* A fresh connection numbers its chunks from 1 and replaces the visit's buffer.
Connect(s, v) ==
  /\ LoopFree /\ status[v] # "none"
  /\ socket[s].state = "new"
  /\ socket' = [socket EXCEPT ![s] = [state |-> "open", visit |-> v, seq |-> 0]]
  /\ buffer' = [buffer EXCEPT ![v] = 0]
  /\ UNCHANGED <<status, consentAt, linked, source, rows, ending, reference, jobs, job, insight,
                 calls, metered, visitCrashes>>

Disconnect(s) ==
  /\ LoopFree /\ socket[s].state = "open"
  /\ socket' = [socket EXCEPT ![s] = Closed]
  /\ UNCHANGED <<status, consentAt, linked, source, rows, buffer, ending, reference, jobs, job,
                 insight, calls, metered, visitCrashes>>

\* The rep restarts voice assist over the open connection: a new buffer, and the numbering
\* of the chunks goes on.
ResetAsr(s) ==
  /\ LoopFree /\ socket[s].state = "open"
  /\ buffer' = [buffer EXCEPT ![socket[s].visit] = 0]
  /\ UNCHANGED <<status, consentAt, linked, source, rows, socket, ending, reference, jobs, job,
                 insight, calls, metered, visitCrashes>>

Bigger(a, b) == IF a > b THEN a ELSE b

\* Mutant: the transcript's fields are written whoever wrote the last value.
ChunkBlind(s, call, found) ==
  LET v == socket[s].visit
      n == socket[s].seq + 1
  IN /\ LoopFree /\ socket[s].state = "open" /\ socket[s].seq < MaxSeq
     /\ socket' = [socket EXCEPT ![s].seq = n]
     /\ rows' = [rows EXCEPT ![v] = Bigger(@, n)]
     /\ buffer' = [buffer EXCEPT ![v] = @ + call]
     /\ calls' = [calls EXCEPT ![v] = @ + call]
     /\ source' = [source EXCEPT ![v] = [f \in Field |->
                     IF f \in found THEN "asr" ELSE source[v][f]]]
     /\ UNCHANGED <<status, consentAt, linked, ending, reference, jobs, job, insight, metered,
                    visitCrashes>>

\* process_chunk: the chunk's file and row replace those with its number; "call" says
\* whether a provider call was counted (text may come without one, from the stub),
\* "found" which fields are in the transcript so far: they are written unless a rep
\* wrote them by hand.
Chunk(s, call, found) ==
  LET v == socket[s].visit
      n == socket[s].seq + 1
  IN /\ LoopFree /\ socket[s].state = "open" /\ socket[s].seq < MaxSeq
     /\ socket' = [socket EXCEPT ![s].seq = n]
     /\ rows' = [rows EXCEPT ![v] = Bigger(@, n)]
     /\ buffer' = [buffer EXCEPT ![v] = @ + call]
     /\ calls' = [calls EXCEPT ![v] = @ + call]
     /\ source' = [source EXCEPT ![v] = [f \in Field |->
                     IF f \in found /\ source[v][f] # "manual" THEN "asr" ELSE source[v][f]]]
     /\ UNCHANGED <<status, consentAt, linked, ending, reference, jobs, job, insight, metered,
                    visitCrashes>>

-----------------------------------------------------------------------------
(* Ending the visit: complete, statement by statement *)

\* The session is read once; without a clip the chunks' files are merged.
Complete(v, clip) ==
  /\ LoopFree
  /\ status[v] \in {"identity", "active"}
  /\ clip \/ rows[v] > 0
  /\ ending' = [step |-> "submit", visit |-> v, consent |-> v \in consentAt]
  /\ UNCHANGED <<status, consentAt, linked, source, rows, buffer, socket, reference, jobs, job,
                 insight, calls, metered, visitCrashes>>

\* Mutant: the idempotency row is written and never read.
SubmitUnchecked ==
  LET v == ending.visit
  IN /\ ending.step = "submit"
     /\ \/ ~ending.consent /\ ending' = NotEnding /\ UNCHANGED reference
        \/ ending.consent /\ ending' = [ending EXCEPT !.step = "enqueue"]
           /\ reference' = reference \cup {v}
     /\ UNCHANGED <<status, consentAt, linked, source, rows, buffer, socket, jobs, job, insight,
                    calls, metered, visitCrashes>>

\* IngestionService.submit up to the idempotency row; without consent it raises.
Submit ==
  LET v == ending.visit
  IN /\ ending.step = "submit"
     /\ \/ ~ending.consent /\ ending' = NotEnding /\ UNCHANGED reference
        \/ ending.consent /\ v \in reference
           /\ ending' = [ending EXCEPT !.step = "mark"] /\ UNCHANGED reference
        \/ ending.consent /\ v \notin reference
           /\ ending' = [ending EXCEPT !.step = "enqueue"]
           /\ reference' = reference \cup {v}
     /\ UNCHANGED <<status, consentAt, linked, source, rows, buffer, socket, jobs, job, insight,
                    calls, metered, visitCrashes>>

Enqueue ==
  LET v == ending.visit
  IN /\ ending.step = "enqueue"
     /\ jobs' = [jobs EXCEPT ![v] = @ + 1]
     /\ job' = [job EXCEPT ![v] = [state |-> "queued", tries |-> 0]]
     /\ ending' = [ending EXCEPT !.step = "mark"]
     /\ UNCHANGED <<status, consentAt, linked, source, rows, buffer, socket, reference, insight,
                    calls, metered, visitCrashes>>

\* A worker may have finished the job by now: the visit is processing all the same.
MarkProcessing ==
  LET v == ending.visit
  IN /\ ending.step = "mark"
     /\ status' = [status EXCEPT ![v] = "processing"]
     /\ linked' = linked \cup {v}
     /\ ending' = [ending EXCEPT !.step = "meter"]
     /\ UNCHANGED <<consentAt, source, rows, buffer, socket, reference, jobs, job, insight,
                    calls, metered, visitCrashes>>

\* Mutant: the buffer is looked up and stays.
MeterKeeping ==
  LET v == ending.visit
  IN /\ ending.step = "meter"
     /\ metered' = [metered EXCEPT ![v] = @ + buffer[v]]
     /\ ending' = NotEnding
     /\ UNCHANGED <<status, consentAt, linked, source, rows, buffer, socket, reference, jobs,
                    job, insight, calls, visitCrashes>>

\* The buffer is popped, then its calls are added to the conversation's usage.
Meter ==
  LET v == ending.visit
  IN /\ ending.step = "meter"
     /\ metered' = [metered EXCEPT ![v] = @ + buffer[v]]
     /\ buffer' = [buffer EXCEPT ![v] = 0]
     /\ ending' = NotEnding
     /\ UNCHANGED <<status, consentAt, linked, source, rows, socket, reference, jobs, job,
                    insight, calls, visitCrashes>>

-----------------------------------------------------------------------------
(* The worker, as far as it touches a visit *)

SetJob(v, state) == job' = [job EXCEPT ![v].state = state]

Lease(v) ==
  /\ job[v].state = "queued"
  /\ job' = [job EXCEPT ![v] = [state |-> "running", tries |-> @.tries + 1]]
  /\ UNCHANGED <<status, consentAt, linked, source, rows, buffer, socket, ending, reference,
                 jobs, insight, calls, metered, visitCrashes>>

StoreInsight(v) ==
  /\ job[v].state = "running"
  /\ SetJob(v, "stored")
  /\ insight' = insight \cup {v}
  /\ UNCHANGED <<status, consentAt, linked, source, rows, buffer, socket, ending, reference,
                 jobs, calls, metered, visitCrashes>>

\* Mutant: the visit is completed before its insight is saved.
CompleteVisitEarly(v) ==
  /\ job[v].state = "running"
  /\ SetJob(v, "marked")
  /\ status' = IF v \in linked /\ status[v] = "processing"
               THEN [status EXCEPT ![v] = "complete"] ELSE status
  /\ UNCHANGED <<consentAt, linked, source, rows, buffer, socket, ending, reference, jobs,
                 insight, calls, metered, visitCrashes>>

\* Mutant: only a visit that is still active is completed.
CompleteVisitActive(v) ==
  /\ job[v].state = "stored"
  /\ SetJob(v, "marked")
  /\ status' = IF v \in linked /\ status[v] = "active"
               THEN [status EXCEPT ![v] = "complete"] ELSE status
  /\ UNCHANGED <<consentAt, linked, source, rows, buffer, socket, ending, reference, jobs,
                 insight, calls, metered, visitCrashes>>

\* complete_live_session_for_conversation: one UPDATE, of a linked visit in "processing".
CompleteVisit(v) ==
  /\ job[v].state = "stored"
  /\ SetJob(v, "marked")
  /\ status' = IF v \in linked /\ status[v] = "processing"
               THEN [status EXCEPT ![v] = "complete"] ELSE status
  /\ UNCHANGED <<consentAt, linked, source, rows, buffer, socket, ending, reference, jobs,
                 insight, calls, metered, visitCrashes>>

Finish(v) ==
  /\ job[v].state = "marked"
  /\ SetJob(v, "done")
  /\ UNCHANGED <<status, consentAt, linked, source, rows, buffer, socket, ending, reference,
                 jobs, insight, calls, metered, visitCrashes>>

\* Any step of process_one may raise; the job is retried until its tries are spent.
JobFails(v) ==
  /\ job[v].state \in {"running", "stored", "marked"}
  /\ SetJob(v, IF job[v].tries >= MaxTries THEN "dead" ELSE "queued")
  /\ UNCHANGED <<status, consentAt, linked, source, rows, buffer, socket, ending, reference,
                 jobs, insight, calls, metered, visitCrashes>>

-----------------------------------------------------------------------------
(* Crashes *)

\* A gateway that dies loses its buffers, its connections and the handler at work.
GatewayDies ==
  /\ visitCrashes < MaxVisitCrashes
  /\ visitCrashes' = visitCrashes + 1
  /\ ending' = NotEnding
  /\ buffer' = [v \in Visit |-> 0]
  /\ socket' = [s \in Socket |-> IF socket[s].state = "open" THEN Closed ELSE socket[s]]
  /\ UNCHANGED <<status, consentAt, linked, source, rows, reference, jobs, job, insight, calls,
                 metered>>

\* A job leased by a worker that dies is never taken again.
WorkerDies(v) ==
  /\ visitCrashes < MaxVisitCrashes
  /\ job[v].state \in {"running", "stored", "marked"}
  /\ visitCrashes' = visitCrashes + 1
  /\ SetJob(v, "stranded")
  /\ UNCHANGED <<status, consentAt, linked, source, rows, buffer, socket, ending, reference,
                 jobs, insight, calls, metered>>

-----------------------------------------------------------------------------
EndingStep == Submit \/ Enqueue \/ MarkProcessing \/ Meter
JobStep(v) == Lease(v) \/ StoreInsight(v) \/ CompleteVisit(v) \/ Finish(v) \/ JobFails(v)

VisitNext ==
  \/ EndingStep
  \/ GatewayDies
  \/ \E v \in Visit :
       \/ Start(v) \/ Consent(v) \/ WorkerDies(v) \/ JobStep(v)
       \/ \E f \in Field : PatchCustomer(v, f)
       \/ \E clip \in BOOLEAN : Complete(v, clip)
       \/ \E s \in Socket : Connect(s, v)
  \/ \E s \in Socket :
       \/ Disconnect(s) \/ ResetAsr(s)
       \/ \E call \in {0, 1}, found \in SUBSET Field : Chunk(s, call, found)

\* The event loop runs a handler it has begun and the worker polls the queue; no
\* rep has to send anything.
VisitFairness == WF_visitVars(EndingStep) /\ \A v \in Visit : WF_visitVars(JobStep(v))

VisitSpec == VisitInit /\ [][VisitNext]_visitVars /\ VisitFairness

-----------------------------------------------------------------------------
(* What a visit promises *)

\* A visit is one conversation: ending it again, after a lost answer, a crash between
\* the idempotency row and the queue, or a late consent that opened it again, never
\* enqueues a second job (session.py complete, ingestion.py submit).
OneJobPerVisit == \A v \in Visit : jobs[v] <= 1

\* No recording of a visit reaches the pipeline before its consent is on record,
\* although the consent handler runs beside the handler that ends the visit.
UploadsConsented == \A v \in reference : v \in consentAt

\* A visit shown as complete has an insight: the worker completes it after its own
\* save, through crashes, retries and visits opened again.
CompleteIsStored == \A v \in Visit : status[v] = "complete" => v \in insight

\* A provider call is metered at most once, however often the visit is ended: what is
\* metered and what is still in the buffer never exceed the calls made.  (They may be
\* fewer: a reconnect or a crash drops the buffer's calls.)
NeverOverMetered == \A v \in Visit : metered[v] + buffer[v] <= calls[v]

-----------------------------------------------------------------------------
(* Why: what the handler at work, the queue and the connections know *)

\* The handler that ends a visit has read its consent, and enqueues only a visit whose
\* reference it has just written and which has no job yet.
EndingKnows ==
  /\ ending.step # "idle" => ending.visit \in Visit
  /\ ending.consent => ending.visit \in consentAt
  /\ ending.step = "enqueue" => ending.visit \in reference /\ jobs[ending.visit] = 0

\* A job waits with tries to spare, has a visit with a reference, and is past its insight
\* only when that has been stored.
QueueKnows ==
  \A v \in Visit :
    /\ job[v].state = "queued" => job[v].tries < MaxTries
    /\ job[v].state \in {"stored", "marked"} => v \in insight
    /\ v \notin reference => jobs[v] = 0

\* The inductive invariant of the visits (proved in LiveSessionProofs).
VisitInv ==
  /\ VisitTypeOK
  /\ EndingKnows
  /\ QueueKnows
  /\ \A s \in Socket : socket[s].state = "open" => socket[s].visit \in Visit
  /\ OneJobPerVisit /\ UploadsConsented /\ CompleteIsStored /\ NeverOverMetered

\* What a rep typed is never replaced by what the transcript seems to say.
ManualWins ==
  [][\A v \in Visit, f \in Field : source[v][f] = "manual" => source'[v][f] = "manual"]_visitVars

\* A visit that waits for a job the worker still has to complete does not wait for ever.
\* (One whose job was completed before the visit was marked as processing does.)
ProcessingResolves ==
  \A v \in Visit :
    (status[v] = "processing" /\ job[v].state \in {"queued", "running", "stored"})
      ~> (status[v] # "processing" \/ job[v].state \in {"dead", "stranded"})

=============================================================================
