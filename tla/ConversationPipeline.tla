------------------------ MODULE ConversationPipeline ------------------------
(***************************************************************************)
(* The path of one field recording through the core backend: the gateway's *)
(* ingestion handler (voclyp/ingestion.py), the SQLite job queue           *)
(* (voclyp/queueing.py), the worker loop (voclyp/worker.py), the audio     *)
(* vault (voclyp/security.py), and the tables of voclyp/store.py they      *)
(* write.                                                                  *)
(*                                                                         *)
(* Gateway and workers are separate processes over shared files, so every  *)
(* committed statement is a step of its own.  The gateway runs ingestion   *)
(* inside `async def` handlers on one event loop, so it handles one upload *)
(* at a time; its steps still interleave with the workers', and it may     *)
(* stop between any two of them (an exception or the death of the process: *)
(* nothing is undone in either case).                                      *)
(*                                                                         *)
(* Abstractions.  The parts of one upload are written, copied and erased   *)
(* together, except that an erasure may stop halfway ("torn").  A master   *)
(* key is set, so a part that was overwritten but not unlinked no longer   *)
(* decrypts and counts as gone.  Each                                      *)
(* conversation has one job, so a job is named by its conversation; the    *)
(* queue's AUTOINCREMENT id is its position.  The metrics and usage rows   *)
(* of one pass are one step.  Webhook delivery is WebhookDelivery's        *)
(* subject: only the fan-out of outbox events appears here.                *)
(***************************************************************************)
EXTENDS Naturals, FiniteSets

CONSTANTS
  Conv,          \* conversation ids uuid4 may draw
  Ref,           \* client_ref values
  Worker,        \* worker processes
  NoConv, NoRef, \* "none" values
  MaxAttempts,   \* JobQueue.max_attempts
  FanOutLimit,   \* LIMIT of Store.unfanned_events
  MaxRequeues,   \* bound: how often an operator re-arms a dead job
  MaxCrashes     \* bound: how often a worker dies

ASSUME ConstantsAssumption ==
  /\ NoConv \notin Conv
  /\ NoRef \notin Ref
  /\ MaxAttempts \in Nat \ {0}
  /\ FanOutLimit \in Nat \ {0}
  /\ MaxRequeues \in Nat
  /\ MaxCrashes \in Nat

VARIABLES
  \* gateway process: the upload being handled
  gwPc,          \* next step of IngestionService.submit
  gwConv,        \* conversation_id it drew
  \* field devices
  refOf,         \* [Conv -> Ref \cup {NoRef}]: client_ref an id was drawn for
  drawn,         \* conversation ids drawn so far
  acked,         \* conversations a device was told are "queued"
  \* voclyp.db
  idem,          \* [Ref -> Conv \cup {NoConv}]: the idempotency table
  consented,     \* conversations in consent_log
  insight,       \* [Conv -> BOOLEAN]: an insights row exists
  released,      \* [Conv -> Nat]: sequences.seq = outbox events written
  fanned,        \* of those, the ones fanned out: <<c, sequence>>
  metered,       \* [Conv -> Nat]: passes that wrote metrics and usage rows
  trail,         \* [Conv -> SUBSET AuditEvent]: audit_log
  \* queue.db
  job,           \* [Conv -> status of the job row]
  jobId,         \* [Conv -> Nat]: jobs.id, 0 when there is no row
  lastId,        \* the last AUTOINCREMENT id handed out
  attempts,      \* [Conv -> Nat]: jobs.attempts
  \* audio files
  vault,         \* [Conv -> state of the recording in the vault]
  work,          \* conversations with a raw copy in the work directory
  \* worker processes
  pc,            \* [Worker -> next step of Worker.process_one]
  holds,         \* [Worker -> Conv \cup {NoConv}]: the row it dequeued
  lease,         \* [Worker -> Nat]: the attempts it read, plus one
  \* bounds
  requeues, crashes

gwVars     == <<gwPc, gwConv, refOf, drawn, acked>>
storeVars  == <<idem, consented, insight, released, fanned, metered, trail>>
queueVars  == <<job, jobId, lastId, attempts>>
audioVars  == <<vault, work>>
workerVars == <<pc, holds, lease>>
boundVars  == <<requeues, crashes>>
vars == <<gwVars, storeVars, queueVars, audioVars, workerVars, boundVars>>

(* Of the audit log, the entries that prove what was done to a recording.  *)
AuditEvent == {"audio_deleted", "insight_stored"}

JobStatus == {"none", "pending", "leased", "done", "dead"}

GatewayPc == {"idle", "writing", "consenting", "indexing", "enqueueing", "acking"}

(* The steps inside process_one's try block, in order. *)
TryBlock == {"staging", "copying", "running", "saving", "purging", "metering",
             "auditing deletion", "auditing insight", "dispatching", "completing"}

WorkerPc == {"idle", "leasing", "failing", "down"} \cup TryBlock

TypeOK ==
  /\ gwPc \in GatewayPc
  /\ gwConv \in Conv \cup {NoConv}
  /\ refOf \in [Conv -> Ref \cup {NoRef}]
  /\ drawn \subseteq Conv
  /\ acked \subseteq Conv
  /\ idem \in [Ref -> Conv \cup {NoConv}]
  /\ consented \subseteq Conv
  /\ insight \in [Conv -> BOOLEAN]
  /\ released \in [Conv -> Nat]
  /\ fanned \subseteq Conv \X Nat
  /\ metered \in [Conv -> Nat]
  /\ trail \in [Conv -> SUBSET AuditEvent]
  /\ job \in [Conv -> JobStatus]
  /\ jobId \in [Conv -> Nat]
  /\ lastId \in Nat
  /\ attempts \in [Conv -> Nat]
  /\ vault \in [Conv -> {"none", "stored", "torn", "purged"}]
  /\ work \subseteq Conv
  /\ pc \in [Worker -> WorkerPc]
  /\ holds \in [Worker -> Conv \cup {NoConv}]
  /\ lease \in [Worker -> Nat]
  /\ requeues \in Nat
  /\ crashes \in Nat

Init ==
  /\ gwPc = "idle"
  /\ gwConv = NoConv
  /\ refOf = [c \in Conv |-> NoRef]
  /\ drawn = {}
  /\ acked = {}
  /\ idem = [r \in Ref |-> NoConv]
  /\ consented = {}
  /\ insight = [c \in Conv |-> FALSE]
  /\ released = [c \in Conv |-> 0]
  /\ fanned = {}
  /\ metered = [c \in Conv |-> 0]
  /\ trail = [c \in Conv |-> {}]
  /\ job = [c \in Conv |-> "none"]
  /\ jobId = [c \in Conv |-> 0]
  /\ lastId = 0
  /\ attempts = [c \in Conv |-> 0]
  /\ vault = [c \in Conv |-> "none"]
  /\ work = {}
  /\ pc = [w \in Worker |-> "idle"]
  /\ holds = [w \in Worker |-> NoConv]
  /\ lease = [w \in Worker |-> 0]
  /\ requeues = 0
  /\ crashes = 0

(* Store.audit: one more entry about conversation c. *)
Audit(c, event) == trail' = [trail EXCEPT ![c] = @ \cup {event}]

-----------------------------------------------------------------------------
(* Ingestion.  Uploads that are refused (no consent, empty, too large,     *)
(* unknown tenant, over-long field) change nothing and are not steps.      *)

(* Mutation of SubmitNew: the idempotency table is not consulted.          *)
SubmitNewUnchecked(c, r) ==
  /\ gwPc = "idle"
  /\ c \notin drawn
  /\ gwPc' = "writing"
  /\ gwConv' = c
  /\ refOf' = [refOf EXCEPT ![c] = r]
  /\ drawn' = drawn \cup {c}
  /\ UNCHANGED <<acked, storeVars, queueVars, audioVars, workerVars, boundVars>>

(* An accepted upload draws a fresh id; with a client_ref this needs the   *)
(* idempotency table to know nothing of it.                                *)
SubmitNew(c, r) ==
  /\ gwPc = "idle"
  /\ c \notin drawn
  /\ r \in Ref => idem[r] = NoConv
  /\ gwPc' = "writing"
  /\ gwConv' = c
  /\ refOf' = [refOf EXCEPT ![c] = r]
  /\ drawn' = drawn \cup {c}
  /\ UNCHANGED <<acked, storeVars, queueVars, audioVars, workerVars, boundVars>>

(* A re-upload of a known client_ref is answered with the first id.        *)
SubmitDuplicate(r) ==
  /\ gwPc = "idle"
  /\ idem[r] # NoConv
  /\ acked' = acked \cup {idem[r]}
  /\ UNCHANGED <<gwPc, gwConv, refOf, drawn, storeVars, queueVars, audioVars,
                 workerVars, boundVars>>

WriteAudio ==
  /\ gwPc = "writing"
  /\ vault' = [vault EXCEPT ![gwConv] = "stored"]
  /\ gwPc' = "consenting"
  /\ UNCHANGED <<gwConv, refOf, drawn, acked, storeVars, queueVars, work,
                 workerVars, boundVars>>

LogConsent ==
  /\ gwPc = "consenting"
  /\ consented' = consented \cup {gwConv}
  /\ gwPc' = IF refOf[gwConv] = NoRef THEN "enqueueing" ELSE "indexing"
  /\ UNCHANGED <<gwConv, refOf, drawn, acked, idem, insight, released, fanned,
                 metered, trail, queueVars, audioVars, workerVars, boundVars>>

(* idempotency_set is INSERT OR IGNORE: the first id for a ref stays.      *)
IndexRef ==
  /\ gwPc = "indexing"
  /\ idem' = [idem EXCEPT ![refOf[gwConv]] = IF @ = NoConv THEN gwConv ELSE @]
  /\ gwPc' = "enqueueing"
  /\ UNCHANGED <<gwConv, refOf, drawn, acked, consented, insight, released,
                 fanned, metered, trail, queueVars, audioVars, workerVars, boundVars>>

Enqueue ==
  /\ gwPc = "enqueueing"
  /\ job' = [job EXCEPT ![gwConv] = "pending"]
  /\ lastId' = lastId + 1
  /\ jobId' = [jobId EXCEPT ![gwConv] = lastId']
  /\ gwPc' = "acking"
  /\ UNCHANGED <<gwConv, refOf, drawn, acked, storeVars, attempts, audioVars,
                 workerVars, boundVars>>

(* The 202 answer {"status": "queued"}.                                    *)
Acknowledge ==
  /\ gwPc = "acking"
  /\ acked' = acked \cup {gwConv}
  /\ gwPc' = "idle"
  /\ gwConv' = NoConv
  /\ UNCHANGED <<refOf, drawn, storeVars, queueVars, audioVars, workerVars,
                 boundVars>>

(* The handler raises, or the gateway dies, before the current step.       *)
SubmitAborts ==
  /\ gwPc # "idle"
  /\ gwPc' = "idle"
  /\ gwConv' = NoConv
  /\ UNCHANGED <<refOf, drawn, acked, storeVars, queueVars, audioVars,
                 workerVars, boundVars>>

(* DELETE /v1/conversations/{id}: the insights row goes; the outbox, the   *)
(* job and the audio stay.  With no row to wipe it changes nothing here.   *)
DeleteOnDemand(c) ==
  /\ insight[c]
  /\ insight' = [insight EXCEPT ![c] = FALSE]
  /\ UNCHANGED <<gwVars, idem, consented, released, fanned, metered, trail,
                 queueVars, audioVars, workerVars, boundVars>>

(* JobQueue.requeue_dead. *)
RequeueDead(c) ==
  /\ requeues < MaxRequeues
  /\ job[c] = "dead"
  /\ job' = [job EXCEPT ![c] = "pending"]
  /\ attempts' = [attempts EXCEPT ![c] = 0]
  /\ requeues' = requeues + 1
  /\ UNCHANGED <<gwVars, storeVars, jobId, lastId, audioVars, workerVars, crashes>>

-----------------------------------------------------------------------------
(* The worker.  A job's payload names the vault files; the worker stages a *)
(* raw copy, runs the pipeline on the copy, commits insight and event, and *)
(* only then erases the originals.                                         *)

(* Mutation of After: the originals are erased before the commit.          *)
AfterErasingFirst(step) ==
  CASE step = "staging"           -> "copying"
    [] step = "copying"           -> "running"
    [] step = "running"           -> "purging"
    [] step = "purging"           -> "saving"
    [] step = "saving"            -> "metering"
    [] step = "metering"          -> "auditing deletion"
    [] step = "auditing deletion" -> "auditing insight"
    [] step = "auditing insight"  -> "dispatching"
    [] step = "dispatching"       -> "completing"

(* Mutation of After: the pass is metered before the originals are erased. *)
AfterMeteringFirst(step) ==
  CASE step = "staging"           -> "copying"
    [] step = "copying"           -> "running"
    [] step = "running"           -> "saving"
    [] step = "saving"            -> "metering"
    [] step = "metering"          -> "purging"
    [] step = "purging"           -> "auditing deletion"
    [] step = "auditing deletion" -> "auditing insight"
    [] step = "auditing insight"  -> "dispatching"
    [] step = "dispatching"       -> "completing"

(* The order of the steps in process_one's try block.                      *)
After(step) ==
  CASE step = "staging"           -> "copying"
    [] step = "copying"           -> "running"
    [] step = "running"           -> "saving"
    [] step = "saving"            -> "purging"
    [] step = "purging"           -> "metering"
    [] step = "metering"          -> "auditing deletion"
    [] step = "auditing deletion" -> "auditing insight"
    [] step = "auditing insight"  -> "dispatching"
    [] step = "dispatching"       -> "completing"

Advance(w) == pc' = [pc EXCEPT ![w] = After(pc[w])]

OldestPending(c) ==
  /\ job[c] = "pending"
  /\ \A d \in Conv : job[d] = "pending" => jobId[c] <= jobId[d]

(* JobQueue.dequeue reads the oldest pending row, then updates it.  The    *)
(* lock around the two statements is private to the process.               *)
Peek(w) ==
  /\ pc[w] = "idle"
  /\ \E c \in Conv :
       /\ OldestPending(c)
       /\ holds' = [holds EXCEPT ![w] = c]
       /\ lease' = [lease EXCEPT ![w] = attempts[c] + 1]
  /\ pc' = [pc EXCEPT ![w] = "leasing"]
  /\ UNCHANGED <<gwVars, storeVars, queueVars, audioVars, boundVars>>

Lease(w) ==
  /\ pc[w] = "leasing"
  /\ job' = [job EXCEPT ![holds[w]] = "leased"]
  /\ attempts' = [attempts EXCEPT ![holds[w]] = @ + 1]
  /\ pc' = [pc EXCEPT ![w] = "staging"]
  /\ UNCHANGED <<gwVars, storeVars, jobId, lastId, audioVars, holds, lease, boundVars>>

(* _stage_audio clears what an earlier pass left in the work directory and *)
(* reads the vault files, ...                                              *)
Stage(w) ==
  /\ pc[w] = "staging"
  /\ vault[holds[w]] = "stored"
  /\ work' = work \ {holds[w]}
  /\ Advance(w)
  /\ UNCHANGED <<gwVars, storeVars, queueVars, vault, holds, lease, boundVars>>

(* Mutation of StageMissing: a job without its recording is dropped.       *)
StageMissingDropped(w) ==
  /\ pc[w] = "staging"
  /\ vault[holds[w]] # "stored"
  /\ work' = work \ {holds[w]}
  /\ pc' = [pc EXCEPT ![w] = "idle"]
  /\ holds' = [holds EXCEPT ![w] = NoConv]
  /\ lease' = [lease EXCEPT ![w] = 0]
  /\ UNCHANGED <<gwVars, storeVars, queueVars, vault, boundVars>>

(* ... which raises when a file is gone, ...                               *)
StageMissing(w) ==
  /\ pc[w] = "staging"
  /\ vault[holds[w]] # "stored"
  /\ work' = work \ {holds[w]}
  /\ pc' = [pc EXCEPT ![w] = "failing"]
  /\ UNCHANGED <<gwVars, storeVars, queueVars, vault, holds, lease, boundVars>>

(* ... and writes what it has read to the work directory.  The write makes *)
(* the directory anew and does not look at the vault again: another worker *)
(* may have erased both meanwhile.                                         *)
CopyToWork(w) ==
  /\ pc[w] = "copying"
  /\ work' = work \cup {holds[w]}
  /\ Advance(w)
  /\ UNCHANGED <<gwVars, storeVars, queueVars, vault, holds, lease, boundVars>>

(* Mutation of RunPipeline: no stage erases the staged copy.               *)
RunPipelineKeeping(w) ==
  /\ pc[w] = "running"
  /\ Advance(w)
  /\ UNCHANGED <<gwVars, storeVars, queueVars, audioVars, holds, lease, boundVars>>

(* Mutation of RunPipeline: audio_deletion is given the originals.         *)
RunPipelineOnOriginals(w) ==
  /\ pc[w] = "running"
  /\ vault' = [vault EXCEPT ![holds[w]] = "purged"]
  /\ Advance(w)
  /\ UNCHANGED <<gwVars, storeVars, queueVars, work, holds, lease, boundVars>>

(* The stages up to build_insight; audio_deletion erases the staged copy.  *)
RunPipeline(w) ==
  /\ pc[w] = "running"
  /\ work' = work \ {holds[w]}
  /\ Advance(w)
  /\ UNCHANGED <<gwVars, storeVars, queueVars, vault, holds, lease, boundVars>>

(* save_insight_with_event: insight, sequence and event in one commit.     *)
Save(w) ==
  /\ pc[w] = "saving"
  /\ insight' = [insight EXCEPT ![holds[w]] = TRUE]
  /\ released' = [released EXCEPT ![holds[w]] = @ + 1]
  /\ Advance(w)
  /\ UNCHANGED <<gwVars, idem, consented, fanned, metered, trail, queueVars,
                 audioVars, holds, lease, boundVars>>

(* Mutation of Purge: an erasure that stops halfway is swallowed.          *)
PurgeBestEffort(w) ==
  /\ pc[w] = "purging"
  /\ \E erased \in {"torn", "purged"} : vault' = [vault EXCEPT ![holds[w]] = erased]
  /\ work' = work \ {holds[w]}
  /\ Advance(w)
  /\ UNCHANGED <<gwVars, storeVars, queueVars, holds, lease, boundVars>>

(* _purge_vault_audio: the originals and whatever is in the work dir.      *)
Purge(w) ==
  /\ pc[w] = "purging"
  /\ vault' = [vault EXCEPT ![holds[w]] = "purged"]
  /\ work' = work \ {holds[w]}
  /\ Advance(w)
  /\ UNCHANGED <<gwVars, storeVars, queueVars, holds, lease, boundVars>>

(* add_metrics and add_usage (the live visit is LiveSession's subject).    *)
Meter(w) ==
  /\ pc[w] = "metering"
  /\ metered' = [metered EXCEPT ![holds[w]] = @ + 1]
  /\ Advance(w)
  /\ UNCHANGED <<gwVars, idem, consented, insight, released, fanned, trail,
                 queueVars, audioVars, holds, lease, boundVars>>

AuditStep(w) ==
  /\ \/ pc[w] = "auditing deletion" /\ Audit(holds[w], "audio_deleted")
     \/ pc[w] = "auditing insight" /\ Audit(holds[w], "insight_stored")
  /\ Advance(w)
  /\ UNCHANGED <<gwVars, idem, consented, insight, released, fanned, metered,
                 queueVars, audioVars, holds, lease, boundVars>>

Unfanned == UNION {{<<c, n>> : n \in 1..released[c]} : c \in Conv} \ fanned

(* Dispatcher.fan_out takes FanOutLimit of the waiting events (the oldest;  *)
(* which these are is left open), or all if there are no more.              *)
FanOut ==
  \E batch \in SUBSET Unfanned :
    /\ Cardinality(batch) <= FanOutLimit
    /\ Cardinality(batch) = FanOutLimit \/ batch = Unfanned
    /\ fanned' = fanned \cup batch

(* dispatcher.run_once *)
Dispatch(w) ==
  /\ pc[w] = "dispatching"
  /\ FanOut
  /\ Advance(w)
  /\ UNCHANGED <<gwVars, idem, consented, insight, released, metered, trail,
                 queueVars, audioVars, holds, lease, boundVars>>

(* process_one returns to run_forever with nothing in hand.                *)
Return(w, next) ==
  /\ pc' = [pc EXCEPT ![w] = next]
  /\ holds' = [holds EXCEPT ![w] = NoConv]
  /\ lease' = [lease EXCEPT ![w] = 0]

Complete(w) ==
  /\ pc[w] = "completing"
  /\ job' = [job EXCEPT ![holds[w]] = "done"]
  /\ Return(w, "idle")
  /\ UNCHANGED <<gwVars, storeVars, jobId, lastId, attempts, audioVars, boundVars>>

(* What a step that is cut short may have done to the audio: cleared or    *)
(* begun the staged copy, erased it, or erased some of the originals.      *)
CutShort(w) ==
  \/ UNCHANGED audioVars
  \/ /\ pc[w] \in {"staging", "running"}
     /\ work' = work \ {holds[w]}
     /\ UNCHANGED vault
  \/ /\ pc[w] = "copying"
     /\ work' = work \cup {holds[w]}
     /\ UNCHANGED vault
  \/ /\ pc[w] = "purging"
     /\ vault[holds[w]] = "stored"
     /\ vault' = [vault EXCEPT ![holds[w]] = "torn"]
     /\ UNCHANGED work

(* A step of the try block raises. *)
StepRaises(w) ==
  /\ pc[w] \in TryBlock
  /\ CutShort(w)
  /\ pc' = [pc EXCEPT ![w] = "failing"]
  /\ UNCHANGED <<gwVars, storeVars, queueVars, holds, lease, boundVars>>

(* Mutation of Fail: an off-by-one grants a try too many.                  *)
FailOneLate(w) ==
  /\ pc[w] = "failing"
  /\ job' = [job EXCEPT ![holds[w]] =
                IF lease[w] <= MaxAttempts THEN "pending" ELSE "dead"]
  /\ Return(w, "idle")
  /\ UNCHANGED <<gwVars, storeVars, jobId, lastId, attempts, audioVars, boundVars>>

(* Mutation of Fail: a failed job always returns to the queue.             *)
FailForever(w) ==
  /\ pc[w] = "failing"
  /\ job' = [job EXCEPT ![holds[w]] = "pending"]
  /\ attempts' = [attempts EXCEPT ![holds[w]] = 0]
  /\ Return(w, "idle")
  /\ UNCHANGED <<gwVars, storeVars, jobId, lastId, audioVars, boundVars>>

(* The except clause: JobQueue.fail, decided by the attempts the worker    *)
(* read when it dequeued.  A dead job's exception is raised on, caught by  *)
(* run_forever and reported.                                               *)
Fail(w) ==
  /\ pc[w] = "failing"
  /\ job' = [job EXCEPT ![holds[w]] =
                IF lease[w] < MaxAttempts THEN "pending" ELSE "dead"]
  /\ Return(w, "idle")
  /\ UNCHANGED <<gwVars, storeVars, jobId, lastId, attempts, audioVars, boundVars>>

(* Mutation of IdleDispatch: the idle loop only sleeps.                    *)
IdleSleep(w) ==
  /\ pc[w] = "idle"
  /\ \A c \in Conv : job[c] # "pending"
  /\ UNCHANGED vars

(* With nothing pending, run_forever runs the dispatcher and sleeps.       *)
IdleDispatch(w) ==
  /\ pc[w] = "idle"
  /\ \A c \in Conv : job[c] # "pending"
  /\ FanOut
  /\ UNCHANGED <<gwVars, idem, consented, insight, released, metered, trail,
                 queueVars, audioVars, workerVars, boundVars>>

(* The process dies, or an exception leaves process_one from outside its   *)
(* try block (the queue's own statements, the except clause).  No row      *)
(* remembers who leased it, and nothing returns a leased row to pending.   *)
Crash(w) ==
  /\ crashes < MaxCrashes
  /\ pc[w] \notin {"idle", "down"}
  /\ crashes' = crashes + 1
  /\ \/ CutShort(w)
     \/ /\ pc[w] = "purging"      \* before the work directory's turn
        /\ vault' = [vault EXCEPT ![holds[w]] = "purged"]
        /\ UNCHANGED work
  /\ Return(w, "down")
  /\ UNCHANGED <<gwVars, storeVars, queueVars, requeues>>

Restart(w) ==
  /\ pc[w] = "down"
  /\ pc' = [pc EXCEPT ![w] = "idle"]
  /\ UNCHANGED <<gwVars, storeVars, queueVars, audioVars, holds, lease, boundVars>>

-----------------------------------------------------------------------------
GatewayNext ==
  \/ \E c \in Conv, r \in Ref \cup {NoRef} : SubmitNew(c, r)
  \/ \E r \in Ref : SubmitDuplicate(r)
  \/ WriteAudio \/ LogConsent \/ IndexRef \/ Enqueue \/ Acknowledge
  \/ SubmitAborts
  \/ \E c \in Conv : DeleteOnDemand(c) \/ RequeueDead(c)

(* What a live worker does of its own accord.                              *)
WorkerStep(w) ==
  \/ Peek(w) \/ Lease(w)
  \/ Stage(w) \/ StageMissing(w) \/ CopyToWork(w)
  \/ RunPipeline(w) \/ Save(w) \/ Purge(w) \/ Meter(w) \/ AuditStep(w)
  \/ Dispatch(w) \/ Complete(w)
  \/ Fail(w)
  \/ IdleDispatch(w) \/ Restart(w)

WorkerNext == \E w \in Worker : WorkerStep(w) \/ StepRaises(w) \/ Crash(w)

Next == GatewayNext \/ WorkerNext

Spec == Init /\ [][Next]_vars

(* run_forever never stops polling, and a dead worker is started again.    *)
FairSpec == Spec /\ \A w \in Worker : WF_vars(WorkerStep(w))

-----------------------------------------------------------------------------
(* Every queued conversation was consented to, and its recording is intact *)
(* in the vault until an insight and its event have been committed: no     *)
(* retry, crash or second worker loses a conversation (queueing.py: "a     *)
(* failed job can be retried without losing the conversation").            *)
NoRecordingLost ==
  \A c \in Conv :
    /\ job[c] # "none" => c \in consented
    /\ job[c] # "none" => vault[c] = "stored" \/ released[c] > 0
    /\ vault[c] \in {"torn", "purged"} => released[c] > 0

(* A job marked done left nothing undone: its event is committed, the      *)
(* originals are erased, and the erasure and the insight are on the audit  *)
(* trail (worker.process_one, in the order of its steps, whatever a second *)
(* worker does to the same row).  Of the raw copy in the work directory it *)
(* says nothing: a second worker that read the recording before the purge  *)
(* may write one after it, so that part is CopyDiesFirst, for one worker.  *)
DoneIsComplete ==
  \A c \in Conv : job[c] = "done" =>
    /\ released[c] > 0 /\ metered[c] > 0
    /\ vault[c] = "purged"
    /\ {"audio_deleted", "insight_stored"} \subseteq trail[c]

(* However often a device retries an upload, and wherever the handler      *)
(* stopped before, one client_ref leads to at most one job                 *)
(* (ingestion.py: "the same client_ref never creates a duplicate job").    *)
OneJobPerRef ==
  \A c, d \in Conv :
    job[c] # "none" /\ job[d] # "none" /\ refOf[c] \in Ref /\ refOf[c] = refOf[d]
      => c = d

(* With one worker the raw copy never outlives the recording it was made   *)
(* of: whatever failed or died, once the originals are touched the copy is *)
(* gone (worker._stage_audio, audio_delete.py, _purge_vault_audio).        *)
CopyDiesFirst == \A c \in work : vault[c] = "stored"

(* With one worker a conversation is metered once, although the meter rows *)
(* are plain inserts and the job may be retried: by then the originals are *)
(* erased and no retry gets past staging (worker.py, _stage_audio).        *)
MeteredAtMostOnce == \A c \in Conv : metered[c] <= 1

(* With one worker the attempts on a row tell the truth: a waiting job has *)
(* tries left and a dead one has used them all (JobQueue.fail).            *)
RetriesCapped ==
  \A c \in Conv :
    /\ attempts[c] <= MaxAttempts
    /\ job[c] = "pending" => attempts[c] < MaxAttempts
    /\ job[c] = "dead" => attempts[c] = MaxAttempts

(* With one worker, an insight wiped on demand after the audio was erased  *)
(* stays wiped: no retry or operator re-queue can bring it back.           *)
WipeAfterPurgeIsFinal ==
  [][\A c \in Conv : vault[c] = "purged" /\ ~insight[c] => ~insight'[c]]_vars

(* The recording, the outbox sequence and the insight row, seen as the     *)
(* custody chain.  An unfinished erasure already counts as destroyed:      *)
(* no later pass can stage the recording.                                  *)
Custody ==
  INSTANCE ConversationCustody WITH
    recording <- [c \in Conv |-> CASE vault[c] = "none" -> "absent"
                                   [] vault[c] = "stored" -> "held"
                                   [] OTHER -> "destroyed"],
    releases <- released,
    readable <- insight

(* One worker implements the custody chain (ConversationCustody.Spec).     *)
CustodySpec == Custody!Spec

(* A leased row nobody is working on: what a crash leaves behind.          *)
Stranded(c) == job[c] = "leased" /\ \A w \in Worker : holds[w] # c

(* ... a Crash being the death of a worker or an exception that leaves     *)
(* process_one past its except clause.  By nothing else: until then a      *)
(* leased row is in some worker's hands, whichever step of the try block   *)
(* fails and however the workers compete (worker.process_one fails every   *)
(* job it does not complete).                                              *)
StrandedOnlyByCrash == \A c \in Conv : Stranded(c) => crashes > 0

(* Every queued job is eventually done or dead, or stranded by a crash:    *)
(* retries end, and no job waits for ever behind others.                   *)
JobsSettle ==
  \A c \in Conv :
    job[c] \in {"pending", "leased"} ~> job[c] \in {"done", "dead"} \/ Stranded(c)

(* The outbox is emptied again and again: every committed event is fanned  *)
(* out in the end, also when the worker dies between the commit and its    *)
(* own dispatch or more than FanOutLimit events wait: run_forever's idle   *)
(* passes pick them up (worker.run_forever, delivery.fan_out).             *)
EventsFanOut == []<>(Unfanned = {})

(* What holds between the steps, strong enough to be inductive.  The proof *)
(* of NoRecordingLost, DoneIsComplete and OneJobPerRef rests on it.        *)

(* Nothing exists for an id before uuid4 draws it.                         *)
UndrawnInv == \A c \in Conv \ drawn : vault[c] = "none" /\ job[c] = "none"

(* What submit has done so far for the upload in hand.                     *)
GatewayInv ==
  gwPc # "idle" =>
    /\ gwConv \in drawn
    /\ gwPc = "writing" => vault[gwConv] = "none"
    /\ gwPc # "acking" => job[gwConv] = "none"
    /\ gwPc \in {"consenting", "indexing", "enqueueing"} => vault[gwConv] = "stored"
    /\ gwPc \in {"indexing", "enqueueing"} => gwConv \in consented
    /\ gwPc = "indexing" => refOf[gwConv] \in Ref
    /\ refOf[gwConv] \in Ref =>
         /\ gwPc \in {"writing", "consenting", "indexing"} => idem[refOf[gwConv]] = NoConv
         /\ gwPc = "enqueueing" => idem[refOf[gwConv]] = gwConv

(* A job with a client_ref is the one the idempotency table names.         *)
RefInv ==
  \A c \in Conv : job[c] # "none" /\ refOf[c] \in Ref => idem[refOf[c]] = c

(* Where process_one stands once a step is behind it, the last step first. *)
PastInsight   == {"dispatching", "completing"}
PastDeletion  == PastInsight \cup {"auditing insight"}
PastMeter     == PastDeletion \cup {"auditing deletion"}
PastPurge     == PastMeter \cup {"metering"}
PastSave      == PastPurge \cup {"purging"}

(* What process_one has done so far for the row worker w dequeued.         *)
StepsDone(w) ==
  /\ pc[w] \notin {"idle", "down"} => holds[w] \in Conv /\ job[holds[w]] # "none"
  /\ pc[w] \in PastSave => released[holds[w]] > 0
  /\ pc[w] \in PastPurge => vault[holds[w]] = "purged"
  /\ pc[w] \in PastMeter => metered[holds[w]] > 0
  /\ pc[w] \in PastDeletion => "audio_deleted" \in trail[holds[w]]
  /\ pc[w] \in PastInsight => "insight_stored" \in trail[holds[w]]

WorkerInv == \A w \in Worker : StepsDone(w)

Inv ==
  /\ TypeOK
  /\ UndrawnInv
  /\ GatewayInv
  /\ RefInv
  /\ WorkerInv
  /\ NoRecordingLost
  /\ DoneIsComplete

(* The proof of StrandedOnlyByCrash rests on this: to take a job up is not *)
(* to let go of another one.                                               *)
HandsInv ==
  /\ StrandedOnlyByCrash
  /\ \A w \in Worker : pc[w] \in {"idle", "down"} => holds[w] = NoConv

(* With one worker more is known.  The proofs of CopyDiesFirst, RetriesCapped,*)
(* MeteredAtMostOnce, WipeAfterPurgeIsFinal and CustodySpec rest on it.    *)
OneWorker == \A v, w \in Worker : v = w

(* The row in hand is the worker's alone: nobody re-arms it, counts its    *)
(* attempts or touches its recording meanwhile.                            *)
Alone(w) ==
  /\ pc[w] = "leasing" => job[holds[w]] = "pending" /\ lease[w] = attempts[holds[w]] + 1
  /\ pc[w] \in TryBlock \cup {"failing"} =>
       job[holds[w]] = "leased" /\ lease[w] = attempts[holds[w]]
  /\ pc[w] \in {"copying", "running", "saving", "purging"} => vault[holds[w]] = "stored"
  /\ pc[w] \in {"saving", "purging"} => holds[w] \notin work
  /\ pc[w] = "metering" => metered[holds[w]] = 0

(* A row counts no attempt before it is a job, and a recording is metered  *)
(* only once it is erased, so no later pass gets as far.                   *)
AloneInv ==
  /\ \A w \in Worker : Alone(w)
  /\ \A c \in Conv : job[c] = "none" => attempts[c] = 0
  /\ \A c \in Conv : metered[c] > 0 => vault[c] = "purged"
  /\ CopyDiesFirst
  /\ RetriesCapped
  /\ MeteredAtMostOnce

(* Claims of the code and its documents that its behaviours refute.        *)

(* app.py:354 answers {"status": "queued"}: what was acknowledged has a job. *)
AcknowledgedIsQueued == \A c \in acked : job[c] # "none"

(* queueing.py:1 "Durable processing queue": every job is settled in the   *)
(* end, whatever happens to the worker.                                    *)
EveryJobSettles ==
  \A c \in Conv : job[c] \in {"pending", "leased"} ~> job[c] \in {"done", "dead"}

(* BUILD-MAP.md:96 "deletion is audited": once the queue is finished with  *)
(* a conversation, an erased recording has its audit entry.                *)
DeletionIsAudited ==
  \A c \in Conv :
    vault[c] = "purged" /\ job[c] \in {"done", "dead"} => "audio_deleted" \in trail[c]
=============================================================================
