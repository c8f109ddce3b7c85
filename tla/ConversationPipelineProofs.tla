--------------------- MODULE ConversationPipelineProofs ---------------------
(***************************************************************************)
(* Proofs about ConversationPipeline, for any sets of conversations,       *)
(* client_refs and workers and any bounds: whatever the interleaving, the  *)
(* failures and the crashes, no recording is lost, a finished job is       *)
(* complete, and a client_ref has one job.                                 *)
(*                                                                         *)
(* The inductive invariant is ConversationPipeline!Inv.  Two facts carry   *)
(* the argument: what has been done for a conversation stays done (Kept),  *)
(* and until a job exists only the gateway touches its conversation        *)
(* (WorkersKeepOut).  A lease nobody holds was left by a crash: HandsInv   *)
(* follows every id from the queue to the worker that took it.             *)
(*                                                                         *)
(* The second part is about the pipeline as it is deployed, with one       *)
(* worker and the gateway: no raw copy outlives the originals, the         *)
(* attempts on a row tell the truth, a conversation is metered at most     *)
(* once, a wipe after the erasure is final, and the pipeline implements    *)
(* ConversationCustody.  The inductive invariant is AloneInv beside Inv.   *)
(* The gateway never touches a row that a worker holds (GatewayKeepsOut),  *)
(* so what the worker read when it dequeued the row stays true until it    *)
(* returns.                                                                *)
(***************************************************************************)
EXTENDS ConversationPipeline, TLAPS

(* The upload in hand has a conversation id. *)
LEMMA InHand == ASSUME Inv, gwPc # "idle" PROVE gwConv \in Conv
BY DEF Inv, TypeOK, GatewayInv

(* A worker at work holds the row of a conversation. *)
LEMMA Dequeued ==
  ASSUME Inv, NEW w \in Worker, pc[w] \notin {"idle", "down"}
  PROVE  holds[w] \in Conv /\ job[holds[w]] # "none"
BY DEF Inv, WorkerInv, StepsDone

(* The invariant holds of the empty tables a deployment starts from. *)
LEMMA InvInit == Init => Inv
<1> SUFFICES ASSUME Init PROVE Inv
  OBVIOUS
<1>1. TypeOK
  BY ConstantsAssumption DEF Init, TypeOK, GatewayPc, JobStatus, WorkerPc
<1>2. UndrawnInv /\ GatewayInv /\ RefInv /\ NoRecordingLost /\ DoneIsComplete
  BY DEF Init, UndrawnInv, GatewayInv, RefInv, NoRecordingLost, DoneIsComplete
<1>3. WorkerInv
  BY DEF Init, WorkerInv, StepsDone, PastInsight, PastDeletion, PastMeter,
     PastPurge, PastSave
<1> QED
  BY <1>1, <1>2, <1>3 DEF Inv

-----------------------------------------------------------------------------
(* Type correctness of the gateway's steps. *)
LEMMA TypeGateway == Inv /\ GatewayNext => TypeOK'
<1> SUFFICES ASSUME Inv, GatewayNext PROVE TypeOK'
  OBVIOUS
<1> USE DEF GatewayPc, JobStatus,
      gwVars, storeVars, queueVars, audioVars, workerVars, boundVars
<1>1. TypeOK
  BY DEF Inv
<1>2. ASSUME NEW c \in Conv, NEW r \in Ref \cup {NoRef}, SubmitNew(c, r)
      PROVE  TypeOK'
  BY <1>1, <1>2 DEF TypeOK, SubmitNew
<1>3. ASSUME NEW r \in Ref, SubmitDuplicate(r) PROVE TypeOK'
  BY <1>1, <1>3 DEF TypeOK, SubmitDuplicate
<1>4. CASE WriteAudio
  BY <1>1, <1>4, InHand DEF TypeOK, WriteAudio
<1>5. CASE LogConsent
  BY <1>1, <1>5, InHand DEF TypeOK, LogConsent
<1>6. CASE IndexRef
  <2>1. idem \in [Ref -> Conv \cup {NoConv}]
    BY <1>1 DEF TypeOK
  <2>2. gwConv \in Conv
    BY <1>6, InHand DEF IndexRef
  <2>3. idem' \in [Ref -> Conv \cup {NoConv}]
    BY <1>6, <2>1, <2>2 DEF IndexRef
  <2> QED
    BY <1>1, <1>6, <2>3 DEF TypeOK, IndexRef
<1>7. CASE Enqueue
  <2>1. lastId \in Nat /\ jobId \in [Conv -> Nat]
    BY <1>1 DEF TypeOK
  <2>2. lastId' \in Nat
    BY <1>7, <2>1 DEF Enqueue
  <2>3. jobId' \in [Conv -> Nat]
    BY <1>7, <2>1, <2>2 DEF Enqueue
  <2>4. job' \in [Conv -> JobStatus]
    BY <1>1, <1>7 DEF TypeOK, Enqueue
  <2> QED
    BY <1>1, <1>7, <2>2, <2>3, <2>4 DEF TypeOK, Enqueue
<1>8. CASE Acknowledge
  BY <1>1, <1>8, InHand DEF TypeOK, Acknowledge
<1>9. CASE SubmitAborts
  BY <1>1, <1>9 DEF TypeOK, SubmitAborts
<1>10. ASSUME NEW c \in Conv, DeleteOnDemand(c) PROVE TypeOK'
  BY <1>1, <1>10 DEF TypeOK, DeleteOnDemand
<1>11. ASSUME NEW c \in Conv, RequeueDead(c) PROVE TypeOK'
  <2>1. requeues \in Nat
    BY <1>1 DEF TypeOK
  <2>2. requeues' \in Nat
    BY <1>11, <2>1 DEF RequeueDead
  <2>3. job' \in [Conv -> JobStatus] /\ attempts' \in [Conv -> Nat]
    BY <1>1, <1>11 DEF TypeOK, RequeueDead
  <2> QED
    BY <1>1, <1>11, <2>2, <2>3 DEF TypeOK, RequeueDead
<1> QED
  BY <1>2, <1>3, <1>4, <1>5, <1>6, <1>7, <1>8, <1>9, <1>10, <1>11 DEF GatewayNext

(* What is fanned out are events. *)
LEMMA FannedTyped == ASSUME TypeOK, FanOut PROVE fanned' \subseteq Conv \X Nat
<1>1. Unfanned \subseteq Conv \X Nat
  BY DEF Unfanned, TypeOK
<1>2. fanned \subseteq Conv \X Nat
  BY DEF TypeOK
<1>3. PICK batch \in SUBSET Unfanned : fanned' = fanned \cup batch
  BY DEF FanOut
<1> QED
  BY <1>1, <1>2, <1>3

(* Type correctness of the workers' steps. *)
LEMMA TypeWorker == Inv /\ WorkerNext => TypeOK'
<1> SUFFICES ASSUME Inv, NEW w \in Worker, WorkerStep(w) \/ StepRaises(w) \/ Crash(w)
             PROVE  TypeOK'
  BY DEF WorkerNext
<1> USE DEF WorkerPc, TryBlock,
      gwVars, storeVars, queueVars, audioVars, workerVars, boundVars
<1>1. TypeOK
  BY DEF Inv
<1>2. CASE Peek(w)
  <2>1. lease \in [Worker -> Nat] /\ attempts \in [Conv -> Nat]
    BY <1>1 DEF TypeOK
  <2>2. lease' \in [Worker -> Nat]
    BY <1>2, <2>1 DEF Peek
  <2>3. holds' \in [Worker -> Conv \cup {NoConv}] /\ pc' \in [Worker -> WorkerPc]
    BY <1>1, <1>2 DEF TypeOK, Peek
  <2> QED
    BY <1>1, <1>2, <2>2, <2>3 DEF TypeOK, Peek
<1>3. CASE Lease(w)
  <2>1. attempts \in [Conv -> Nat]
    BY <1>1 DEF TypeOK
  <2>2. attempts' \in [Conv -> Nat]
    BY <1>3, <2>1, Dequeued DEF Lease
  <2>3. job' \in [Conv -> JobStatus] /\ pc' \in [Worker -> WorkerPc]
    BY <1>1, <1>3, Dequeued DEF TypeOK, Lease, JobStatus
  <2> QED
    BY <1>1, <1>3, <2>2, <2>3 DEF TypeOK, Lease
<1>4. CASE Stage(w) \/ CopyToWork(w)
  BY <1>1, <1>4, Dequeued DEF TypeOK, Stage, CopyToWork, Advance, After
<1>5. CASE StageMissing(w)
  BY <1>1, <1>5 DEF TypeOK, StageMissing
<1>6. CASE RunPipeline(w)
  BY <1>1, <1>6 DEF TypeOK, RunPipeline, Advance, After
<1>7. CASE Save(w)
  <2>1. released \in [Conv -> Nat] /\ holds[w] \in Conv
    BY <1>1, <1>7, Dequeued DEF TypeOK, Save
  <2>2. released' \in [Conv -> Nat]
    BY <1>7, <2>1 DEF Save
  <2>3. insight' \in [Conv -> BOOLEAN] /\ pc' \in [Worker -> WorkerPc]
    BY <1>1, <1>7, Dequeued DEF TypeOK, Save, Advance, After
  <2> QED
    BY <1>1, <1>7, <2>2, <2>3 DEF TypeOK, Save
<1>8. CASE Purge(w)
  BY <1>1, <1>8 DEF TypeOK, Purge, Advance, After
<1>9. CASE Meter(w)
  <2>1. metered \in [Conv -> Nat] /\ holds[w] \in Conv
    BY <1>1, <1>9, Dequeued DEF TypeOK, Meter
  <2>2. metered' \in [Conv -> Nat]
    BY <1>9, <2>1 DEF Meter
  <2>3. pc' \in [Worker -> WorkerPc]
    BY <1>1, <1>9 DEF TypeOK, Meter, Advance, After
  <2> QED
    BY <1>1, <1>9, <2>2, <2>3 DEF TypeOK, Meter
<1>10. CASE AuditStep(w)
  <2>1. trail \in [Conv -> SUBSET AuditEvent]
    BY <1>1 DEF TypeOK
  <2>2. PICK event, c : event \in AuditEvent /\ trail' = [trail EXCEPT ![c] = trail[c] \cup {event}]
    <3>1. "audio_deleted" \in AuditEvent /\ "insight_stored" \in AuditEvent
      BY DEF AuditEvent
    <3> QED
      BY <1>10, <3>1, Zenon DEF AuditStep, Audit
  <2>3. trail' \in [Conv -> SUBSET AuditEvent]
    BY <2>1, <2>2
  <2>4. pc' \in [Worker -> WorkerPc]
    BY <1>1, <1>10, Dequeued DEF TypeOK, AuditStep, Advance, After
  <2> QED
    BY <1>1, <1>10, <2>3, <2>4 DEF TypeOK, AuditStep
<1>11. CASE Dispatch(w)
  BY <1>1, <1>11, FannedTyped DEF TypeOK, Dispatch, Advance, After
<1>12. CASE Complete(w)
  BY <1>1, <1>12 DEF TypeOK, Complete, Return, JobStatus
<1>13. CASE Fail(w)
  BY <1>1, <1>13 DEF TypeOK, Fail, Return, JobStatus
<1>14. CASE IdleDispatch(w)
  BY <1>1, <1>14, FannedTyped DEF TypeOK, IdleDispatch
<1>15. CASE Restart(w)
  BY <1>1, <1>15 DEF TypeOK, Restart
<1>16. ASSUME StepRaises(w) \/ Crash(w)
       PROVE  /\ vault' \in [Conv -> {"none", "stored", "torn", "purged"}]
              /\ work' \subseteq Conv
  <2>1. vault \in [Conv -> {"none", "stored", "torn", "purged"}] /\ work \subseteq Conv
    BY <1>1 DEF TypeOK
  <2>2. pc[w] \notin {"idle", "down"}
    BY <1>16 DEF StepRaises, Crash
  <2>3. holds[w] \in Conv
    BY <2>2, Dequeued
  <2> QED
    BY <1>16, <2>1, <2>3 DEF StepRaises, Crash, CutShort
<1>17. CASE StepRaises(w)
  BY <1>1, <1>16, <1>17 DEF TypeOK, StepRaises
<1>18. CASE Crash(w)
  <2>1. crashes \in Nat /\ lease \in [Worker -> Nat]
    BY <1>1 DEF TypeOK
  <2>2. crashes' \in Nat /\ lease' \in [Worker -> Nat]
    BY <1>18, <2>1 DEF Crash, Return
  <2>3. holds' \in [Worker -> Conv \cup {NoConv}] /\ pc' \in [Worker -> WorkerPc]
    BY <1>1, <1>18 DEF TypeOK, Crash, Return
  <2> QED
    BY <1>1, <1>16, <1>18, <2>2, <2>3 DEF TypeOK, Crash
<1> QED
  BY <1>2, <1>3, <1>4, <1>5, <1>6, <1>7, <1>8, <1>9, <1>10, <1>11, <1>12, <1>13,
     <1>14, <1>15, <1>17, <1>18 DEF WorkerStep

-----------------------------------------------------------------------------
(* What has been done for a conversation stays done.                       *)
Kept ==
  \A c \in Conv :
    /\ job[c] # "none" => job'[c] # "none"
    /\ released[c] > 0 => released'[c] > 0
    /\ vault[c] = "purged" => vault'[c] = "purged"
    /\ metered[c] > 0 => metered'[c] > 0
    /\ trail[c] \subseteq trail'[c]

(* ... by the gateway's steps. *)
LEMMA KeptByGateway == Inv /\ GatewayNext => Kept
<1> SUFFICES ASSUME Inv, GatewayNext PROVE Kept
  OBVIOUS
<1> USE DEF gwVars, storeVars, queueVars, audioVars, workerVars, boundVars
<1>1. CASE WriteAudio
  <2>1. vault[gwConv] = "none"
    BY <1>1 DEF Inv, GatewayInv, WriteAudio
  <2> QED
    BY <1>1, <2>1 DEF Inv, TypeOK, Kept, WriteAudio
<1>2. CASE Enqueue
  BY <1>2 DEF Inv, TypeOK, Kept, Enqueue
<1>3. ASSUME NEW c \in Conv, RequeueDead(c) PROVE Kept
  BY <1>3 DEF Inv, TypeOK, Kept, RequeueDead
<1>4. CASE UNCHANGED <<job, released, vault, metered, trail>>
  BY <1>4 DEF Kept
<1> QED
  BY <1>1, <1>2, <1>3, <1>4 DEF GatewayNext, SubmitNew, SubmitDuplicate, LogConsent,
     IndexRef, Acknowledge, SubmitAborts, DeleteOnDemand

(* ... and by the workers'. *)
LEMMA KeptByWorker == Inv /\ WorkerNext => Kept
<1> SUFFICES ASSUME Inv, NEW w \in Worker, WorkerStep(w) \/ StepRaises(w) \/ Crash(w)
             PROVE  Kept
  BY DEF WorkerNext
<1> USE DEF gwVars, storeVars, queueVars, audioVars, workerVars, boundVars
<1>1. CASE Lease(w)
  BY <1>1 DEF Inv, TypeOK, Kept, Lease
<1>2. CASE Save(w)
  <2>1. released \in [Conv -> Nat]
    BY DEF Inv, TypeOK
  <2>2. \A c \in Conv : released[c] > 0 => released'[c] > 0
    BY <1>2, <2>1 DEF Save
  <2> QED
    BY <1>2, <2>2 DEF Kept, Save
<1>3. CASE Purge(w)
  BY <1>3 DEF Inv, TypeOK, Kept, Purge
<1>4. CASE Meter(w)
  <2>1. metered \in [Conv -> Nat]
    BY DEF Inv, TypeOK
  <2>2. \A c \in Conv : metered[c] > 0 => metered'[c] > 0
    BY <1>4, <2>1 DEF Meter
  <2> QED
    BY <1>4, <2>2 DEF Kept, Meter
<1>5. CASE AuditStep(w)
  <2>1. trail \in [Conv -> SUBSET AuditEvent]
    BY DEF Inv, TypeOK
  <2>2. \A c \in Conv : trail[c] \subseteq trail'[c]
    BY <1>5, <2>1 DEF AuditStep, Audit
  <2> QED
    BY <1>5, <2>2 DEF Kept, AuditStep
<1>6. CASE Dispatch(w)
  BY <1>6 DEF Kept, Dispatch
<1>7. CASE IdleDispatch(w)
  BY <1>7 DEF Kept, IdleDispatch
<1>8. CASE Complete(w) \/ Fail(w)
  BY <1>8 DEF Inv, TypeOK, Kept, Complete, Fail
<1>9. CASE StepRaises(w) \/ Crash(w)
  BY <1>9 DEF Inv, TypeOK, Kept, StepRaises, Crash, CutShort
<1>10. CASE Stage(w) \/ StageMissing(w) \/ CopyToWork(w) \/ RunPipeline(w)
  BY <1>10 DEF Kept, Stage, StageMissing, CopyToWork, RunPipeline
<1>11. CASE UNCHANGED <<job, released, vault, metered, trail>>
  BY <1>11 DEF Kept
<1> QED
  BY <1>1, <1>2, <1>3, <1>4, <1>5, <1>6, <1>7, <1>8, <1>9, <1>10, <1>11
     DEF WorkerStep, Peek, Restart

(* A worker that does not move keeps its facts. *)
LEMMA OtherWorker ==
  ASSUME Kept, NEW w \in Worker, StepsDone(w), pc'[w] = pc[w], holds'[w] = holds[w]
  PROVE  StepsDone(w)'
BY DEF Kept, StepsDone, PastInsight, PastDeletion, PastMeter, PastPurge, PastSave

(* The gateway leaves every worker's record of its steps true. *)
LEMMA WorkerByGateway == Inv /\ GatewayNext => WorkerInv'
<1> SUFFICES ASSUME Inv, GatewayNext PROVE WorkerInv'
  OBVIOUS
<1>1. Kept
  BY KeptByGateway
<1>2. pc' = pc /\ holds' = holds
  BY DEF GatewayNext, SubmitNew, SubmitDuplicate, WriteAudio, LogConsent, IndexRef,
     Enqueue, Acknowledge, SubmitAborts, DeleteOnDemand, RequeueDead, workerVars
<1>3. \A w \in Worker : StepsDone(w)
  BY DEF Inv, WorkerInv
<1>4. \A w \in Worker : StepsDone(w)'
  BY <1>1, <1>2, <1>3, OtherWorker
<1> QED
  BY <1>4 DEF WorkerInv

(* Each step of a worker adds the fact its new pc promises. *)
LEMMA WorkerByWorker == Inv /\ WorkerNext => WorkerInv'
<1> SUFFICES ASSUME Inv, NEW w \in Worker, WorkerStep(w) \/ StepRaises(w) \/ Crash(w)
             PROVE  WorkerInv'
  BY DEF WorkerNext
<1>1. Kept
  BY KeptByWorker DEF WorkerNext
<1>2. \A v \in Worker : StepsDone(v)
  BY DEF Inv, WorkerInv
<1>3. pc \in [Worker -> WorkerPc] /\ holds \in [Worker -> Conv \cup {NoConv}]
  BY DEF Inv, TypeOK
<1>4. \A v \in Worker \ {w} : pc'[v] = pc[v] /\ holds'[v] = holds[v]
  BY <1>3 DEF WorkerStep, Peek, Lease, Stage, StageMissing, CopyToWork, RunPipeline, Save, Purge,
     Meter, AuditStep, Dispatch, Complete, Fail, IdleDispatch, Restart, StepRaises,
     Crash, Advance, Return, workerVars
<1>5. \A v \in Worker \ {w} : StepsDone(v)'
  BY <1>1, <1>2, <1>4, OtherWorker
<1>6. StepsDone(w)'
  <2> USE <1>3 DEF StepsDone, PastInsight, PastDeletion, PastMeter, PastPurge,
        PastSave, TryBlock
  <2>1. StepsDone(w)
    BY <1>2
  <2>2. CASE Peek(w)
    BY <2>2 DEF Peek, OldestPending, queueVars
  <2>3. CASE Lease(w)
    BY <1>1, <2>1, <2>3 DEF Lease, Kept
  <2>4. CASE Stage(w) \/ StageMissing(w) \/ CopyToWork(w) \/ RunPipeline(w)
    BY <1>1, <2>1, <2>4 DEF Stage, StageMissing, CopyToWork, RunPipeline, Advance, After, Kept
  <2>5. CASE Save(w)
    <3>1. released \in [Conv -> Nat] /\ holds[w] \in Conv
      BY <2>1, <2>5 DEF Inv, TypeOK, Save
    <3>2. released'[holds[w]] > 0
      BY <2>5, <3>1 DEF Save
    <3>3. pc'[w] = "purging" /\ holds' = holds /\ job' = job
      BY <2>5 DEF Save, Advance, After, queueVars
    <3> QED
      BY <2>1, <2>5, <3>2, <3>3 DEF Save
  <2>6. CASE Purge(w)
    <3>1. vault'[holds[w]] = "purged"
      BY <2>1, <2>6 DEF Inv, TypeOK, Purge
    <3>2. pc'[w] = "metering" /\ holds' = holds
      BY <2>6 DEF Purge, Advance, After
    <3> QED
      BY <1>1, <2>1, <2>6, <3>1, <3>2 DEF Purge, Kept
  <2>7. CASE Meter(w)
    <3>1. metered \in [Conv -> Nat] /\ holds[w] \in Conv
      BY <2>1, <2>7 DEF Inv, TypeOK, Meter
    <3>2. metered'[holds[w]] > 0
      BY <2>7, <3>1 DEF Meter
    <3>3. pc'[w] = "auditing deletion" /\ holds' = holds
      BY <2>7 DEF Meter, Advance, After
    <3> QED
      BY <1>1, <2>1, <2>7, <3>2, <3>3 DEF Meter, Kept
  <2>8. CASE AuditStep(w)
    <3>1. trail \in [Conv -> SUBSET AuditEvent] /\ holds[w] \in Conv
      BY <2>1, <2>8 DEF Inv, TypeOK, AuditStep
    <3>2. \/ /\ pc[w] = "auditing deletion" /\ pc'[w] = "auditing insight"
             /\ "audio_deleted" \in trail'[holds[w]]
          \/ /\ pc[w] = "auditing insight" /\ pc'[w] = "dispatching"
             /\ "insight_stored" \in trail'[holds[w]]
      BY <2>8, <3>1 DEF AuditStep, Audit, Advance, After
    <3>3. holds' = holds
      BY <2>8 DEF AuditStep
    <3> QED
      BY <1>1, <2>1, <3>1, <3>2, <3>3 DEF Kept
  <2>9. CASE Dispatch(w)
    BY <1>1, <2>1, <2>9 DEF Dispatch, Advance, After, Kept
  <2>10. CASE Complete(w) \/ Fail(w) \/ Crash(w)
    BY <2>10 DEF Complete, Fail, Crash, Return
  <2>11. CASE IdleDispatch(w) \/ Restart(w)
    BY <2>11 DEF IdleDispatch, Restart, workerVars
  <2>12. CASE StepRaises(w)
    BY <1>1, <2>1, <2>12 DEF StepRaises, Kept
  <2> QED
    BY <2>2, <2>3, <2>4, <2>5, <2>6, <2>7, <2>8, <2>9, <2>10, <2>11, <2>12 DEF WorkerStep
<1> QED
  BY <1>5, <1>6 DEF WorkerInv

(* Only Complete marks a job done, and its worker has done everything.     *)
LEMMA DoneStep == Inv /\ Next => DoneIsComplete'
<1> SUFFICES ASSUME Inv, Next, NEW c \in Conv, job'[c] = "done"
             PROVE  /\ released'[c] > 0 /\ metered'[c] > 0
                    /\ vault'[c] = "purged"
                    /\ {"audio_deleted", "insight_stored"} \subseteq trail'[c]
  BY DEF DoneIsComplete
<1>1. Kept
  BY KeptByGateway, KeptByWorker DEF Next
<1>2. CASE job[c] = "done"
  BY <1>1, <1>2 DEF Kept, Inv, DoneIsComplete
<1>3. CASE job[c] # "done"
  <2>0. job \in [Conv -> JobStatus]
    BY DEF Inv, TypeOK
  <2>1. PICK w \in Worker : Complete(w) /\ holds[w] = c
    <3>1. ~GatewayNext
      BY <1>3, <2>0 DEF GatewayNext, SubmitNew, SubmitDuplicate, WriteAudio, LogConsent,
         IndexRef, Enqueue, Acknowledge, SubmitAborts, DeleteOnDemand, RequeueDead, queueVars
    <3>2. PICK w \in Worker : WorkerStep(w) \/ StepRaises(w) \/ Crash(w)
      BY <3>1 DEF Next, WorkerNext
    <3> QED
      BY <1>3, <2>0, <3>2 DEF WorkerStep, Peek, Lease, Stage, StageMissing, CopyToWork,
         RunPipeline, Save, Purge, Meter, AuditStep, Dispatch, Complete, Fail, IdleDispatch,
         Restart, StepRaises, Crash, queueVars
  <2>2. /\ released[c] > 0 /\ metered[c] > 0
        /\ vault[c] = "purged"
        /\ {"audio_deleted", "insight_stored"} \subseteq trail[c]
    BY <2>1 DEF Inv, WorkerInv, StepsDone, Complete, PastInsight, PastDeletion,
       PastMeter, PastPurge, PastSave
  <2> QED
    BY <1>1, <2>2 DEF Kept
<1> QED
  BY <1>2, <1>3

-----------------------------------------------------------------------------
(* Until a job exists, only the gateway touches its conversation. *)
LEMMA WorkersKeepOut ==
  Inv /\ WorkerNext =>
    /\ UNCHANGED <<gwVars, idem, consented>>
    /\ \A c \in Conv : /\ job'[c] = "none" <=> job[c] = "none"
                       /\ job[c] = "none" => vault'[c] = vault[c]
<1> SUFFICES ASSUME Inv, NEW w \in Worker, WorkerStep(w) \/ StepRaises(w) \/ Crash(w)
             PROVE  /\ UNCHANGED <<gwVars, idem, consented>>
                    /\ \A c \in Conv : /\ job'[c] = "none" <=> job[c] = "none"
                                       /\ job[c] = "none" => vault'[c] = vault[c]
  BY DEF WorkerNext
<1> USE DEF WorkerStep, Peek, Lease, Stage, StageMissing, CopyToWork, RunPipeline, Save, Purge,
      Meter, AuditStep, Dispatch, Complete, Fail, IdleDispatch, Restart, StepRaises,
      Crash, CutShort, gwVars, storeVars, queueVars, audioVars
<1>1. UNCHANGED <<gwVars, idem, consented>>
  BY DEF vars
<1>2. job \in [Conv -> JobStatus] /\ vault \in [Conv -> {"none", "stored", "torn", "purged"}]
  BY DEF Inv, TypeOK
<1>3. ASSUME NEW c \in Conv PROVE job'[c] = "none" <=> job[c] = "none"
  BY <1>2, Dequeued DEF TryBlock
<1>4. ASSUME NEW c \in Conv, job[c] = "none" PROVE vault'[c] = vault[c]
  BY <1>2, <1>4, Dequeued DEF TryBlock
<1> QED
  BY <1>1, <1>3, <1>4

(* The gateway's own record, the ids not drawn and the ref index.          *)
LEMMA GatewayByWorker == Inv /\ WorkerNext => UndrawnInv' /\ GatewayInv' /\ RefInv'
<1> SUFFICES ASSUME Inv, WorkerNext PROVE UndrawnInv' /\ GatewayInv' /\ RefInv'
  OBVIOUS
<1>1. /\ gwPc' = gwPc /\ gwConv' = gwConv /\ refOf' = refOf /\ drawn' = drawn
      /\ idem' = idem /\ consented' = consented
      /\ \A c \in Conv : /\ job'[c] = "none" <=> job[c] = "none"
                         /\ job[c] = "none" => vault'[c] = vault[c]
  BY WorkersKeepOut DEF gwVars
<1>2. UndrawnInv'
  BY <1>1 DEF Inv, UndrawnInv
<1>3. GatewayInv'
  <2>1. gwPc # "idle" => gwConv \in Conv
    BY InHand
  <2> QED
    BY <1>1, <2>1 DEF Inv, GatewayInv, UndrawnInv, TypeOK, GatewayPc, NoRecordingLost
<1>4. RefInv'
  BY <1>1 DEF Inv, RefInv
<1> QED
  BY <1>2, <1>3, <1>4

(* An original is erased only by a worker past its commit. *)
LEMMA AudioByWorker == Inv /\ WorkerNext => NoRecordingLost'
<1> SUFFICES ASSUME Inv, NEW w \in Worker, WorkerStep(w) \/ StepRaises(w) \/ Crash(w)
             PROVE  NoRecordingLost'
  BY DEF WorkerNext
<1>1. Kept /\ consented' = consented /\ \A c \in Conv : job'[c] = "none" <=> job[c] = "none"
  BY KeptByWorker, WorkersKeepOut DEF WorkerNext
<1>2. vault \in [Conv -> {"none", "stored", "torn", "purged"}]
  BY DEF Inv, TypeOK
<1>3. pc[w] = "purging" => released[holds[w]] > 0
  BY DEF Inv, WorkerInv, StepsDone, PastSave, PastPurge, PastMeter, PastDeletion,
     PastInsight
<1>4. \A c \in Conv : vault'[c] = vault[c] \/ released[c] > 0
  BY <1>2, <1>3 DEF WorkerStep, Peek, Lease, Stage, StageMissing, CopyToWork, RunPipeline, Save,
     Purge, Meter, AuditStep, Dispatch, Complete, Fail, IdleDispatch, Restart,
     StepRaises, Crash, CutShort, audioVars
<1> QED
  BY <1>1, <1>4 DEF Inv, NoRecordingLost, Kept

(* The same four parts under the gateway's steps. *)
LEMMA UploadByGateway ==
  Inv /\ GatewayNext => UndrawnInv' /\ GatewayInv' /\ RefInv' /\ NoRecordingLost'
<1> DEFINE Goal == UndrawnInv /\ GatewayInv /\ RefInv /\ NoRecordingLost
<1> SUFFICES ASSUME Inv, GatewayNext PROVE Goal'
  OBVIOUS
<1> USE ConstantsAssumption DEF gwVars, storeVars, queueVars, audioVars
<1>1. ASSUME NEW c \in Conv, NEW r \in Ref \cup {NoRef}, SubmitNew(c, r)
      PROVE  Goal'
  <2>1. \A d \in Conv : refOf'[d] = IF d = c THEN r ELSE refOf[d]
    BY <1>1 DEF Inv, TypeOK, SubmitNew
  <2>2. UndrawnInv'
    BY <1>1, <2>1 DEF Inv, TypeOK, UndrawnInv, GatewayInv, SubmitNew
  <2>3. GatewayInv'
    BY <1>1, <2>1 DEF Inv, TypeOK, GatewayInv, UndrawnInv, SubmitNew
  <2>4. RefInv'
    BY <1>1, <2>1 DEF Inv, TypeOK, RefInv, UndrawnInv, GatewayInv, SubmitNew
  <2>5. NoRecordingLost'
    BY <1>1 DEF Inv, NoRecordingLost, SubmitNew
  <2> QED
    BY <2>2, <2>3, <2>4, <2>5
<1>2. ASSUME NEW r \in Ref, SubmitDuplicate(r) PROVE Goal'
  BY <1>2 DEF Inv, UndrawnInv, GatewayInv, RefInv, NoRecordingLost, SubmitDuplicate
<1>3. CASE WriteAudio
  <2>1. gwConv \in Conv
    BY <1>3, InHand DEF WriteAudio
  <2>2. \A d \in Conv : vault'[d] = IF d = gwConv THEN "stored" ELSE vault[d]
    BY <1>3, <2>1 DEF Inv, TypeOK, WriteAudio
  <2>3. UndrawnInv'
    BY <1>3, <2>1, <2>2 DEF Inv, TypeOK, UndrawnInv, GatewayInv, WriteAudio
  <2>4. GatewayInv'
    BY <1>3, <2>1, <2>2 DEF Inv, TypeOK, GatewayInv, UndrawnInv, WriteAudio
  <2>5. NoRecordingLost'
    BY <1>3, <2>1, <2>2 DEF Inv, TypeOK, NoRecordingLost, GatewayInv, WriteAudio
  <2>6. RefInv'
    BY <1>3 DEF Inv, RefInv, WriteAudio
  <2> QED
    BY <2>3, <2>4, <2>5, <2>6
<1>4. CASE LogConsent
  <2>1. gwConv \in Conv
    BY <1>4, InHand DEF LogConsent
  <2>2. GatewayInv'
    BY <1>4, <2>1 DEF Inv, TypeOK, GatewayInv, UndrawnInv, LogConsent
  <2>3. NoRecordingLost'
    BY <1>4, <2>1 DEF Inv, TypeOK, NoRecordingLost, GatewayInv, LogConsent
  <2>4. UndrawnInv' /\ RefInv'
    BY <1>4 DEF Inv, UndrawnInv, RefInv, LogConsent
  <2> QED
    BY <2>2, <2>3, <2>4
<1>5. CASE IndexRef
  <2>1. gwConv \in Conv
    BY <1>5, InHand DEF IndexRef
  <2>2. refOf[gwConv] \in Ref /\ idem[refOf[gwConv]] = NoConv
    BY <1>5, <2>1 DEF Inv, GatewayInv, IndexRef
  <2>3. \A d \in Ref : idem'[d] = IF d = refOf[gwConv] THEN gwConv ELSE idem[d]
    BY <1>5, <2>1, <2>2 DEF Inv, TypeOK, IndexRef
  <2>4. GatewayInv'
    BY <1>5, <2>1, <2>2, <2>3 DEF Inv, TypeOK, GatewayInv, UndrawnInv, IndexRef
  <2>5. RefInv'
    BY <1>5, <2>1, <2>2, <2>3 DEF Inv, TypeOK, RefInv, UndrawnInv, GatewayInv, IndexRef
  <2>6. UndrawnInv' /\ NoRecordingLost'
    BY <1>5 DEF Inv, UndrawnInv, NoRecordingLost, IndexRef
  <2> QED
    BY <2>4, <2>5, <2>6
<1>6. CASE Enqueue
  <2>1. gwConv \in Conv
    BY <1>6, InHand DEF Enqueue
  <2>2. \A d \in Conv : job'[d] = IF d = gwConv THEN "pending" ELSE job[d]
    BY <1>6, <2>1 DEF Inv, TypeOK, Enqueue
  <2>3. UndrawnInv'
    BY <1>6, <2>1, <2>2 DEF Inv, TypeOK, UndrawnInv, GatewayInv, Enqueue
  <2>4. GatewayInv'
    BY <1>6, <2>1, <2>2 DEF Inv, TypeOK, GatewayInv, UndrawnInv, Enqueue
  <2>5. RefInv'
    BY <1>6, <2>1, <2>2 DEF Inv, TypeOK, RefInv, UndrawnInv, GatewayInv, Enqueue
  <2>6. NoRecordingLost'
    BY <1>6, <2>1, <2>2 DEF Inv, TypeOK, NoRecordingLost, GatewayInv, Enqueue
  <2> QED
    BY <2>3, <2>4, <2>5, <2>6
<1>7. CASE Acknowledge
  <2>1. GatewayInv'
    BY <1>7 DEF Inv, TypeOK, GatewayInv, UndrawnInv, Acknowledge
  <2>2. UndrawnInv' /\ RefInv' /\ NoRecordingLost'
    BY <1>7 DEF Inv, UndrawnInv, RefInv, NoRecordingLost, Acknowledge
  <2> QED
    BY <2>1, <2>2
<1>8. CASE SubmitAborts
  <2>1. GatewayInv'
    BY <1>8 DEF Inv, TypeOK, GatewayInv, UndrawnInv, SubmitAborts
  <2>2. UndrawnInv' /\ RefInv' /\ NoRecordingLost'
    BY <1>8 DEF Inv, UndrawnInv, RefInv, NoRecordingLost, SubmitAborts
  <2> QED
    BY <2>1, <2>2
<1>9. ASSUME NEW c \in Conv, DeleteOnDemand(c) PROVE Goal'
  BY <1>9 DEF Inv, UndrawnInv, GatewayInv, RefInv, NoRecordingLost, DeleteOnDemand
<1>10. ASSUME NEW c \in Conv, RequeueDead(c) PROVE Goal'
  <2>1. \A d \in Conv : job'[d] = IF d = c THEN "pending" ELSE job[d]
    BY <1>10 DEF Inv, TypeOK, RequeueDead
  <2>2. UndrawnInv'
    BY <1>10, <2>1 DEF Inv, TypeOK, UndrawnInv, GatewayInv, RequeueDead
  <2>3. GatewayInv'
    BY <1>10, <2>1 DEF Inv, TypeOK, GatewayInv, UndrawnInv, RequeueDead
  <2>4. RefInv'
    BY <1>10, <2>1 DEF Inv, TypeOK, RefInv, UndrawnInv, GatewayInv, RequeueDead
  <2>5. NoRecordingLost'
    BY <1>10, <2>1 DEF Inv, TypeOK, NoRecordingLost, GatewayInv, RequeueDead
  <2> QED
    BY <2>2, <2>3, <2>4, <2>5
<1> QED
  BY <1>1, <1>2, <1>3, <1>4, <1>5, <1>6, <1>7, <1>8, <1>9, <1>10 DEF GatewayNext

-----------------------------------------------------------------------------
(* Every step of the gateway or of a worker keeps the invariant. *)
LEMMA InvNext == Inv /\ [Next]_vars => Inv'
<1> SUFFICES ASSUME Inv, [Next]_vars PROVE Inv'
  OBVIOUS
<1>1. CASE Next
  <2>1. TypeOK' /\ WorkerInv'
    BY <1>1, TypeGateway, TypeWorker, WorkerByGateway, WorkerByWorker DEF Next
  <2>2. UndrawnInv' /\ GatewayInv' /\ RefInv' /\ NoRecordingLost'
    BY <1>1, UploadByGateway, GatewayByWorker, AudioByWorker DEF Next
  <2>3. DoneIsComplete'
    BY <1>1, <2>2, DoneStep
  <2> QED
    BY <2>1, <2>2, <2>3 DEF Inv
<1>2. CASE UNCHANGED vars
  BY <1>2 DEF vars, gwVars, storeVars, queueVars, audioVars, workerVars, boundVars,
     Inv, TypeOK, UndrawnInv, GatewayInv, RefInv, WorkerInv, StepsDone,
     NoRecordingLost, DoneIsComplete
<1> QED
  BY <1>1, <1>2

(* Inv is an invariant of the pipeline: the facts each step of the gateway *)
(* and of every worker may rely on.                                        *)
THEOREM Invariance == Spec => []Inv
  BY InvInit, InvNext, PTL DEF Spec

(* Every variable keeps its type. *)
THEOREM TypeCorrect == Spec => []TypeOK
<1>1. Inv => TypeOK
  BY DEF Inv
<1> QED
  BY Invariance, <1>1, PTL

(* No retry, crash or competing worker loses a recording before its        *)
(* insight and event are committed.                                        *)
THEOREM RecordingsKept == Spec => []NoRecordingLost
<1>1. Inv => NoRecordingLost
  BY DEF Inv
<1> QED
  BY Invariance, <1>1, PTL

(* A job marked done has its event committed, its originals erased and     *)
(* both facts on the audit trail, whatever other workers do to its row.    *)
THEOREM DoneJobsComplete == Spec => []DoneIsComplete
<1>1. Inv => DoneIsComplete
  BY DEF Inv
<1> QED
  BY Invariance, <1>1, PTL

(* One client_ref never has two jobs, however often a device retries. *)
THEOREM RefsIdempotent == Spec => []OneJobPerRef
<1>1. Inv => OneJobPerRef
  BY DEF Inv, RefInv, OneJobPerRef
<1> QED
  BY Invariance, <1>1, PTL

-----------------------------------------------------------------------------
(* A worker between two jobs holds none. *)
LEMMA HandsEmpty ==
  Inv /\ HandsInv /\ [Next]_vars =>
    \A w \in Worker : pc'[w] \in {"idle", "down"} => holds'[w] = NoConv
<1> SUFFICES ASSUME Inv, HandsInv, [Next]_vars, NEW w \in Worker, pc'[w] \in {"idle", "down"}
             PROVE  holds'[w] = NoConv
  OBVIOUS
<1>0. /\ pc \in [Worker -> WorkerPc] /\ holds \in [Worker -> Conv \cup {NoConv}]
      /\ pc[w] \in {"idle", "down"} => holds[w] = NoConv
  BY DEF Inv, TypeOK, HandsInv
<1>1. CASE UNCHANGED <<pc, holds>>
  BY <1>0, <1>1
<1>2. ASSUME NEW v \in Worker, Complete(v) \/ Fail(v) \/ Crash(v) PROVE holds'[w] = NoConv
  BY <1>0, <1>2 DEF Complete, Fail, Crash, Return
<1>3. ASSUME NEW v \in Worker, Peek(v) \/ Lease(v) \/ StepRaises(v) \/ StageMissing(v)
      PROVE  holds'[w] = NoConv
  BY <1>0, <1>3 DEF Peek, Lease, StepRaises, StageMissing
<1>4. ASSUME NEW v \in Worker, Restart(v) PROVE holds'[w] = NoConv
  BY <1>0, <1>4 DEF Restart
<1>5. ASSUME NEW v \in Worker,
             \/ Stage(v) \/ CopyToWork(v) \/ RunPipeline(v) \/ Save(v) \/ Purge(v) \/ Meter(v)
             \/ AuditStep(v) \/ Dispatch(v)
      PROVE  holds'[w] = NoConv
  <2>1. holds' = holds /\ pc' = [pc EXCEPT ![v] = After(pc[v])]
        /\ After(pc[v]) \notin {"idle", "down"}
    BY <1>5 DEF Stage, CopyToWork, RunPipeline, Save, Purge, Meter, AuditStep, Dispatch,
       Advance, After
  <2> QED
    BY <1>0, <2>1
<1>6. ASSUME GatewayNext \/ (\E v \in Worker : IdleDispatch(v)) \/ UNCHANGED vars
      PROVE  UNCHANGED <<pc, holds>>
  BY <1>6 DEF GatewayNext, SubmitNew, SubmitDuplicate, WriteAudio, LogConsent, IndexRef,
     Enqueue, Acknowledge, SubmitAborts, DeleteOnDemand, RequeueDead, IdleDispatch, vars,
     workerVars
<1> QED
  BY <1>1, <1>2, <1>3, <1>4, <1>5, <1>6 DEF Next, WorkerNext, WorkerStep

(* A leased row is in some worker's hands after every step but a death. *)
LEMMA StrandedNext ==
  Inv /\ HandsInv /\ [Next]_vars => StrandedOnlyByCrash'
<1> SUFFICES ASSUME Inv, HandsInv, [Next]_vars PROVE StrandedOnlyByCrash'
  OBVIOUS
<1> SUFFICES ASSUME NEW c \in Conv, job'[c] = "leased", crashes' = 0
             PROVE  \E w \in Worker : holds'[w] = c
  <2>1. crashes' \in Nat
    BY InvNext DEF Inv, TypeOK
  <2> QED
    BY <2>1 DEF StrandedOnlyByCrash, Stranded
<1> USE DEF gwVars, storeVars, queueVars, audioVars, workerVars, boundVars
<1>0. /\ job \in [Conv -> JobStatus] /\ holds \in [Worker -> Conv \cup {NoConv}]
      /\ crashes \in Nat /\ StrandedOnlyByCrash
  BY DEF Inv, TypeOK, HandsInv
<1>1. ASSUME job[c] = "leased", UNCHANGED <<holds, crashes>>
      PROVE  \E w \in Worker : holds'[w] = c
  BY <1>0, <1>1 DEF StrandedOnlyByCrash, Stranded
<1>2. CASE UNCHANGED vars
  BY <1>1, <1>2 DEF vars
<1>3. CASE GatewayNext
  <2>1. UNCHANGED <<holds, crashes>>
    BY <1>3 DEF GatewayNext, SubmitNew, SubmitDuplicate, WriteAudio, LogConsent, IndexRef,
       Enqueue, Acknowledge, SubmitAborts, DeleteOnDemand, RequeueDead
  <2>2. job[c] = "leased"
    BY <1>0, <1>3 DEF GatewayNext, SubmitNew, SubmitDuplicate, WriteAudio, LogConsent,
       IndexRef, Enqueue, Acknowledge, SubmitAborts, DeleteOnDemand, RequeueDead
  <2> QED
    BY <1>1, <2>1, <2>2
<1>4. ASSUME NEW w \in Worker, Peek(w) PROVE \E v \in Worker : holds'[v] = c
  <2>1. PICK v \in Worker : holds[v] = c
    BY <1>0, <1>4 DEF Peek, StrandedOnlyByCrash, Stranded
  <2>2. v # w
    BY <1>4, <2>1, ConstantsAssumption DEF Peek, HandsInv
  <2> QED
    BY <1>0, <1>4, <2>1, <2>2 DEF Peek
<1>5. ASSUME NEW w \in Worker, Lease(w) PROVE \E v \in Worker : holds'[v] = c
  <2>1. CASE c = holds[w]
    BY <1>5, <2>1 DEF Lease
  <2>2. CASE c # holds[w]
    BY <1>0, <1>1, <1>5, <2>2 DEF Lease
  <2> QED
    BY <2>1, <2>2
<1>6. ASSUME NEW w \in Worker, Complete(w) \/ Fail(w) PROVE \E v \in Worker : holds'[v] = c
  <2>1. c # holds[w] /\ job[c] = "leased" /\ crashes' = crashes
    BY <1>0, <1>6 DEF Complete, Fail
  <2>2. PICK v \in Worker : holds[v] = c
    BY <1>0, <2>1 DEF StrandedOnlyByCrash, Stranded
  <2>3. holds'[v] = holds[v]
    BY <1>0, <1>6, <2>1, <2>2 DEF Complete, Fail, Return
  <2> QED
    BY <2>2, <2>3
<1>7. ASSUME NEW w \in Worker, Crash(w) PROVE FALSE
  BY <1>0, <1>7 DEF Crash
<1>8. ASSUME NEW w \in Worker, WorkerStep(w) \/ StepRaises(w), ~Peek(w), ~Lease(w),
             ~Complete(w), ~Fail(w)
      PROVE  \E v \in Worker : holds'[v] = c
  <2>1. UNCHANGED <<job, holds, crashes>>
    BY <1>8 DEF WorkerStep, StepRaises, Stage, StageMissing, CopyToWork, RunPipeline, Save, Purge,
       Meter, AuditStep, Dispatch, IdleDispatch, Restart
  <2> QED
    BY <1>1, <2>1
<1> QED
  BY <1>2, <1>3, <1>4, <1>5, <1>6, <1>7, <1>8 DEF Next, WorkerNext

(* A job is left leased with nobody at work on it only by a worker's death *)
(* (queueing.dequeue, worker.process_one): every failing step is counted.  *)
THEOREM LeasesHeld == Spec => []StrandedOnlyByCrash
<1>1. Init => HandsInv
  BY DEF Init, HandsInv, StrandedOnlyByCrash, Stranded
<1>2. Inv /\ HandsInv /\ [Next]_vars => HandsInv'
  BY HandsEmpty, StrandedNext DEF HandsInv
<1>3. HandsInv => StrandedOnlyByCrash
  BY DEF HandsInv
<1> QED
  BY Invariance, <1>1, <1>2, <1>3, PTL DEF Spec

-----------------------------------------------------------------------------
(* The pipeline with one worker. *)

(* AloneInv holds of the empty tables. *)
LEMMA AloneInit == Init => AloneInv
BY ConstantsAssumption DEF Init, AloneInv, Alone, CopyDiesFirst, RetriesCapped,
   MeteredAtMostOnce, TryBlock

-----------------------------------------------------------------------------
(* What the gateway leaves alone: the row of every job that is waiting for *)
(* a worker or held by one, its recording and its meter.                   *)
LEMMA GatewayKeepsOut ==
  Inv /\ GatewayNext =>
    /\ UNCHANGED <<workerVars, released, metered, work>>
    /\ \A c \in Conv :
         /\ job[c] \in {"pending", "leased"} =>
              job'[c] = job[c] /\ attempts'[c] = attempts[c]
         /\ vault[c] # "none" => vault'[c] = vault[c]
         /\ vault[c] = "none" => vault'[c] \in {"none", "stored"}
<1> SUFFICES ASSUME Inv, GatewayNext
             PROVE  /\ UNCHANGED <<workerVars, released, metered, work>>
                    /\ \A c \in Conv :
                         /\ job[c] \in {"pending", "leased"} =>
                              job'[c] = job[c] /\ attempts'[c] = attempts[c]
                         /\ vault[c] # "none" => vault'[c] = vault[c]
                         /\ vault[c] = "none" => vault'[c] \in {"none", "stored"}
  OBVIOUS
<1> USE DEF GatewayNext, SubmitNew, SubmitDuplicate, WriteAudio, LogConsent, IndexRef,
      Enqueue, Acknowledge, SubmitAborts, DeleteOnDemand, RequeueDead,
      gwVars, storeVars, queueVars, audioVars, workerVars, boundVars
<1>1. UNCHANGED <<workerVars, released, metered, work>>
  OBVIOUS
<1>2. /\ job \in [Conv -> JobStatus] /\ attempts \in [Conv -> Nat]
      /\ vault \in [Conv -> {"none", "stored", "torn", "purged"}]
  BY DEF Inv, TypeOK
<1>3. /\ gwPc = "enqueueing" => job[gwConv] = "none"
      /\ gwPc = "writing" => vault[gwConv] = "none"
  BY DEF Inv, GatewayInv
<1>4. ASSUME NEW c \in Conv, job[c] \in {"pending", "leased"}
      PROVE  job'[c] = job[c] /\ attempts'[c] = attempts[c]
  BY <1>2, <1>3, <1>4
<1>5. ASSUME NEW c \in Conv
      PROVE  /\ vault[c] # "none" => vault'[c] = vault[c]
             /\ vault[c] = "none" => vault'[c] \in {"none", "stored"}
  BY <1>2, <1>3
<1> QED
  BY <1>1, <1>4, <1>5

(* The gateway keeps AloneInv: it enqueues a row without attempts, and     *)
(* re-arms a dead one with none, which no worker holds.                    *)
LEMMA AloneByGateway == Inv /\ AloneInv /\ GatewayNext => AloneInv'
<1> SUFFICES ASSUME Inv, AloneInv, GatewayNext PROVE AloneInv'
  OBVIOUS
<1>1. /\ pc' = pc /\ holds' = holds /\ lease' = lease /\ metered' = metered /\ work' = work
      /\ \A c \in Conv :
           /\ job[c] \in {"pending", "leased"} =>
                job'[c] = job[c] /\ attempts'[c] = attempts[c]
           /\ vault[c] # "none" => vault'[c] = vault[c]
  BY GatewayKeepsOut DEF workerVars
<1>2. ASSUME NEW w \in Worker PROVE Alone(w)'
  <2>1. Alone(w)
    BY DEF AloneInv
  <2>2. pc[w] \notin {"idle", "down"} => holds[w] \in Conv
    BY Dequeued
  <2> QED
    BY <1>1, <2>1, <2>2 DEF Alone, TryBlock
<1>3. ASSUME NEW c \in Conv
      PROVE  /\ job'[c] = "none" => attempts'[c] = 0
             /\ attempts'[c] <= MaxAttempts
             /\ job'[c] = "pending" => attempts'[c] < MaxAttempts
             /\ job'[c] = "dead" => attempts'[c] = MaxAttempts
  <2>1. \/ job'[c] = job[c] /\ attempts'[c] = attempts[c]
        \/ job[c] = "none" /\ job'[c] = "pending" /\ attempts'[c] = attempts[c]
        \/ job'[c] = "pending" /\ attempts'[c] = 0
    BY DEF Inv, TypeOK, GatewayInv, GatewayNext, SubmitNew, SubmitDuplicate, WriteAudio,
       LogConsent, IndexRef, Enqueue, Acknowledge, SubmitAborts, DeleteOnDemand,
       RequeueDead, queueVars
  <2> QED
    BY <2>1, ConstantsAssumption DEF AloneInv, RetriesCapped
<1>4. ASSUME NEW c \in Conv, metered'[c] > 0 PROVE vault'[c] = "purged"
  BY <1>1, <1>4 DEF AloneInv
<1>5. MeteredAtMostOnce'
  BY <1>1 DEF AloneInv, MeteredAtMostOnce
<1>6. CopyDiesFirst'
  BY <1>1 DEF AloneInv, CopyDiesFirst, Inv, TypeOK
<1> QED
  BY <1>2, <1>3, <1>4, <1>5, <1>6 DEF AloneInv, RetriesCapped

-----------------------------------------------------------------------------
(* The row in hand after a step of the only worker. *)
LEMMA AloneInHand ==
  ASSUME OneWorker, Inv, AloneInv, NEW w \in Worker, WorkerStep(w) \/ StepRaises(w) \/ Crash(w)
  PROVE  Alone(w)'
<1> USE DEF Alone, TryBlock
<1>1. Alone(w) /\ StepsDone(w)
  BY DEF AloneInv, Inv, WorkerInv
<1>2. /\ pc \in [Worker -> WorkerPc] /\ holds \in [Worker -> Conv \cup {NoConv}]
      /\ lease \in [Worker -> Nat] /\ attempts \in [Conv -> Nat]
      /\ job \in [Conv -> JobStatus] /\ metered \in [Conv -> Nat]
      /\ vault \in [Conv -> {"none", "stored", "torn", "purged"}]
  BY DEF Inv, TypeOK
<1>3. pc[w] \notin {"idle", "down"} => holds[w] \in Conv
  BY Dequeued
<1>4. CASE Peek(w)
  <2>1. PICK c \in Conv : /\ OldestPending(c)
                          /\ holds' = [holds EXCEPT ![w] = c]
                          /\ lease' = [lease EXCEPT ![w] = attempts[c] + 1]
    BY <1>4 DEF Peek
  <2>2. holds'[w] = c /\ lease'[w] = attempts[c] + 1 /\ pc'[w] = "leasing"
    BY <1>2, <1>4, <2>1 DEF Peek
  <2> QED
    BY <1>4, <2>1, <2>2 DEF Peek, OldestPending, queueVars
<1>5. CASE Lease(w)
  <2>1. pc'[w] = "staging" /\ holds' = holds /\ lease' = lease /\ job'[holds[w]] = "leased"
    BY <1>2, <1>3, <1>5 DEF Lease
  <2>2. attempts'[holds[w]] = attempts[holds[w]] + 1
    BY <1>2, <1>3, <1>5 DEF Lease
  <2> QED
    BY <1>1, <1>5, <2>1, <2>2 DEF Lease
<1>6. CASE Stage(w) \/ StageMissing(w) \/ CopyToWork(w)
  BY <1>1, <1>2, <1>6 DEF Stage, StageMissing, CopyToWork, Advance, After, queueVars
<1>7. CASE RunPipeline(w)
  BY <1>1, <1>2, <1>7 DEF RunPipeline, Advance, After, queueVars
<1>8. CASE Save(w)
  BY <1>1, <1>2, <1>8 DEF Save, Advance, After, queueVars, audioVars
<1>9. CASE Purge(w)
  <2>1. holds[w] \in Conv /\ vault[holds[w]] = "stored"
    BY <1>1, <1>3, <1>9 DEF Purge
  <2>2. ~(metered[holds[w]] > 0)
    BY <2>1 DEF AloneInv
  <2>3. metered[holds[w]] = 0
    BY <1>2, <2>1, <2>2
  <2> QED
    BY <1>1, <1>2, <1>9, <2>3 DEF Purge, Advance, After, queueVars, storeVars
<1>10. CASE Meter(w)
  BY <1>1, <1>2, <1>10 DEF Meter, Advance, After, queueVars
<1>11. CASE AuditStep(w)
  BY <1>1, <1>2, <1>11 DEF AuditStep, Advance, After, queueVars
<1>12. CASE Dispatch(w)
  BY <1>1, <1>2, <1>12 DEF Dispatch, Advance, After, queueVars
<1>13. CASE Complete(w) \/ Fail(w)
  BY <1>2, <1>13 DEF Complete, Fail, Return
<1>14. CASE IdleDispatch(w)
  BY <1>14 DEF IdleDispatch, workerVars
<1>15. CASE Restart(w)
  BY <1>2, <1>15 DEF Restart
<1>16. CASE StepRaises(w)
  BY <1>1, <1>2, <1>16 DEF StepRaises, queueVars
<1>17. CASE Crash(w)
  BY <1>2, <1>17 DEF Crash, Return
<1> QED
  BY <1>4, <1>5, <1>6, <1>7, <1>8, <1>9, <1>10, <1>11, <1>12, <1>13, <1>14, <1>15,
     <1>16, <1>17 DEF WorkerStep

(* The attempts of every row after a step of the only worker: Lease counts *)
(* one of a waiting row's remaining tries, Fail decides by that count.     *)
LEMMA AttemptsByWorker ==
  ASSUME OneWorker, Inv, AloneInv, NEW w \in Worker, WorkerStep(w) \/ StepRaises(w) \/ Crash(w)
  PROVE  RetriesCapped' /\ \A c \in Conv : job'[c] = "none" => attempts'[c] = 0
<1>1. Alone(w)
  BY DEF AloneInv
<1>2. /\ attempts \in [Conv -> Nat] /\ job \in [Conv -> JobStatus]
      /\ lease \in [Worker -> Nat] /\ MaxAttempts \in Nat
  BY ConstantsAssumption DEF Inv, TypeOK
<1>3. pc[w] \notin {"idle", "down"} => holds[w] \in Conv /\ job[holds[w]] # "none"
  BY Dequeued
<1>4. CASE Lease(w)
  <2>1. \A c \in Conv : /\ job'[c] = IF c = holds[w] THEN "leased" ELSE job[c]
                        /\ attempts'[c] = IF c = holds[w] THEN attempts[c] + 1 ELSE attempts[c]
    BY <1>2, <1>4 DEF Lease
  <2>2. attempts[holds[w]] < MaxAttempts
    BY <1>1, <1>3, <1>4 DEF Alone, AloneInv, RetriesCapped, Lease
  <2> QED
    BY <1>2, <2>1, <2>2 DEF AloneInv, RetriesCapped
<1>5. CASE Complete(w)
  <2>1. attempts' = attempts /\ \A c \in Conv : job'[c] = IF c = holds[w] THEN "done" ELSE job[c]
    BY <1>2, <1>5 DEF Complete
  <2> QED
    BY <2>1 DEF AloneInv, RetriesCapped
<1>6. CASE Fail(w)
  <2>1. attempts' = attempts
        /\ \A c \in Conv : job'[c] = IF c = holds[w]
                                       THEN IF lease[w] < MaxAttempts THEN "pending" ELSE "dead"
                                       ELSE job[c]
    BY <1>2, <1>6 DEF Fail
  <2>2. lease[w] = attempts[holds[w]] /\ attempts[holds[w]] <= MaxAttempts
    BY <1>1, <1>3, <1>6 DEF Alone, AloneInv, RetriesCapped, Fail
  <2> QED
    BY <1>2, <1>3, <2>1, <2>2 DEF AloneInv, RetriesCapped
<1>7. CASE UNCHANGED <<job, attempts>>
  BY <1>7 DEF AloneInv, RetriesCapped
<1> QED
  BY <1>4, <1>5, <1>6, <1>7 DEF WorkerStep, Peek, Stage, StageMissing, CopyToWork,
     RunPipeline, Save, Purge, Meter, AuditStep, Dispatch, IdleDispatch, Restart, StepRaises, Crash, queueVars

(* The meter after a step of the only worker: it meters only what it has   *)
(* just erased, and an erased recording is not staged again.               *)
LEMMA MeterByWorker ==
  ASSUME OneWorker, Inv, AloneInv, NEW w \in Worker, WorkerStep(w) \/ StepRaises(w) \/ Crash(w)
  PROVE  MeteredAtMostOnce' /\ \A c \in Conv : metered'[c] > 0 => vault'[c] = "purged"
<1>1. Alone(w) /\ StepsDone(w)
  BY DEF AloneInv, Inv, WorkerInv
<1>2. /\ metered \in [Conv -> Nat]
      /\ vault \in [Conv -> {"none", "stored", "torn", "purged"}]
  BY DEF Inv, TypeOK
<1>3. pc[w] \notin {"idle", "down"} => holds[w] \in Conv
  BY Dequeued
<1>4. CASE Meter(w)
  <2>1. \A c \in Conv : metered'[c] = IF c = holds[w] THEN metered[c] + 1 ELSE metered[c]
    BY <1>2, <1>4 DEF Meter
  <2>2. vault' = vault /\ vault[holds[w]] = "purged" /\ metered[holds[w]] = 0
    BY <1>1, <1>4 DEF Meter, Alone, StepsDone, PastPurge, PastMeter, PastDeletion, PastInsight,
       audioVars
  <2> QED
    BY <1>2, <2>1, <2>2 DEF AloneInv, MeteredAtMostOnce
<1>5. CASE ~Meter(w)
  <2>1. metered' = metered
    BY <1>5 DEF WorkerStep, Peek, Lease, Stage, StageMissing, CopyToWork, RunPipeline, Save, Purge,
       AuditStep, Dispatch, Complete, Fail, IdleDispatch, Restart, StepRaises, Crash, storeVars
  <2>2. \A c \in Conv : vault[c] = "purged" => vault'[c] = "purged"
    BY <1>2, <1>3, <1>5 DEF WorkerStep, Peek, Lease, Stage, StageMissing, CopyToWork,
       RunPipeline, Save, Purge, AuditStep, Dispatch, Complete, Fail, IdleDispatch, Restart, StepRaises, Crash,
       CutShort, audioVars
  <2> QED
    BY <2>1, <2>2 DEF AloneInv, MeteredAtMostOnce
<1> QED
  BY <1>4, <1>5

(* The staged copy after a step of the only worker: it is made of a stored *)
(* recording, and gone before the worker touches that.                     *)
LEMMA CopyByWorker ==
  ASSUME OneWorker, Inv, AloneInv, NEW w \in Worker, WorkerStep(w) \/ StepRaises(w) \/ Crash(w)
  PROVE  CopyDiesFirst'
<1>1. Alone(w) /\ CopyDiesFirst
  BY DEF AloneInv
<1>2. /\ vault \in [Conv -> {"none", "stored", "torn", "purged"}]
      /\ work \subseteq Conv
  BY DEF Inv, TypeOK
<1>3. pc[w] \notin {"idle", "down"} => holds[w] \in Conv
  BY Dequeued
<1>4. CASE Purge(w)
  BY <1>1, <1>2, <1>3, <1>4 DEF Purge, CopyDiesFirst
<1>5. CASE StepRaises(w) \/ Crash(w)
  <2>1. pc[w] \notin {"idle", "down"}
    BY <1>5 DEF StepRaises, Crash, TryBlock
  <2>2. \/ vault' = vault /\ work' \subseteq work
        \/ pc[w] = "copying" /\ vault' = vault /\ work' = work \cup {holds[w]}
        \/ /\ pc[w] = "purging" /\ work' = work
           /\ \E erased \in {"torn", "purged"} : vault' = [vault EXCEPT ![holds[w]] = erased]
    BY <1>5 DEF StepRaises, Crash, CutShort, audioVars
  <2> QED
    BY <1>1, <1>2, <1>3, <2>1, <2>2 DEF Alone, CopyDiesFirst
<1>6. CASE CopyToWork(w)
  BY <1>1, <1>2, <1>3, <1>6 DEF CopyToWork, Alone, CopyDiesFirst
<1>7. CASE vault' = vault /\ work' \subseteq work
  BY <1>1, <1>7 DEF CopyDiesFirst
<1> QED
  BY <1>4, <1>5, <1>6, <1>7 DEF WorkerStep, Peek, Lease, Stage, StageMissing, RunPipeline,
     Save, Meter, AuditStep, Dispatch, Complete, Fail, IdleDispatch, Restart, audioVars

(* A step of the only worker keeps AloneInv. *)
LEMMA AloneByWorker == OneWorker /\ Inv /\ AloneInv /\ WorkerNext => AloneInv'
<1> SUFFICES ASSUME OneWorker, Inv, AloneInv, NEW w \in Worker,
                    WorkerStep(w) \/ StepRaises(w) \/ Crash(w)
             PROVE  AloneInv'
  BY DEF WorkerNext
<1>1. \A v \in Worker : Alone(v)'
  BY AloneInHand DEF OneWorker
<1>2. /\ RetriesCapped' /\ \A c \in Conv : job'[c] = "none" => attempts'[c] = 0
      /\ MeteredAtMostOnce' /\ \A c \in Conv : metered'[c] > 0 => vault'[c] = "purged"
      /\ CopyDiesFirst'
  BY AttemptsByWorker, MeterByWorker, CopyByWorker
<1> QED
  BY <1>1, <1>2 DEF AloneInv

(* Every step keeps AloneInv. *)
LEMMA AloneNext == OneWorker /\ Inv /\ AloneInv /\ [Next]_vars => AloneInv'
<1> SUFFICES ASSUME OneWorker, Inv, AloneInv, [Next]_vars PROVE AloneInv'
  OBVIOUS
<1>1. CASE Next
  BY <1>1, AloneByGateway, AloneByWorker DEF Next
<1>2. CASE UNCHANGED vars
  BY <1>2 DEF vars, storeVars, queueVars, audioVars, workerVars, AloneInv, Alone,
     CopyDiesFirst, RetriesCapped, MeteredAtMostOnce
<1> QED
  BY <1>1, <1>2

(* With one worker, what it read of the row in hand stays true until it    *)
(* returns, through retries, re-arms and crashes.                          *)
THEOREM AloneInvariance == ASSUME OneWorker PROVE Spec => [](Inv /\ AloneInv)
<1>1. Init => AloneInv
  BY AloneInit
<1>2. Inv /\ AloneInv /\ [Next]_vars => AloneInv'
  BY AloneNext
<1> QED
  BY <1>1, <1>2, Invariance, PTL DEF Spec

(* With one worker no raw copy outlives the recording it was made of,      *)
(* whatever fails, is cut short or is taken up again: staging reads a      *)
(* stored recording, and the copy is erased before the originals are.      *)
THEOREM CopiesDieFirst == ASSUME OneWorker PROVE Spec => []CopyDiesFirst
<1>1. AloneInv => CopyDiesFirst
  BY DEF AloneInv
<1> QED
  BY AloneInvariance, <1>1, PTL

(* With one worker the attempts on a row tell the truth: a waiting job has *)
(* tries left, and a dead one has used exactly MaxAttempts (JobQueue.fail).*)
THEOREM RetriesCounted == ASSUME OneWorker PROVE Spec => []RetriesCapped
<1>1. AloneInv => RetriesCapped
  BY DEF AloneInv
<1> QED
  BY AloneInvariance, <1>1, PTL

(* With one worker a conversation is metered at most once, although its    *)
(* job is retried and its meter rows are plain inserts.                    *)
THEOREM MeteredOnce == ASSUME OneWorker PROVE Spec => []MeteredAtMostOnce
<1>1. AloneInv => MeteredAtMostOnce
  BY DEF AloneInv
<1> QED
  BY AloneInvariance, <1>1, PTL

-----------------------------------------------------------------------------
(* With one worker, an insight wiped on demand after its audio was erased  *)
(* never comes back, whatever is retried or re-armed.                      *)
THEOREM WipesAreFinal == ASSUME OneWorker PROVE Spec => WipeAfterPurgeIsFinal
<1>1. Inv /\ AloneInv /\ [Next]_vars =>
        [\A c \in Conv : vault[c] = "purged" /\ ~insight[c] => ~insight'[c]]_vars
  <2> SUFFICES ASSUME Inv, AloneInv, Next, NEW c \in Conv, vault[c] = "purged", ~insight[c]
               PROVE  ~insight'[c]
    OBVIOUS
  <2>1. insight \in [Conv -> BOOLEAN]
    BY DEF Inv, TypeOK
  <2>2. CASE GatewayNext
    BY <2>1, <2>2 DEF GatewayNext, SubmitNew, SubmitDuplicate, WriteAudio, LogConsent,
       IndexRef, Enqueue, Acknowledge, SubmitAborts, DeleteOnDemand, RequeueDead, storeVars
  <2>3. ASSUME NEW w \in Worker, WorkerStep(w) \/ StepRaises(w) \/ Crash(w)
        PROVE  ~insight'[c]
    <3>1. pc[w] = "saving" => vault[holds[w]] = "stored"
      BY DEF AloneInv, Alone
    <3> QED
      BY <2>1, <2>3, <3>1 DEF WorkerStep, Peek, Lease, Stage, StageMissing, CopyToWork, RunPipeline,
         Save, Purge, Meter, AuditStep, Dispatch, Complete, Fail, IdleDispatch, Restart,
         StepRaises, Crash, storeVars
  <2> QED
    BY <2>2, <2>3 DEF Next, WorkerNext
<1> QED
  BY <1>1, AloneInvariance, PTL DEF Spec, WipeAfterPurgeIsFinal

-----------------------------------------------------------------------------
(* The refinement: recording, releases and readable of ConversationCustody *)
(* are the vault, the outbox sequence and the insight row.                 *)

(* The empty tables are an empty custody chain. *)
LEMMA CustodyInit == Init => Custody!Init
BY DEF Init, Custody!Init

(* Of the gateway's steps, writing the audio captures a recording, a wipe  *)
(* on demand withdraws an insight, the others leave the chain alone.       *)
LEMMA CustodyByGateway == Inv /\ GatewayNext => [Custody!Next]_(Custody!vars)
<1> SUFFICES ASSUME Inv, GatewayNext PROVE [Custody!Next]_(Custody!vars)
  OBVIOUS
<1>1. vault \in [Conv -> {"none", "stored", "torn", "purged"}]
  BY DEF Inv, TypeOK
<1>2. CASE WriteAudio
  <2>1. PICK c \in Conv : gwConv = c /\ vault[c] = "none"
    BY <1>2, InHand DEF WriteAudio, Inv, GatewayInv
  <2>2. Custody!Capture(c)
    BY <1>1, <1>2, <2>1 DEF WriteAudio, Custody!Capture, storeVars
  <2> QED
    BY <2>1, <2>2 DEF Custody!Next
<1>3. ASSUME NEW c \in Conv, DeleteOnDemand(c) PROVE Custody!Next
  <2>1. Custody!Withdraw(c)
    BY <1>3 DEF DeleteOnDemand, Custody!Withdraw, audioVars
  <2> QED
    BY <2>1 DEF Custody!Next
<1>4. CASE UNCHANGED <<vault, released, insight>>
  BY <1>4 DEF Custody!vars
<1> QED
  BY <1>2, <1>3, <1>4 DEF GatewayNext, SubmitNew, SubmitDuplicate, LogConsent, IndexRef,
     Enqueue, Acknowledge, SubmitAborts, RequeueDead, storeVars, audioVars

(* Of the worker's steps, the commit publishes from a recording still held *)
(* and the erasure, finished or cut short, destroys a released one.        *)
LEMMA CustodyByWorker == Inv /\ AloneInv /\ WorkerNext => [Custody!Next]_(Custody!vars)
<1> SUFFICES ASSUME Inv, AloneInv, NEW w \in Worker,
                    WorkerStep(w) \/ StepRaises(w) \/ Crash(w)
             PROVE  [Custody!Next]_(Custody!vars)
  BY DEF WorkerNext
<1>1. /\ vault \in [Conv -> {"none", "stored", "torn", "purged"}]
      /\ released \in [Conv -> Nat] /\ insight \in [Conv -> BOOLEAN]
  BY DEF Inv, TypeOK
<1>2. CASE Save(w)
  <2>1. PICK c \in Conv : holds[w] = c /\ vault[c] = "stored"
    BY <1>2, Dequeued DEF Save, AloneInv, Alone
  <2>2. Custody!Publish(c)
    BY <1>2, <2>1 DEF Save, Custody!Publish, audioVars
  <2> QED
    BY <2>1, <2>2 DEF Custody!Next
<1>3. ASSUME pc[w] = "purging", UNCHANGED <<released, insight>>,
             \E erased \in {"torn", "purged"} : vault' = [vault EXCEPT ![holds[w]] = erased]
      PROVE  Custody!Next
  <2>1. PICK c \in Conv : holds[w] = c /\ vault[c] = "stored"
    BY <1>3, Dequeued DEF AloneInv, Alone
  <2>2. released[c] > 0
    BY <1>3, <2>1 DEF Inv, WorkerInv, StepsDone, PastSave
  <2>3. Custody!Destroy(c)
    BY <1>1, <1>3, <2>1, <2>2 DEF Custody!Destroy
  <2> QED
    BY <2>1, <2>3 DEF Custody!Next
<1>4. CASE UNCHANGED <<vault, released, insight>>
  BY <1>4 DEF Custody!vars
<1> QED
  BY <1>2, <1>3, <1>4 DEF WorkerStep, Peek, Lease, Stage, StageMissing, CopyToWork,
     RunPipeline, Purge, Meter, AuditStep, Dispatch, Complete, Fail, IdleDispatch, Restart, StepRaises, Crash,
     CutShort, storeVars, audioVars

(* One worker implements the custody chain: whatever is retried, re-armed, *)
(* wiped or cut short, an insight is published only from a recording that  *)
(* is still held, and a recording is destroyed only after that.            *)
THEOREM PipelineImplementsCustody == ASSUME OneWorker PROVE Spec => CustodySpec
<1>1. Init => Custody!Init
  BY CustodyInit
<1>2. Inv /\ AloneInv /\ [Next]_vars => [Custody!Next]_(Custody!vars)
  <2> SUFFICES ASSUME Inv, AloneInv, [Next]_vars PROVE [Custody!Next]_(Custody!vars)
    OBVIOUS
  <2>1. CASE Next
    BY <2>1, CustodyByGateway, CustodyByWorker DEF Next
  <2>2. CASE UNCHANGED vars
    BY <2>2 DEF vars, storeVars, audioVars, Custody!vars
  <2> QED
    BY <2>1, <2>2
<1> QED
  BY <1>1, <1>2, AloneInvariance, PTL DEF Spec, CustodySpec, Custody!Spec
=============================================================================
