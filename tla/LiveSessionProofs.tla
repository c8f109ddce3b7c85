-------------------------- MODULE LiveSessionProofs --------------------------
(***************************************************************************)
(* LiveSession's safety, for any visits, connections and fields, any       *)
(* number of chunks and tries and any number of crashes.                   *)
(***************************************************************************)
EXTENDS LiveSession, TLAPS

(* Before the first visit there is nothing to be wrong about. *)
LEMMA VisitInitInv == VisitInit => VisitInv
BY VisitAssumption DEF VisitInit, VisitInv, VisitTypeOK, Status, NotEnding, NoJob, EndingKnows,
   QueueKnows, OneJobPerVisit, UploadsConsented, CompleteIsStored, NeverOverMetered

(* A statement of the ending handler moves it on and leaves it its visit and consent. *)
LEMMA EndingMoves ==
  ASSUME VisitTypeOK, NEW step \in {"submit", "enqueue", "mark", "meter"},
         ending' = [ending EXCEPT !.step = step]
  PROVE  /\ ending' \in [step : {"idle", "submit", "enqueue", "mark", "meter"},
                         visit : Visit \cup {NoVisit}, consent : BOOLEAN]
         /\ ending'.step = step /\ ending'.visit = ending.visit
         /\ ending'.consent = ending.consent
BY DEF VisitTypeOK

(* A job that changes its state keeps its tries, and other jobs are untouched. *)
LEMMA JobMoves ==
  ASSUME VisitTypeOK, NEW v \in Visit,
         NEW state \in {"queued", "running", "stored", "marked", "done", "dead", "stranded"},
         SetJob(v, state)
  PROVE  /\ job' \in [Visit -> [state : {"none", "queued", "running", "stored", "marked", "done",
                                         "dead", "stranded"}, tries : 0..MaxTries]]
         /\ job'[v].state = state /\ job'[v].tries = job[v].tries
         /\ \A u \in Visit \ {v} : job'[u] = job[u]
BY DEF VisitTypeOK, SetJob

(* Every step keeps it. *)
LEMMA VisitStep == VisitInv /\ [VisitNext]_visitVars => VisitInv'
<1> SUFFICES ASSUME VisitInv, [VisitNext]_visitVars PROVE VisitInv'
  OBVIOUS
<1>1. ASSUME Submit PROVE VisitInv'
  <2>1. ending.visit \in Visit /\ VisitTypeOK
    BY <1>1 DEF Submit, VisitInv, EndingKnows
  <2>2. CASE ~ending.consent
    <3>1. ending' = [step |-> "idle", visit |-> NoVisit, consent |-> FALSE] /\ UNCHANGED reference
      BY <1>1, <2>2 DEF Submit, NotEnding
    <3>2. ending'.step = "idle" /\ ending'.consent = FALSE
      BY <3>1
    <3>3. VisitTypeOK'
      BY <1>1, <2>1, <3>1 DEF Submit, VisitTypeOK
    <3> QED
      BY <1>1, <3>1, <3>2, <3>3 DEF Submit, VisitInv, EndingKnows, QueueKnows, OneJobPerVisit,
         UploadsConsented, CompleteIsStored, NeverOverMetered
  <2>3. CASE ending.consent /\ ending.visit \in reference
    <3>1. ending' = [ending EXCEPT !.step = "mark"] /\ UNCHANGED reference
      BY <1>1, <2>3 DEF Submit
    <3>2. EndingKnows'
      BY <1>1, <2>1, <3>1, EndingMoves DEF Submit, VisitInv, EndingKnows
    <3> QED
      BY <1>1, <2>1, <3>1, <3>2, EndingMoves DEF Submit, VisitInv, VisitTypeOK, QueueKnows,
         OneJobPerVisit, UploadsConsented, CompleteIsStored, NeverOverMetered
  <2>4. CASE ending.consent /\ ending.visit \notin reference
    <3>1. ending' = [ending EXCEPT !.step = "enqueue"] /\ reference' = reference \cup {ending.visit}
      BY <1>1, <2>4 DEF Submit
    <3>2. EndingKnows'
      BY <1>1, <2>1, <2>4, <3>1, EndingMoves DEF Submit, VisitInv, EndingKnows, QueueKnows
    <3>3. UploadsConsented'
      BY <1>1, <2>4, <3>1 DEF Submit, VisitInv, EndingKnows, UploadsConsented
    <3> QED
      BY <1>1, <2>1, <3>1, <3>2, <3>3, EndingMoves DEF Submit, VisitInv, VisitTypeOK, QueueKnows,
         OneJobPerVisit, CompleteIsStored, NeverOverMetered
  <2> QED
    BY <2>2, <2>3, <2>4
<1>2. ASSUME Enqueue PROVE VisitInv'
  <2>1. /\ ending.visit \in Visit /\ ending.visit \in reference /\ jobs[ending.visit] = 0
        /\ VisitTypeOK /\ ending' = [ending EXCEPT !.step = "mark"]
    BY <1>2 DEF Enqueue, VisitInv, EndingKnows
  <2>2. jobs' \in [Visit -> Nat] /\ OneJobPerVisit'
    BY <1>2, <2>1 DEF Enqueue, VisitInv, VisitTypeOK, OneJobPerVisit
  <2>3. /\ job' = [job EXCEPT ![ending.visit] = [state |-> "queued", tries |-> 0]]
        /\ [state |-> "queued", tries |-> 0] \in
             [state : {"none", "queued", "running", "stored", "marked", "done", "dead",
                       "stranded"}, tries : 0..MaxTries]
    BY <1>2, VisitAssumption DEF Enqueue
  <2>4. EndingKnows'
    BY <1>2, <2>1, EndingMoves DEF Enqueue, VisitInv, EndingKnows
  <2>5. QueueKnows'
    BY <1>2, <2>1, <2>3, VisitAssumption DEF Enqueue, VisitInv, VisitTypeOK, QueueKnows
  <2>6. VisitTypeOK'
    BY <1>2, <2>1, <2>2, <2>3, EndingMoves DEF Enqueue, VisitTypeOK
  <2> QED
    BY <1>2, <2>2, <2>4, <2>5, <2>6 DEF Enqueue, VisitInv, UploadsConsented, CompleteIsStored,
       NeverOverMetered
<1>3. ASSUME MarkProcessing PROVE VisitInv'
  BY <1>3, VisitAssumption DEF MarkProcessing, Status,
     VisitInv, VisitTypeOK, EndingKnows, QueueKnows, OneJobPerVisit, UploadsConsented,
     CompleteIsStored, NeverOverMetered
<1>4. ASSUME Meter PROVE VisitInv'
  BY <1>4, VisitAssumption DEF Meter, NotEnding, Status,
     VisitInv, VisitTypeOK, EndingKnows, QueueKnows, OneJobPerVisit, UploadsConsented,
     CompleteIsStored, NeverOverMetered
<1>5. ASSUME GatewayDies PROVE VisitInv'
  BY <1>5, VisitAssumption DEF GatewayDies, NotEnding, Closed, Status,
     VisitInv, VisitTypeOK, EndingKnows, QueueKnows, OneJobPerVisit, UploadsConsented,
     CompleteIsStored, NeverOverMetered
<1>6. ASSUME NEW v \in Visit, Start(v) PROVE VisitInv'
  BY <1>6, VisitAssumption DEF Start, Status,
     VisitInv, VisitTypeOK, EndingKnows, QueueKnows, OneJobPerVisit, UploadsConsented,
     CompleteIsStored, NeverOverMetered
<1>7. ASSUME NEW v \in Visit, Consent(v) PROVE VisitInv'
  BY <1>7, VisitAssumption DEF Consent, Status,
     VisitInv, VisitTypeOK, EndingKnows, QueueKnows, OneJobPerVisit, UploadsConsented,
     CompleteIsStored, NeverOverMetered
<1>8. ASSUME NEW v \in Visit, WorkerDies(v) PROVE VisitInv'
  BY <1>8, VisitAssumption DEF WorkerDies, SetJob, Status,
     VisitInv, VisitTypeOK, EndingKnows, QueueKnows, OneJobPerVisit, UploadsConsented,
     CompleteIsStored, NeverOverMetered
<1>9. ASSUME NEW v \in Visit, Lease(v) PROVE VisitInv'
  BY <1>9, VisitAssumption DEF Lease, Status,
     VisitInv, VisitTypeOK, EndingKnows, QueueKnows, OneJobPerVisit, UploadsConsented,
     CompleteIsStored, NeverOverMetered
<1>10. ASSUME NEW v \in Visit, StoreInsight(v) PROVE VisitInv'
  BY <1>10, VisitAssumption DEF StoreInsight, SetJob, Status,
     VisitInv, VisitTypeOK, EndingKnows, QueueKnows, OneJobPerVisit, UploadsConsented,
     CompleteIsStored, NeverOverMetered
<1>11. ASSUME NEW v \in Visit, CompleteVisit(v) PROVE VisitInv'
  BY <1>11, VisitAssumption DEF CompleteVisit, SetJob, Status,
     VisitInv, VisitTypeOK, EndingKnows, QueueKnows, OneJobPerVisit, UploadsConsented,
     CompleteIsStored, NeverOverMetered
<1>12. ASSUME NEW v \in Visit, Finish(v) PROVE VisitInv'
  BY <1>12, VisitAssumption DEF Finish, SetJob, Status,
     VisitInv, VisitTypeOK, EndingKnows, QueueKnows, OneJobPerVisit, UploadsConsented,
     CompleteIsStored, NeverOverMetered
<1>13. ASSUME NEW v \in Visit, JobFails(v) PROVE VisitInv'
  <2>1. PICK state \in {"queued", "dead"} :
          SetJob(v, state) /\ (state = "queued" => job[v].tries < MaxTries)
    <3>1. job[v].tries \in 0..MaxTries
      BY DEF VisitInv, VisitTypeOK
    <3> QED
      BY <1>13, <3>1, VisitAssumption DEF JobFails
  <2>2. VisitTypeOK'
    BY <1>13, <2>1, JobMoves DEF JobFails, VisitInv, VisitTypeOK
  <2>3. QueueKnows'
    BY <1>13, <2>1, JobMoves DEF JobFails, VisitInv, QueueKnows
  <2> QED
    BY <1>13, <2>2, <2>3 DEF JobFails, VisitInv, EndingKnows, OneJobPerVisit, UploadsConsented,
       CompleteIsStored, NeverOverMetered
<1>14. ASSUME NEW v \in Visit, NEW f \in Field, PatchCustomer(v, f) PROVE VisitInv'
  BY <1>14, VisitAssumption DEF PatchCustomer, Status,
     VisitInv, VisitTypeOK, EndingKnows, QueueKnows, OneJobPerVisit, UploadsConsented,
     CompleteIsStored, NeverOverMetered
<1>15. ASSUME NEW v \in Visit, NEW clip \in BOOLEAN, Complete(v, clip) PROVE VisitInv'
  <2>1. ending' = [step |-> "submit", visit |-> v, consent |-> v \in consentAt]
    BY <1>15 DEF Complete
  <2>2. VisitTypeOK'
    BY <1>15, <2>1 DEF Complete, VisitInv, VisitTypeOK
  <2>3. EndingKnows'
    <3>1. ending'.step = "submit" /\ ending'.visit = v /\ ending'.consent = (v \in consentAt)
      BY <2>1
    <3> QED
      BY <1>15, <3>1 DEF Complete, EndingKnows
  <2> QED
    BY <1>15, <2>2, <2>3 DEF Complete, VisitInv, QueueKnows, OneJobPerVisit, UploadsConsented,
       CompleteIsStored, NeverOverMetered
<1>16. ASSUME NEW s \in Socket, NEW v \in Visit, Connect(s, v) PROVE VisitInv'
  BY <1>16, VisitAssumption DEF Connect, Status,
     VisitInv, VisitTypeOK, EndingKnows, QueueKnows, OneJobPerVisit, UploadsConsented,
     CompleteIsStored, NeverOverMetered
<1>17. ASSUME NEW s \in Socket, Disconnect(s) PROVE VisitInv'
  BY <1>17, VisitAssumption DEF Disconnect, Closed, Status,
     VisitInv, VisitTypeOK, EndingKnows, QueueKnows, OneJobPerVisit, UploadsConsented,
     CompleteIsStored, NeverOverMetered
<1>18. ASSUME NEW s \in Socket, NEW call \in {0, 1}, NEW found \in SUBSET Field,
             Chunk(s, call, found) PROVE VisitInv'
  <2> DEFINE v == socket[s].visit
  <2>1. v \in Visit /\ VisitTypeOK
    BY <1>18 DEF Chunk, VisitInv
  <2>2. socket' = [socket EXCEPT ![s].seq = socket[s].seq + 1]
    BY <1>18 DEF Chunk
  <2>3. /\ socket[s].seq + 1 \in 0..MaxSeq /\ rows[v] \in 0..MaxSeq
        /\ Bigger(rows[v], socket[s].seq + 1) \in 0..MaxSeq
    BY <1>18, <2>1, VisitAssumption DEF Chunk, VisitTypeOK, Bigger
  <2>4. rows' \in [Visit -> 0..MaxSeq]
    BY <1>18, <2>1, <2>3 DEF Chunk, VisitTypeOK
  <2>5. /\ socket' \in [Socket -> [state : {"new", "open", "closed"}, visit : Visit \cup {NoVisit},
                                   seq : 0..MaxSeq]]
        /\ \A t \in Socket : /\ socket'[t].state = socket[t].state
                             /\ socket'[t].visit = socket[t].visit
    <3> DEFINE Sock == [state : {"new", "open", "closed"}, visit : Visit \cup {NoVisit},
                        seq : 0..MaxSeq]
               moved == [socket[s] EXCEPT !.seq = socket[s].seq + 1]
    <3>1. socket \in [Socket -> Sock] /\ socket[s] \in Sock
      BY <2>1 DEF VisitTypeOK
    <3>2. moved \in Sock /\ moved.state = socket[s].state /\ moved.visit = socket[s].visit
      BY <2>3, <3>1
    <3>3. socket' = [socket EXCEPT ![s] = moved]
      BY <2>2
    <3> HIDE DEF Sock, moved
    <3>4. socket' \in [Socket -> Sock] /\ socket'[s] = moved
      BY <3>1, <3>2, <3>3
    <3>5. \A t \in Socket \ {s} : socket'[t] = socket[t]
      BY <3>1, <3>3
    <3> QED
      BY <3>2, <3>4, <3>5 DEF Sock
  <2>6. /\ buffer' \in [Visit -> Nat] /\ calls' \in [Visit -> Nat]
        /\ NeverOverMetered'
    <3>1. /\ buffer \in [Visit -> Nat] /\ calls \in [Visit -> Nat] /\ metered \in [Visit -> Nat]
          /\ buffer' = [buffer EXCEPT ![v] = @ + call] /\ calls' = [calls EXCEPT ![v] = @ + call]
          /\ call \in Nat /\ metered' = metered
      BY <1>18, <2>1 DEF Chunk, VisitTypeOK
    <3>2. NeverOverMetered
      BY DEF VisitInv
    <3> QED
      BY <2>1, <3>1, <3>2 DEF NeverOverMetered
  <2>7. source' \in [Visit -> [Field -> {"none", "asr", "manual"}]]
    <3>1. [f \in Field |-> IF f \in found /\ source[v][f] # "manual" THEN "asr" ELSE source[v][f]]
            \in [Field -> {"none", "asr", "manual"}]
      BY <2>1 DEF VisitTypeOK
    <3> QED
      BY <1>18, <2>1, <3>1 DEF Chunk, VisitTypeOK
  <2>8. VisitTypeOK'
    BY <1>18, <2>1, <2>4, <2>5, <2>6, <2>7 DEF Chunk, VisitTypeOK
  <2> QED
    BY <1>18, <2>5, <2>6, <2>8 DEF Chunk, VisitInv, EndingKnows, QueueKnows, OneJobPerVisit,
       UploadsConsented, CompleteIsStored
<1>19. ASSUME NEW s \in Socket, ResetAsr(s) PROVE VisitInv'
  BY <1>19, VisitAssumption DEF ResetAsr, Status,
     VisitInv, VisitTypeOK, EndingKnows, QueueKnows, OneJobPerVisit, UploadsConsented,
     CompleteIsStored, NeverOverMetered
<1>20. CASE UNCHANGED visitVars
  BY <1>20 DEF visitVars, VisitInv, VisitTypeOK, EndingKnows, QueueKnows, OneJobPerVisit,
     UploadsConsented, CompleteIsStored, NeverOverMetered
<1> QED
  BY <1>1, <1>2, <1>3, <1>4, <1>5, <1>6, <1>7, <1>8, <1>9, <1>10, <1>11, <1>12,
     <1>13, <1>14, <1>15, <1>16, <1>17, <1>18, <1>19, <1>20
     DEF VisitNext, EndingStep, JobStep

(* What the handlers, the queue and the worker know of every visit holds throughout: *)
(* session.py's complete and ingestion.py's submit beside the consent handler.       *)
THEOREM VisitsCorrect == VisitSpec => []VisitInv
BY VisitInitInv, VisitStep, PTL DEF VisitSpec

(* Ending a visit again, after a crash or a late consent, never enqueues a second job. *)
THEOREM VisitOneJob == VisitSpec => []OneJobPerVisit
BY VisitsCorrect, PTL DEF VisitInv

(* No recording reaches the pipeline before its consent is on record. *)
THEOREM VisitUploadsConsented == VisitSpec => []UploadsConsented
BY VisitsCorrect, PTL DEF VisitInv

(* A visit shown as complete has an insight, through retries and reopened visits. *)
THEOREM VisitCompleteIsStored == VisitSpec => []CompleteIsStored
BY VisitsCorrect, PTL DEF VisitInv

(* No provider call is metered twice, however often a visit is ended. *)
THEOREM VisitNeverOverMetered == VisitSpec => []NeverOverMetered
BY VisitsCorrect, PTL DEF VisitInv

(* What a rep typed stays: the streaming handler is the only other writer of a field. *)
LEMMA ManualStep ==
  VisitInv /\ [VisitNext]_visitVars
    => [\A v \in Visit, f \in Field :
          source[v][f] = "manual" => source'[v][f] = "manual"]_visitVars
<1> SUFFICES ASSUME VisitInv, VisitNext, NEW v \in Visit, NEW f \in Field,
                    source[v][f] = "manual"
             PROVE  source'[v][f] = "manual"
  OBVIOUS
<1>1. source \in [Visit -> [Field -> {"none", "asr", "manual"}]]
  BY DEF VisitInv, VisitTypeOK
<1>2. ASSUME NEW u \in Visit, NEW g \in Field, PatchCustomer(u, g)
      PROVE  source'[v][f] = "manual"
  BY <1>1, <1>2 DEF PatchCustomer
<1>3. ASSUME NEW s \in Socket, NEW call \in {0, 1}, NEW found \in SUBSET Field,
             Chunk(s, call, found)
      PROVE  source'[v][f] = "manual"
  BY <1>1, <1>3 DEF Chunk
<1>4. CASE UNCHANGED source
  BY <1>4
<1>5. EndingStep \/ GatewayDies => UNCHANGED source
  BY DEF EndingStep, Submit, Enqueue, MarkProcessing, Meter, GatewayDies
<1>6. ASSUME NEW u \in Visit
      PROVE  Start(u) \/ Consent(u) \/ WorkerDies(u) \/ JobStep(u) => UNCHANGED source
  BY DEF Start, Consent, WorkerDies, JobStep, Lease, StoreInsight, CompleteVisit, Finish, JobFails
<1>7. ASSUME NEW s \in Socket, NEW u \in Visit, Connect(s, u) PROVE UNCHANGED source
  BY <1>7 DEF Connect
<1>8. ASSUME NEW u \in Visit, NEW clip \in BOOLEAN, Complete(u, clip) PROVE UNCHANGED source
  BY <1>8 DEF Complete
<1>9. ASSUME NEW s \in Socket, Disconnect(s) \/ ResetAsr(s) PROVE UNCHANGED source
  BY <1>9 DEF Disconnect, ResetAsr
<1> QED
  BY <1>2, <1>3, <1>4, <1>5, <1>6, <1>7, <1>8, <1>9 DEF VisitNext

(* A field a rep typed is never replaced by what the transcript seems to say. *)
THEOREM VisitManualWins == VisitSpec => ManualWins
<1>1. VisitInv /\ [VisitNext]_visitVars
        => [\A v \in Visit, f \in Field :
          source[v][f] = "manual" => source'[v][f] = "manual"]_visitVars
  BY ManualStep
<1> QED
  BY <1>1, VisitsCorrect, PTL DEF VisitSpec, ManualWins

=============================================================================
