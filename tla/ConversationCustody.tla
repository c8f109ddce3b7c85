------------------------ MODULE ConversationCustody ------------------------
(***************************************************************************)
(* What the conversation pipeline promises about one field recording, with *)
(* no queue, worker, retry or crash in sight:                              *)
(*                                                                         *)
(*   - a recording is captured once and held;                              *)
(*   - an insight is published only from a recording that is still held;   *)
(*   - the recording is destroyed only after something was published;      *)
(*   - a published insight may be withdrawn on demand.                     *)
(*                                                                         *)
(* The custody chain is therefore one-way: once the recording is gone no   *)
(* further release is possible, so a withdrawal made then is final.        *)
(* ConversationPipeline implements this module when one worker runs.       *)
(***************************************************************************)
EXTENDS Naturals

CONSTANT Conv           \* conversations

VARIABLES
  recording,            \* [Conv -> {"absent", "held", "destroyed"}]
  releases,             \* [Conv -> Nat]: insights.ready events ever emitted
  readable              \* [Conv -> BOOLEAN]: the insight can be fetched

vars == <<recording, releases, readable>>

TypeOK ==
  /\ recording \in [Conv -> {"absent", "held", "destroyed"}]
  /\ releases \in [Conv -> Nat]
  /\ readable \in [Conv -> BOOLEAN]

Init ==
  /\ recording = [c \in Conv |-> "absent"]
  /\ releases = [c \in Conv |-> 0]
  /\ readable = [c \in Conv |-> FALSE]

Capture(c) ==
  /\ recording[c] = "absent"
  /\ recording' = [recording EXCEPT ![c] = "held"]
  /\ UNCHANGED <<releases, readable>>

Publish(c) ==
  /\ recording[c] = "held"
  /\ releases' = [releases EXCEPT ![c] = @ + 1]
  /\ readable' = [readable EXCEPT ![c] = TRUE]
  /\ UNCHANGED recording

Destroy(c) ==
  /\ recording[c] = "held"
  /\ releases[c] > 0
  /\ recording' = [recording EXCEPT ![c] = "destroyed"]
  /\ UNCHANGED <<releases, readable>>

Withdraw(c) ==
  /\ readable[c]
  /\ readable' = [readable EXCEPT ![c] = FALSE]
  /\ UNCHANGED <<recording, releases>>

Next == \E c \in Conv : Capture(c) \/ Publish(c) \/ Destroy(c) \/ Withdraw(c)

Spec == Init /\ [][Next]_vars

-----------------------------------------------------------------------------
(* A destroyed recording has left at least one release behind. *)
DestroyedWasReleased ==
  \A c \in Conv : recording[c] = "destroyed" => releases[c] > 0

(* After the recording is destroyed nothing more is released, and an       *)
(* insight withdrawn by then never becomes readable again.                 *)
DestructionIsFinal ==
  [][\A c \in Conv : recording[c] = "destroyed" =>
       /\ recording'[c] = "destroyed"
       /\ releases'[c] = releases[c]
       /\ readable'[c] => readable[c]]_vars
=============================================================================
