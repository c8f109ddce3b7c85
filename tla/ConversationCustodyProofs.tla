---------------------- MODULE ConversationCustodyProofs ----------------------
(***************************************************************************)
(* What the custody chain guarantees, for any set of conversations, and so *)
(* whatever implements it.                                                 *)
(***************************************************************************)
EXTENDS ConversationCustody, TLAPS

(* Destroy asks for a release, and releases are never taken back. *)
CustodyInv == TypeOK /\ DestroyedWasReleased

(* A destroyed recording was released before, at any time. *)
THEOREM ReleasedBeforeDestroyed == Spec => []CustodyInv
<1>1. Init => CustodyInv
  BY DEF Init, CustodyInv, TypeOK, DestroyedWasReleased
<1>2. CustodyInv /\ [Next]_vars => CustodyInv'
  <2> SUFFICES ASSUME CustodyInv, [Next]_vars PROVE CustodyInv'
    OBVIOUS
  <2> USE DEF CustodyInv, TypeOK, DestroyedWasReleased
  <2>1. ASSUME NEW c \in Conv, Capture(c) PROVE CustodyInv'
    BY <2>1 DEF Capture
  <2>2. ASSUME NEW c \in Conv, Publish(c) PROVE CustodyInv'
    BY <2>2 DEF Publish
  <2>3. ASSUME NEW c \in Conv, Destroy(c) PROVE CustodyInv'
    BY <2>3 DEF Destroy
  <2>4. ASSUME NEW c \in Conv, Withdraw(c) PROVE CustodyInv'
    BY <2>4 DEF Withdraw
  <2>5. CASE UNCHANGED vars
    BY <2>5 DEF vars
  <2> QED
    BY <2>1, <2>2, <2>3, <2>4, <2>5 DEF Next
<1> QED
  BY <1>1, <1>2, PTL DEF Spec

(* Once the recording is gone nothing is released any more, and a withdrawn *)
(* insight stays withdrawn (store.delete_conversation is final by then).    *)
THEOREM Final == Spec => DestructionIsFinal
<1> DEFINE Kept == \A c \in Conv : recording[c] = "destroyed" =>
                     /\ recording'[c] = "destroyed"
                     /\ releases'[c] = releases[c]
                     /\ readable'[c] => readable[c]
<1>1. CustodyInv /\ [Next]_vars => [Kept]_vars
  <2> SUFFICES ASSUME CustodyInv, Next PROVE Kept
    OBVIOUS
  <2> USE DEF CustodyInv, TypeOK
  <2>1. ASSUME NEW c \in Conv, Capture(c) PROVE Kept
    BY <2>1 DEF Capture
  <2>2. ASSUME NEW c \in Conv, Publish(c) PROVE Kept
    BY <2>2 DEF Publish
  <2>3. ASSUME NEW c \in Conv, Destroy(c) PROVE Kept
    BY <2>3 DEF Destroy
  <2>4. ASSUME NEW c \in Conv, Withdraw(c) PROVE Kept
    BY <2>4 DEF Withdraw
  <2> QED
    BY <2>1, <2>2, <2>3, <2>4 DEF Next
<1> QED
  BY <1>1, ReleasedBeforeDestroyed, PTL DEF Spec, DestructionIsFinal
=============================================================================
