---------------------------- MODULE MCWorkspace ----------------------------
(* The instance of Workspace that TLC checks. *)
EXTENDS Workspace, TLC

CONSTANTS v1, s1, s2, p1, p2, p3

(* The people of the console are interchangeable.  That is sound for the   *)
(* liveness of the visits too: while the visits move, everything that      *)
(* belongs to the console keeps its initial value, which names nobody.     *)
Symmetry == Permutations({p1, p2, p3})

=============================================================================
