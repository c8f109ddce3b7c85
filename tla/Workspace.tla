----------------------------- MODULE Workspace -----------------------------
(***************************************************************************)
(* A tenant's workspace: the live visits of its reps and the accounts of   *)
(* its console, side by side in one gateway and one database.  They share  *)
(* no table and no variable, so a behaviour of one says nothing of the     *)
(* other: a behaviour here is a behaviour of one of the two, chosen at     *)
(* the start, and every property is about one of them.                     *)
(***************************************************************************)
EXTENDS LiveSession, Console

VARIABLE part

workspaceVars == <<part, visitVars, consoleVars>>

WorkspaceInit == part \in {"visits", "console"} /\ VisitInit /\ ConsoleInit

VisitsMove == part = "visits" /\ VisitNext /\ UNCHANGED <<part, consoleVars>>
ConsoleMoves == part = "console" /\ ConsoleNext /\ UNCHANGED <<part, visitVars>>

WorkspaceSpec ==
  /\ WorkspaceInit
  /\ [][VisitsMove \/ ConsoleMoves]_workspaceVars
  /\ part = "visits" => VisitFairness

=============================================================================
