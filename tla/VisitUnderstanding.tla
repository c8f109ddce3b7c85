------------------------- MODULE VisitUnderstanding -------------------------
(***************************************************************************)
(* What the system makes of a visit: the analysis of its recording and the *)
(* reading of its live transcript.  The two share no state, so a behaviour *)
(* here is a behaviour of one of them, chosen at the start, and every      *)
(* property is about one of them.                                          *)
(***************************************************************************)
EXTENDS ConversationAnalysis, StreamingEntities

VARIABLE reading

understandingVars == <<reading, analysisVars, streamVars>>

UnderstandingInit ==
  /\ StreamInit
  /\ \/ reading = "recording" /\ AnalysisInit
     \/ /\ reading = "transcript"
        /\ plan = <<>> /\ recording = [named |-> FALSE] /\ done = 0 /\ phase = "none"
        /\ utts = <<>> /\ identified = FALSE /\ copy = TRUE
        /\ sigs = <<>> /\ notes = NoNotes /\ advice = <<>>

AnalysisMoves == reading = "recording" /\ AnalysisNext /\ UNCHANGED <<reading, streamVars>>
TranscriptMoves == reading = "transcript" /\ StreamNext /\ UNCHANGED <<reading, analysisVars>>

UnderstandingSpec ==
  UnderstandingInit /\ [][AnalysisMoves \/ TranscriptMoves]_understandingVars

\* The inductive invariant: nothing is analysed while a transcript is read.
UnderstandingInv ==
  IF reading = "recording" THEN AnalysisInv
  ELSE phase = "none" /\ utts = <<>> /\ sigs = <<>> /\ notes = NoNotes

=============================================================================
