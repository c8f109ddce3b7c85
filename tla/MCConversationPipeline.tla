----------------------- MODULE MCConversationPipeline -----------------------
(* ConversationPipeline on small instances. *)
EXTENDS ConversationPipeline, TLC

(* Conversations and workers are interchangeable in the safety runs. *)
Symmetry == Permutations(Conv) \cup Permutations(Worker)
=============================================================================
