------------------------ MODULE MCEnterprisePipeline ------------------------
(* EnterprisePipeline on a small instance. *)
EXTENDS EnterprisePipeline, TLC

(* Routing and erasure meet only in the state column: the instance takes   *)
(* one at a time, each beside the three consumers.                         *)
RoutingOrErasure == {{"retry", "agent"}, {"erasure", "sweep"}}
=============================================================================
