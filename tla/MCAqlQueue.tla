----------------------------- MODULE MCAqlQueue -----------------------------
(* Instances of AqlQueue: a graph-replaying and two plain producers.         *)
EXTENDS AqlQueue, TLC

CONSTANTS g, d, e

MCBudget == (g :> 5) @@ (d :> 2) @@ (e :> 2)
=============================================================================
