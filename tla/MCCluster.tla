----------------------------- MODULE MCCluster -----------------------------
(* An instance of Cluster for TLC: the masters A and X of a slot each, and *)
(* R, which replicates A.                                                  *)
EXTENDS Cluster, TLC

CONSTANTS A, R, X

\* The order of the node ids.
MCName == A :> 1 @@ R :> 2 @@ X :> 3

Replicates == A :> None @@ R :> A @@ X :> None
Serves == 1 :> A @@ 2 :> X
Numbered == A :> 1 @@ R :> 0 @@ X :> 2
============================================================================
