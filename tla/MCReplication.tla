--------------------------- MODULE MCReplication ---------------------------
(* Instances of Replication for TLC.                                       *)
EXTENDS Replication, TLC

CONSTANTS s1, s2, s3

Two == {s1, s2}
Three == {s1, s2, s3}

(* s2 replicates s1.                                                       *)
Pair == [s \in Two |-> IF s = s2 THEN s1 ELSE None]

(* s2 and s3 replicate s1.                                                 *)
Star == [s \in Three |-> IF s = s1 THEN None ELSE s1]

(* The two replicas may be exchanged.                                      *)
Sym == Permutations({s2, s3})

=============================================================================
