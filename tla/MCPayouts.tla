------------------------------ MODULE MCPayouts ------------------------------
EXTENDS Payouts, TLC

CONSTANTS c1, c2, t1, t2

\* c1 and c2 earn 2 each.
MCPayee   == t1 :> c1 @@ t2 :> c2
MCEarning == t1 :> 2 @@ t2 :> 2

\* c1 alone earns 2 and 1.
MCPayee1   == t1 :> c1 @@ t2 :> c1
MCEarning1 == t1 :> 2 @@ t2 :> 1

\* The creators are exchanged together with their transactions.
Exchange == c1 :> c2 @@ c2 :> c1 @@ t1 :> t2 @@ t2 :> t1

Symmetry == Permutations(PayoutIds) \cup Permutations(Requests) \cup {Exchange}

=============================================================================
