---------------------------- MODULE EpochLeader ----------------------------
(***************************************************************************)
(* What an election by epochs promises: an epoch is won at most once, and  *)
(* a winner is never replaced.  Sentinel.tla is shown to implement it for  *)
(* the elections sentinel.c decides inside one epoch.                      *)
(***************************************************************************)
CONSTANTS Candidates, Epochs

VARIABLE won    \* the set of [epoch, leader] pairs decided so far

Init == won = {}

\* One epoch that nobody has won yet gets its leader.
Win(e, c) ==
  /\ \A w \in won : w.epoch # e
  /\ won' = won \cup {[epoch |-> e, leader |-> c]}

Next == \E e \in Epochs, c \in Candidates : Win(e, c)

Spec == Init /\ [][Next]_won
=============================================================================
