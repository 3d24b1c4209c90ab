---------------------------- MODULE MCConnections ----------------------------
EXTENDS Connections, TLC

\* Slots, ids and members are interchangeable in the safety runs.
Symmetry == Permutations(ConnectionIds) \cup Permutations(Requests) \cup Permutations(Members)

=============================================================================
