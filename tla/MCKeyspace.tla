---------------------------- MODULE MCKeyspace ----------------------------
(* Small instances of Keyspace for TLC. *)
EXTENDS Keyspace, TLC

CONSTANTS k1, k2, w

On(name, k) == [name |-> name, key |-> k]
Blpop(keys) == [name |-> "blpop", keys |-> keys]
Two(name, src, dst) == [name |-> name, src |-> src, dst |-> dst]

\* w writes and uses transactions, the others wait for elements
Writes == {On(name, k) : name \in {"push", "set"}, k \in Keys} \cup
          {On(name, k1) : name \in {"del", "expire", "expired", "persist"}} \cup
          {Two("sort", k2, k1), Two("rename", k2, k1)}
Waits  == {Blpop(<<k1>>), Blpop(<<k2>>), Blpop(<<k2, k1>>), Blpop(<<k1, k2>>),
           Two("blmove", k1, k2), Two("blmove", k2, k1), On("push", k1)}

MCCommands == [c \in Clients |-> IF c = w THEN Writes ELSE Waits]

MCBodies == [c \in Clients |-> {<<On("push", k1), On("push", k2), On("expire", k1)>>,
                                <<Blpop(<<k1>>), On("set", k1)>>}]

Symmetry == Permutations(Clients \ {w})
=============================================================================
