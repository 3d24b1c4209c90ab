--------------------------- MODULE ClusterProofs ---------------------------
(***************************************************************************)
(* Proofs about Cluster for any number of nodes and slots and any bounds.  *)
(***************************************************************************)
EXTENDS Cluster, FiniteSetTheorems, WellFoundedInduction, TLAPS

-----------------------------------------------------------------------------
(* Maxima.                                                                 *)

\* An upper bound that is in the set is its maximum.
LEMMA MaxIs ==
  ASSUME NEW E \in SUBSET Nat, NEW x \in E, \A y \in E : y <= x
  PROVE  Max(E) = x
<1>1. \A y \in E : x >= y
  OBVIOUS
<1>2. \A z \in E : (\A y \in E : z >= y) => z = x
  OBVIOUS
<1> QED
  BY <1>1, <1>2 DEF Max

\* What clusterProcessPacket makes of two epochs.
LEMMA MaxOfTwo ==
  ASSUME NEW a \in Nat, NEW b \in Nat
  PROVE  Max({a, b}) = IF a >= b THEN a ELSE b
<1>1. CASE a >= b
  BY <1>1, MaxIs
<1>2. CASE ~(a >= b)
  BY <1>2, MaxIs
<1> QED
  BY <1>1, <1>2

\* A set of numbers has a least one: the first slot of a packet.
LEMMA MinIn ==
  ASSUME NEW E \in SUBSET Nat, E # {}
  PROVE  Min(E) \in E
<1>1. IsWellFoundedOn(OpToRel(<, Nat), Nat)
  BY NatLessThanWellFounded
<1>2. PICK x \in E : \A y \in E : ~(<<y, x>> \in OpToRel(<, Nat))
  BY <1>1, WFMin
<1>3. \A y \in E : <<y, x>> \in OpToRel(<, Nat) <=> y < x
  BY DEF OpToRel
<1>4. \A y \in E : ~(y < x)
  BY <1>2, <1>3
<1> HIDE DEF OpToRel
<1>5. \A y \in E : x <= y
  BY ONLY <1>4, E \in SUBSET Nat, x \in E
<1> QED
  BY <1>5 DEF Min

-----------------------------------------------------------------------------
(* What holds of a view, a file and a packet.                              *)

\* A replica serves nothing in its own view.
RoleOK(n, S) == S.slaveof[n] # None => \A j \in Slots : S.slots[j] # n

ViewOK(n, S) ==
  /\ S \in View
  /\ EpochsBehind(S) /\ S.failover_auth_epoch <= S.currentEpoch
  /\ RoleOK(n, S)

FileOK(n, C) == C \in File /\ EpochsBehind(C) /\ RoleOK(n, C)

Hdr ==
  [ sender : Nodes, slaveof : Nodes \cup {None}, myslots : SUBSET Slots,
    currentEpoch : Nat, configEpoch : Nat ]

HdrOK(h) == h \in Hdr /\ h.configEpoch <= h.currentEpoch

\* S and T agree on votes and elections.
SameElection(S, T) ==
  /\ T.lastVoteEpoch = S.lastVoteEpoch
  /\ T.failover_auth = S.failover_auth
  /\ T.failover_auth_epoch = S.failover_auth_epoch
  /\ T.failover_auth_count = S.failover_auth_count
  /\ T.late = S.late

-----------------------------------------------------------------------------
(* The functions that change a view.                                       *)

\* Newer epochs are taken over, nothing else changes.
LEMMA LearnEpochsView ==
  ASSUME NEW m \in Nodes, NEW S, ViewOK(m, S), NEW h, HdrOK(h)
  PROVE  /\ ViewOK(m, LearnEpochs(S, h))
         /\ SameElection(S, LearnEpochs(S, h))
         /\ h.currentEpoch <= LearnEpochs(S, h).currentEpoch
         /\ S.currentEpoch <= LearnEpochs(S, h).currentEpoch
         /\ LearnEpochs(S, h).slaveof = S.slaveof /\ LearnEpochs(S, h).slots = S.slots
<1> DEFINE c == Max({S.currentEpoch, h.currentEpoch})
           e == Max({S.configEpoch[h.sender], h.configEpoch})
           f == [S.configEpoch EXCEPT ![h.sender] = e]
           T == LearnEpochs(S, h)
<1>1. S \in View /\ h \in Hdr
  BY DEF ViewOK, HdrOK
<1>2. /\ S.currentEpoch \in Nat /\ h.currentEpoch \in Nat /\ h.configEpoch \in Nat
      /\ S.configEpoch \in [Nodes -> Nat] /\ h.sender \in Nodes
  BY <1>1 DEF View, Hdr
<1>3. /\ c \in Nat /\ S.currentEpoch <= c /\ h.currentEpoch <= c
      /\ e \in Nat /\ (e = S.configEpoch[h.sender] \/ e = h.configEpoch)
  BY <1>2, MaxOfTwo
<1>4. f \in [Nodes -> Nat] /\ \A n \in Nodes : f[n] <= c
  BY <1>2, <1>3 DEF ViewOK, HdrOK, EpochsBehind
<1>5. T = [S EXCEPT !.currentEpoch = c, !.configEpoch = f]
  BY <1>1 DEF LearnEpochs, View
<1> HIDE DEF c, e, f, T
<1>6. /\ T \in View
      /\ T.currentEpoch = c /\ T.configEpoch = f
      /\ SameElection(S, T) /\ T.slaveof = S.slaveof /\ T.slots = S.slots
  BY <1>1, <1>3, <1>4, <1>5 DEF View, SameElection
<1> QED
  BY <1>1, <1>2, <1>3, <1>4, <1>6 DEF T, ViewOK, EpochsBehind, RoleOK, SameElection, View

\* Slots change hands, nothing else does.
LEMMA MoveSlotsView ==
  ASSUME NEW S \in View, NEW moved, NEW to \in Nodes
  PROVE  LET T == MoveSlots(S, moved, to)
         IN /\ T \in View
            /\ T.slots = [j \in Slots |-> IF j \in moved THEN to ELSE S.slots[j]]
            /\ T.currentEpoch = S.currentEpoch /\ T.configEpoch = S.configEpoch
            /\ T.slaveof = S.slaveof /\ SameElection(S, T)
<1> DEFINE f == [j \in Slots |-> IF j \in moved THEN to ELSE S.slots[j]]
           o == S.owner_not_claiming_slot \ moved
           T == MoveSlots(S, moved, to)
<1>1. f \in [Slots -> Nodes \cup {None}] /\ o \in SUBSET Slots
  BY DEF View
<1>2. T = [S EXCEPT !.slots = f, !.owner_not_claiming_slot = o]
  BY DEF MoveSlots, View
<1> HIDE DEF f, o, T
<1>3. /\ T \in View /\ T.slots = f
      /\ T.currentEpoch = S.currentEpoch /\ T.configEpoch = S.configEpoch
      /\ T.slaveof = S.slaveof /\ SameElection(S, T)
  BY <1>1, <1>2 DEF View, SameElection
<1> QED
  BY <1>3 DEF f, T

\* A role changes, nothing else does.
LEMMA RoleView ==
  ASSUME NEW S \in View, NEW n \in Nodes, NEW master \in Nodes \cup {None}
  PROVE  LET T == [S EXCEPT !.slaveof[n] = master]
         IN /\ T \in View
            /\ T.slaveof = [S.slaveof EXCEPT ![n] = master]
            /\ T.currentEpoch = S.currentEpoch /\ T.configEpoch = S.configEpoch
            /\ T.slots = S.slots /\ SameElection(S, T)
<1> DEFINE f == [S.slaveof EXCEPT ![n] = master]
           T == [S EXCEPT !.slaveof[n] = master]
<1>1. f \in [Nodes -> Nodes \cup {None}]
  BY DEF View
<1>2. T = [S EXCEPT !.slaveof = f]
  BY DEF View
<1> HIDE DEF f, T
<1>3. /\ T \in View /\ T.slaveof = f
      /\ T.currentEpoch = S.currentEpoch /\ T.configEpoch = S.configEpoch
      /\ T.slots = S.slots /\ SameElection(S, T)
  BY <1>1, <1>2 DEF View, SameElection
<1> QED
  BY <1>3 DEF f, T

\* An epoch that is not newer than currentEpoch is given to a node, nothing
\* else changes.
LEMMA ConfigEpochView ==
  ASSUME NEW S \in View, NEW n \in Nodes, NEW epoch \in Nat
  PROVE  LET T == [S EXCEPT !.configEpoch[n] = epoch]
         IN /\ T \in View
            /\ T.configEpoch = [S.configEpoch EXCEPT ![n] = epoch]
            /\ T.currentEpoch = S.currentEpoch /\ T.slaveof = S.slaveof
            /\ T.slots = S.slots /\ SameElection(S, T)
<1> DEFINE f == [S.configEpoch EXCEPT ![n] = epoch]
           T == [S EXCEPT !.configEpoch[n] = epoch]
<1>1. f \in [Nodes -> Nat]
  BY DEF View
<1>2. T = [S EXCEPT !.configEpoch = f]
  BY DEF View
<1> HIDE DEF f, T
<1>3. /\ T \in View /\ T.configEpoch = f
      /\ T.currentEpoch = S.currentEpoch /\ T.slaveof = S.slaveof
      /\ T.slots = S.slots /\ SameElection(S, T)
  BY <1>1, <1>2 DEF View, SameElection
<1> QED
  BY <1>3 DEF f, T

\* The types of what the invariants look at.
LEMMA ViewTypes ==
  ASSUME NEW S \in View
  PROVE  /\ S.currentEpoch \in Nat /\ S.lastVoteEpoch \in Nat
         /\ S.configEpoch \in [Nodes -> Nat] /\ S.slaveof \in [Nodes -> Nodes \cup {None}]
         /\ S.slots \in [Slots -> Nodes \cup {None}]
         /\ S.failover_auth_epoch \in Nat /\ S.failover_auth_count \in Nat
         /\ S.owner_not_claiming_slot \in SUBSET Slots
BY DEF View

\* The role switch: a node that others have become replicas of is a master in
\* its own view from then on.
LEMMA SwitchRoleView ==
  ASSUME NEW m \in Nodes, NEW S, ViewOK(m, S), NEW h, HdrOK(h), h.sender # m,
         h.configEpoch <= S.currentEpoch
  PROVE  LET T == SwitchRole(S, h)
         IN ViewOK(m, T) /\ SameElection(S, T) /\ T.currentEpoch = S.currentEpoch
<1>1. /\ S \in View /\ h.sender \in Nodes /\ h.slaveof \in Nodes \cup {None}
      /\ h.configEpoch \in Nat
  BY DEF ViewOK, HdrOK, Hdr
<1>2. CASE h.slaveof = None
  <2> DEFINE T == [S EXCEPT !.slaveof[h.sender] = None]
  <2>1. SwitchRole(S, h) = T
    BY <1>2 DEF SwitchRole, clusterSetNodeAsMaster
  <2>2. /\ T \in View /\ T.slaveof = [S.slaveof EXCEPT ![h.sender] = None]
        /\ T.currentEpoch = S.currentEpoch /\ T.configEpoch = S.configEpoch
        /\ T.slots = S.slots /\ SameElection(S, T)
    BY <1>1, RoleView
  <2> HIDE DEF T
  <2>3. ViewOK(m, T)
    BY <1>1, <2>2, ViewTypes DEF ViewOK, EpochsBehind, RoleOK, SameElection
  <2> QED
    BY <2>1, <2>2, <2>3
<1>3. CASE h.slaveof # None
  <2> DEFINE A == MoveSlots(S, SlotsOf(S, h.sender), h.slaveof)
             B == [A EXCEPT !.slaveof[h.slaveof] = None]
             C == [B EXCEPT !.configEpoch[h.slaveof] = h.configEpoch]
             T == IF IsMaster(S, h.sender) THEN MasterTurnedSlave(S, h) ELSE S
  <2>1. T \in {S, C}
    BY DEF MasterTurnedSlave, clusterSetNodeAsMaster
  <2>2. SwitchRole(S, h) = [T EXCEPT !.slaveof[h.sender] = h.slaveof]
    BY <1>3 DEF SwitchRole
  <2>3. h.slaveof \in Nodes
    BY <1>1, <1>3
  <2>4. ViewOK(m, C) /\ SameElection(S, C) /\ C.currentEpoch = S.currentEpoch
    <3>1. /\ A \in View /\ A.currentEpoch = S.currentEpoch /\ A.configEpoch = S.configEpoch
          /\ A.slots = [j \in Slots |-> IF j \in SlotsOf(S, h.sender) THEN h.slaveof
                                        ELSE S.slots[j]]
          /\ A.slaveof = S.slaveof /\ SameElection(S, A)
      BY <1>1, <2>3, MoveSlotsView
    <3> HIDE DEF A
    <3>2. /\ B \in View /\ B.currentEpoch = A.currentEpoch /\ B.configEpoch = A.configEpoch
          /\ B.slots = A.slots /\ SameElection(A, B)
          /\ B.slaveof = [A.slaveof EXCEPT ![h.slaveof] = None]
      BY <2>3, <3>1, RoleView
    <3> HIDE DEF B
    <3>3. /\ C \in View /\ C.currentEpoch = B.currentEpoch /\ C.slaveof = B.slaveof
          /\ C.slots = B.slots /\ SameElection(B, C)
          /\ C.configEpoch = [B.configEpoch EXCEPT ![h.slaveof] = h.configEpoch]
      BY <1>1, <2>3, <3>2, ConfigEpochView
    <3> HIDE DEF C
    <3>4. C.slaveof = [S.slaveof EXCEPT ![h.slaveof] = None] /\ C.currentEpoch = S.currentEpoch
      BY <3>1, <3>2, <3>3
    <3>5. SameElection(S, C)
      BY <3>1, <3>2, <3>3 DEF SameElection
    <3>6. EpochsBehind(C) /\ C.failover_auth_epoch <= C.currentEpoch
      BY <1>1, <2>3, <3>1, <3>2, <3>3, <3>4, <3>5, ViewTypes
      DEF ViewOK, EpochsBehind, SameElection
    <3>7. RoleOK(m, C)
      <4>1. CASE h.slaveof = m
        BY <1>1, <3>4, <4>1, ViewTypes DEF RoleOK
      <4>2. CASE h.slaveof # m
        BY <1>1, <3>1, <3>2, <3>3, <3>4, <4>2, ViewTypes DEF ViewOK, RoleOK, SlotsOf
      <4> QED
        BY <4>1, <4>2
    <3> QED
      BY <3>3, <3>4, <3>5, <3>6, <3>7 DEF ViewOK
  <2>5. ViewOK(m, T) /\ SameElection(S, T) /\ T.currentEpoch = S.currentEpoch
    BY <2>1, <2>4 DEF SameElection
  <2> HIDE DEF T
  <2> QED
    BY <1>1, <2>2, <2>3, <2>5, RoleView, ViewTypes
    DEF ViewOK, EpochsBehind, RoleOK, SameElection
<1> QED
  BY <1>2, <1>3

\* Slots go to another node; a node that turns into a replica, or stays one,
\* has none left.
LEMMA UpdateSlotsView ==
  ASSUME NEW m \in Nodes, NEW S, ViewOK(m, S), NEW sender \in Nodes, NEW epoch,
         NEW claimed \in SUBSET Slots
  PROVE  LET T == clusterUpdateSlotsConfigWith(S, m, sender, epoch, claimed)
         IN ViewOK(m, T) /\ SameElection(S, T) /\ T.currentEpoch = S.currentEpoch
<1>1. S \in View
  BY DEF ViewOK
<1>2. CASE sender = m
  BY <1>2 DEF clusterUpdateSlotsConfigWith, SameElection
<1>3. CASE sender # m
  <2> DEFINE curmaster == IF IsMaster(S, m) THEN m ELSE S.slaveof[m]
             owned == SlotsOf(S, sender)
             rebound == {j \in claimed \ owned : \/ isSlotUnclaimed(S, j)
                                                 \/ S.configEpoch[S.slots[j]] < epoch}
             taken == rebound \cap SlotsOf(S, curmaster)
             M == MoveSlots(S, rebound, sender)
             o == (M.owner_not_claiming_slot \ (owned \cap claimed)) \cup (owned \ claimed)
             T == [M EXCEPT !.owner_not_claiming_slot = o]
             upper == T.slaveof[m]
             R == clusterUpdateSlotsConfigWith(S, m, sender, epoch, claimed)
  <2>1. /\ M \in View
        /\ M.slots = [j \in Slots |-> IF j \in rebound THEN sender ELSE S.slots[j]]
        /\ M.currentEpoch = S.currentEpoch /\ M.configEpoch = S.configEpoch
        /\ M.slaveof = S.slaveof /\ SameElection(S, M)
    BY <1>1, MoveSlotsView
  <2>2. R = IF taken # {} /\ SlotsOf(T, curmaster) = {} THEN [T EXCEPT !.slaveof[m] = sender]
            ELSE IF upper # None /\ T.slaveof[upper] \notin {None, m}
                 THEN [T EXCEPT !.slaveof[m] = T.slaveof[upper]]
            ELSE T
    BY <1>3, <2>1 DEF clusterUpdateSlotsConfigWith, clusterSetMaster, View
  <2>3. o \in SUBSET Slots
    BY <2>1 DEF View, SlotsOf
  <2> HIDE DEF M, o
  <2>4. /\ T \in View /\ T.slots = M.slots /\ T.currentEpoch = M.currentEpoch
        /\ T.configEpoch = M.configEpoch /\ T.slaveof = M.slaveof /\ SameElection(M, T)
    BY <2>1, <2>3 DEF View, SameElection
  <2> HIDE DEF T
  <2>5. /\ T.currentEpoch = S.currentEpoch /\ SameElection(S, T) /\ T.slaveof = S.slaveof
        /\ EpochsBehind(T) /\ T.failover_auth_epoch <= T.currentEpoch
    BY <1>1, <2>1, <2>4, ViewTypes DEF ViewOK, EpochsBehind, SameElection
  <2>6. ASSUME NEW j \in Slots, T.slots[j] = m PROVE S.slots[j] = m
    BY <1>3, <2>1, <2>4, <2>6
  <2>7. ASSUME NEW master \in Nodes,
               \A j \in Slots : T.slots[j] # m
        PROVE  LET U == [T EXCEPT !.slaveof[m] = master]
               IN ViewOK(m, U) /\ SameElection(S, U) /\ U.currentEpoch = S.currentEpoch
    <3> DEFINE U == [T EXCEPT !.slaveof[m] = master]
    <3>1. /\ U \in View /\ U.currentEpoch = T.currentEpoch /\ U.configEpoch = T.configEpoch
          /\ U.slots = T.slots /\ SameElection(T, U)
      BY <2>4, RoleView
    <3> HIDE DEF U
    <3>2. ViewOK(m, U) /\ SameElection(S, U) /\ U.currentEpoch = S.currentEpoch
      BY <2>5, <2>7, <3>1 DEF ViewOK, EpochsBehind, RoleOK, SameElection
    <3> QED
      BY <3>2 DEF U
  <2>8. CASE taken # {} /\ SlotsOf(T, curmaster) = {}
    <3>1. \A j \in Slots : T.slots[j] # m
      <4>1. CASE IsMaster(S, m)
        BY <2>8, <4>1 DEF SlotsOf
      <4>2. CASE ~IsMaster(S, m)
        BY <2>6, <4>2 DEF IsMaster, ViewOK, RoleOK
      <4> QED
        BY <4>1, <4>2
    <3> QED
      BY <2>2, <2>7, <2>8, <3>1
  <2>9. CASE /\ ~(taken # {} /\ SlotsOf(T, curmaster) = {})
             /\ upper # None /\ T.slaveof[upper] \notin {None, m}
    <3>1. \A j \in Slots : T.slots[j] # m
      BY <2>5, <2>6, <2>9 DEF ViewOK, RoleOK
    <3>2. T.slaveof[upper] \in Nodes
      BY <2>4, <2>9, ViewTypes
    <3> QED
      BY <2>2, <2>7, <2>9, <3>1, <3>2
  <2>10. CASE /\ ~(taken # {} /\ SlotsOf(T, curmaster) = {})
              /\ ~(upper # None /\ T.slaveof[upper] \notin {None, m})
    <3>1. RoleOK(m, T)
      BY <2>5, <2>6 DEF ViewOK, RoleOK
    <3> QED
      BY <2>2, <2>4, <2>5, <2>10, <3>1 DEF ViewOK
  <2> QED
    BY <2>8, <2>9, <2>10
<1> QED
  BY <1>2, <1>3

\* A header tells no epoch newer than the sender's currentEpoch.
LEMMA HeaderOK ==
  ASSUME NEW n \in Nodes, NEW S, ViewOK(n, S)
  PROVE  /\ HdrOK(Header(S, n)) /\ Header(S, n).sender = n
         /\ Header(S, n).currentEpoch = S.currentEpoch
<1>1. S \in View /\ EpochsBehind(S)
  BY DEF ViewOK
<1> DEFINE master == IF IsMaster(S, n) THEN n ELSE S.slaveof[n]
<1>2. master \in Nodes
  BY <1>1, ViewTypes DEF IsMaster
<1>3. S.configEpoch[master] \in Nat /\ S.configEpoch[master] <= S.currentEpoch
  BY <1>1, <1>2, ViewTypes DEF EpochsBehind
<1>4. SlotsOf(S, master) \in SUBSET Slots
  BY DEF SlotsOf
<1>5. Header(S, n) = [ sender |-> n, slaveof |-> S.slaveof[n], myslots |-> SlotsOf(S, master),
                       currentEpoch |-> S.currentEpoch, configEpoch |-> S.configEpoch[master] ]
  BY DEF Header
<1> HIDE DEF master
<1> QED
  BY <1>1, <1>2, <1>3, <1>4, <1>5, ViewTypes DEF HdrOK, Hdr

\* A PING up to the announced slots.
LEMMA AfterSlotsView ==
  ASSUME NEW m \in Nodes, NEW S, ViewOK(m, S), NEW h, HdrOK(h), h.sender # m
  PROVE  ViewOK(m, AfterSlots(S, m, h)) /\ SameElection(S, AfterSlots(S, m, h))
<1> DEFINE L == LearnEpochs(S, h)
           T == SwitchRole(L, h)
           U == clusterUpdateSlotsConfigWith(T, m, h.sender, h.configEpoch, h.myslots)
<1>1. /\ h.sender \in Nodes /\ h.configEpoch \in Nat /\ h.currentEpoch \in Nat
      /\ h.myslots \in SUBSET Slots /\ h.configEpoch <= h.currentEpoch
  BY DEF HdrOK, Hdr
<1>2. /\ ViewOK(m, L) /\ SameElection(S, L)
      /\ h.currentEpoch <= L.currentEpoch
  BY LearnEpochsView
<1>3. h.configEpoch <= L.currentEpoch
  BY <1>1, <1>2, ViewTypes DEF ViewOK
<1> HIDE DEF L
<1>4. ViewOK(m, T) /\ SameElection(L, T)
  BY <1>2, <1>3, SwitchRoleView
<1> HIDE DEF T
<1>5. ViewOK(m, U) /\ SameElection(T, U)
  BY <1>1, <1>4, UpdateSlotsView
<1> HIDE DEF U
<1>6. AfterSlots(S, m, h) \in {T, U}
  BY DEF AfterSlots, L, T, U
<1> QED
  BY <1>2, <1>4, <1>5, <1>6 DEF SameElection

\* A node takes currentEpoch + 1 for its own.
LEMMA NextEpochView ==
  ASSUME NEW m \in Nodes, NEW S, ViewOK(m, S)
  PROVE  LET T == [S EXCEPT !.currentEpoch = @ + 1, !.configEpoch[m] = S.currentEpoch + 1]
         IN ViewOK(m, T) /\ SameElection(S, T)
<1> DEFINE c == S.currentEpoch + 1
           f == [S.configEpoch EXCEPT ![m] = c]
           T == [S EXCEPT !.currentEpoch = @ + 1, !.configEpoch[m] = S.currentEpoch + 1]
<1>1. S \in View
  BY DEF ViewOK
<1>2. c \in Nat /\ f \in [Nodes -> Nat] /\ \A n \in Nodes : f[n] <= c
  BY <1>1, ViewTypes DEF ViewOK, EpochsBehind
<1>3. T = [S EXCEPT !.currentEpoch = c, !.configEpoch = f]
  BY <1>1 DEF View
<1>4. S.currentEpoch <= c
  BY <1>1, ViewTypes
<1> HIDE DEF c, f, T
<1>5. /\ T \in View /\ T.currentEpoch = c /\ T.configEpoch = f
      /\ T.slaveof = S.slaveof /\ T.slots = S.slots /\ SameElection(S, T)
  BY <1>1, <1>2, <1>3 DEF View, SameElection
<1>6. ViewOK(m, T)
  BY <1>1, <1>2, <1>4, <1>5, ViewTypes DEF ViewOK, EpochsBehind, RoleOK, SameElection
<1> QED
  BY <1>5, <1>6 DEF T

\* PING and PONG.
LEMMA ProcessPingView ==
  ASSUME NEW m \in Nodes, NEW S, ViewOK(m, S), NEW h, HdrOK(h), h.sender # m
  PROVE  ViewOK(m, ProcessPing(S, m, h)) /\ SameElection(S, ProcessPing(S, m, h))
<1> DEFINE A == AfterSlots(S, m, h)
           T == [A EXCEPT !.currentEpoch = @ + 1, !.configEpoch[m] = A.currentEpoch + 1]
<1>1. ViewOK(m, A) /\ SameElection(S, A)
  BY AfterSlotsView
<1> HIDE DEF A
<1>2. ViewOK(m, T) /\ SameElection(A, T)
  BY <1>1, NextEpochView
<1>3. ProcessPing(S, m, h) \in {A, T}
  BY DEF ProcessPing, clusterHandleConfigEpochCollision, A
<1> HIDE DEF T
<1> QED
  BY <1>1, <1>2, <1>3 DEF SameElection

\* UPDATE.
LEMMA ProcessUpdateView ==
  ASSUME NEW m \in Nodes, NEW S, ViewOK(m, S), NEW p, HdrOK(p.hdr), p.nodename \in Nodes,
         p.reportedConfigEpoch \in Nat, p.reportedConfigEpoch <= p.hdr.currentEpoch,
         p.slots \in SUBSET Slots
  PROVE  ViewOK(m, ProcessUpdate(S, m, p)) /\ SameElection(S, ProcessUpdate(S, m, p))
<1> DEFINE L == LearnEpochs(S, p.hdr)
           n == p.nodename
           A == [L EXCEPT !.slaveof[n] = None]
           B == [A EXCEPT !.configEpoch[n] = p.reportedConfigEpoch]
           T == clusterUpdateSlotsConfigWith(B, m, n, p.reportedConfigEpoch, p.slots)
<1>1. /\ ViewOK(m, L) /\ SameElection(S, L)
      /\ p.hdr.currentEpoch <= L.currentEpoch
  BY LearnEpochsView
<1>2. L \in View /\ p.hdr.currentEpoch \in Nat
  BY <1>1 DEF ViewOK, HdrOK, Hdr
<1>3. ProcessUpdate(S, m, p) \in {L, T}
  BY DEF ProcessUpdate, clusterSetNodeAsMaster
<1>4. p.reportedConfigEpoch <= L.currentEpoch
  BY <1>1, <1>2, ViewTypes
<1>n. n \in Nodes /\ None \in Nodes \cup {None}
  OBVIOUS
<1> HIDE DEF L, n
<1>5. /\ A \in View /\ A.slaveof = [L.slaveof EXCEPT ![n] = None]
      /\ A.currentEpoch = L.currentEpoch /\ A.configEpoch = L.configEpoch
      /\ A.slots = L.slots /\ SameElection(L, A)
  BY <1>2, <1>n, RoleView
<1> HIDE DEF A
<1>6. /\ B \in View /\ B.configEpoch = [A.configEpoch EXCEPT ![n] = p.reportedConfigEpoch]
      /\ B.currentEpoch = A.currentEpoch /\ B.slaveof = A.slaveof
      /\ B.slots = A.slots /\ SameElection(A, B)
  BY <1>5, <1>n, ConfigEpochView
<1> HIDE DEF B
<1>7. RoleOK(m, B)
  <2>1. B.slaveof[m] # None => L.slaveof[m] # None
    BY <1>2, <1>5, <1>6, <1>n, ViewTypes
  <2> QED
    BY <1>1, <1>5, <1>6, <2>1 DEF ViewOK, RoleOK
<1>8. ViewOK(m, B) /\ SameElection(S, B)
  BY <1>1, <1>2, <1>4, <1>5, <1>6, <1>7, <1>n, ViewTypes
  DEF ViewOK, EpochsBehind, SameElection
<1>9. ViewOK(m, T) /\ SameElection(B, T)
  BY <1>8, <1>n, UpdateSlotsView
<1> HIDE DEF T
<1> QED
  BY <1>1, <1>3, <1>8, <1>9 DEF SameElection

\* A failover or a takeover: the new master's own role and slots.
LEMMA ReplaceYourMasterView ==
  ASSUME NEW n \in Nodes, NEW S, ViewOK(n, S)
  PROVE  LET T == clusterFailoverReplaceYourMaster(S, n)
         IN ViewOK(n, T) /\ SameElection(S, T)
<1> DEFINE moved == SlotsOf(S, S.slaveof[n])
           A == MoveSlots(S, moved, n)
           T == [A EXCEPT !.slaveof[n] = None]
<1>1. S \in View
  BY DEF ViewOK
<1>2. clusterFailoverReplaceYourMaster(S, n) = T
  BY DEF clusterFailoverReplaceYourMaster, clusterSetNodeAsMaster
<1> HIDE DEF moved
<1>3. /\ A \in View
      /\ A.slots = [j \in Slots |-> IF j \in moved THEN n ELSE S.slots[j]]
      /\ A.currentEpoch = S.currentEpoch /\ A.configEpoch = S.configEpoch
      /\ A.slaveof = S.slaveof /\ SameElection(S, A)
  BY <1>1, MoveSlotsView
<1> HIDE DEF A
<1>4. /\ T \in View /\ T.currentEpoch = A.currentEpoch /\ T.configEpoch = A.configEpoch
      /\ SameElection(A, T) /\ T.slaveof = [A.slaveof EXCEPT ![n] = None]
  BY <1>3, RoleView
<1> HIDE DEF T
<1>5. ViewOK(n, T) /\ SameElection(S, T)
  BY <1>1, <1>3, <1>4, ViewTypes DEF ViewOK, EpochsBehind, RoleOK, SameElection
<1> QED
  BY <1>2, <1>5

\* What is saved of a view is as good as the view.
LEMMA SavedFile ==
  ASSUME NEW n \in Nodes, NEW S, ViewOK(n, S)
  PROVE  FileOK(n, Saved(S)) /\ Saved(S).lastVoteEpoch = S.lastVoteEpoch
<1> DEFINE f == [m \in Nodes |-> IF IsMaster(S, m) THEN S.configEpoch[m]
                                 ELSE S.configEpoch[S.slaveof[m]]]
<1>1. S \in View /\ EpochsBehind(S)
  BY DEF ViewOK
<1>2. f \in [Nodes -> Nat] /\ \A m \in Nodes : f[m] <= S.currentEpoch
  BY <1>1, ViewTypes DEF EpochsBehind, IsMaster
<1>3. Saved(S) = [ currentEpoch |-> S.currentEpoch, lastVoteEpoch |-> S.lastVoteEpoch,
                   slaveof |-> S.slaveof, slots |-> S.slots, configEpoch |-> f ]
  BY DEF Saved
<1> HIDE DEF f
<1> QED
  BY <1>1, <1>2, <1>3, ViewTypes DEF FileOK, File, EpochsBehind, ViewOK, RoleOK

-----------------------------------------------------------------------------
(* The inductive invariant.                                                *)

PacketOK(p) ==
  /\ p.to \in Nodes /\ HdrOK(p.hdr) /\ p.hdr.sender # p.to
  /\ p.type = "UPDATE" => /\ p.nodename \in Nodes /\ p.slots \in SUBSET Slots
                          /\ p.reportedConfigEpoch \in Nat
                          /\ p.reportedConfigEpoch <= p.hdr.currentEpoch

\* The vote a FAILOVER_AUTH_ACK brings.
VoteOf(p) == [epoch |-> p.hdr.currentEpoch, voter |-> p.hdr.sender, for |-> p.to]

\* An ACK on its way is a vote that was granted, and the only ACK for it.
AcksOK(N, V) ==
  /\ \A p \in N : p.type = "ACK" => VoteOf(p) \in V
  /\ \A p, q \in N : p.type = "ACK" /\ q.type = "ACK" /\ VoteOf(p) = VoteOf(q) => p = q

\* What a candidate has counted are votes cast for it in the epoch of its
\* request or later, and none of them is still on its way.
CountOK(n, S, V, N) ==
  ~S.late =>
    /\ S.failover_auth # "sent" => S.failover_auth_count = 0
    /\ \E C \in SUBSET {v \in V : v.for = n /\ v.epoch >= S.failover_auth_epoch} :
         /\ IsFiniteSet(C) /\ Cardinality(C) = S.failover_auth_count
         /\ \A p \in N : p.type = "ACK" /\ p.to = n => VoteOf(p) \notin C

Vote == [epoch : Nat, voter : Nodes, for : Nodes]

ClusterInv ==
  /\ TypeOK
  /\ \A n \in Nodes : ViewOK(n, st[n]) /\ FileOK(n, conf[n])
  /\ \A p \in net : PacketOK(p)
  /\ votes \subseteq Vote /\ IsFiniteSet(votes) /\ VotesUnique
  /\ AcksOK(net, votes)
  /\ \A n \in Nodes : CountOK(n, st[n], votes, net)
  /\ won \subseteq [epoch : Nat, leader : Nodes, count : Nat] /\ WonByVotes

\* More votes, fewer packets and new votes on their way do not disturb what
\* was counted.
LEMMA CountKept ==
  ASSUME NEW n, NEW S, NEW T, NEW V, NEW W, NEW N, NEW M,
         CountOK(n, S, V, N), V \subseteq W, T.late = S.late,
         T.failover_auth = S.failover_auth, T.failover_auth_epoch = S.failover_auth_epoch,
         T.failover_auth_count = S.failover_auth_count,
         \A p \in M : p.type = "ACK" /\ p.to = n => p \in N \/ VoteOf(p) \notin V
  PROVE  CountOK(n, T, W, M)
<1> SUFFICES ASSUME ~T.late
             PROVE  /\ T.failover_auth # "sent" => T.failover_auth_count = 0
                    /\ \E C \in SUBSET {v \in W : v.for = n /\ v.epoch >= T.failover_auth_epoch} :
                         /\ IsFiniteSet(C) /\ Cardinality(C) = T.failover_auth_count
                         /\ \A p \in M : p.type = "ACK" /\ p.to = n => VoteOf(p) \notin C
  BY DEF CountOK
<1>1. /\ S.failover_auth # "sent" => S.failover_auth_count = 0
      /\ \E C \in SUBSET {v \in V : v.for = n /\ v.epoch >= S.failover_auth_epoch} :
           /\ IsFiniteSet(C) /\ Cardinality(C) = S.failover_auth_count
           /\ \A p \in N : p.type = "ACK" /\ p.to = n => VoteOf(p) \notin C
  BY DEF CountOK
<1>2. PICK C \in SUBSET {v \in V : v.for = n /\ v.epoch >= S.failover_auth_epoch} :
           /\ IsFiniteSet(C) /\ Cardinality(C) = S.failover_auth_count
           /\ \A p \in N : p.type = "ACK" /\ p.to = n => VoteOf(p) \notin C
  BY <1>1
<1>3. C \in SUBSET {v \in W : v.for = n /\ v.epoch >= T.failover_auth_epoch}
  BY <1>2
<1>4. \A p \in M : p.type = "ACK" /\ p.to = n => VoteOf(p) \notin C
  BY <1>2
<1> QED
  BY <1>1, <1>2, <1>3, <1>4

\* The UPDATE a stale PING is answered with.
LEMMA UpdatesOK ==
  ASSUME NEW m \in Nodes, NEW S, ViewOK(m, S), NEW h, HdrOK(h), h.sender # m,
         NEW u \in Updates(S, m, h)
  PROVE  PacketOK(u) /\ u.type = "UPDATE"
<1> DEFINE T == AfterSlots(S, m, h)
           newer == {j \in h.myslots : /\ T.slots[j] # h.sender /\ ~isSlotUnclaimed(T, j)
                                       /\ T.configEpoch[T.slots[j]] > h.configEpoch}
           about == T.slots[Min(newer)]
           claimed == SlotsOf(T, about) \ T.owner_not_claiming_slot
<1>1. ViewOK(m, T)
  BY AfterSlotsView
<1>2. HdrOK(Header(T, m)) /\ Header(T, m).sender = m /\ Header(T, m).currentEpoch = T.currentEpoch
  BY <1>1, HeaderOK
<1>3. /\ newer # {}
      /\ u = UpdatePacket(h.sender, Header(T, m), about, T.configEpoch[about], claimed)
  BY DEF Updates
<1>4. h.sender \in Nodes /\ h.myslots \in SUBSET Slots
  BY DEF HdrOK, Hdr
<1> HIDE DEF T
<1>5. newer \in SUBSET Nat
  BY <1>4, ClusterAssumption
<1>6. Min(newer) \in newer
  BY <1>3, <1>5, MinIn
<1>7. about \in Nodes
  <2>1. T.slots \in [Slots -> Nodes \cup {None}]
    BY <1>1, ViewTypes DEF ViewOK
  <2>2. \A j \in newer : T.slots[j] \in Nodes
    BY <1>4, <2>1 DEF isSlotUnclaimed
  <2> QED
    BY <1>6, <2>2
<1>8. claimed \in SUBSET Slots
  BY DEF SlotsOf
<1> HIDE DEF newer, about, claimed
<1>9. T.configEpoch[about] \in Nat /\ T.configEpoch[about] <= T.currentEpoch
  BY <1>1, <1>7, ViewTypes DEF ViewOK, EpochsBehind
<1> QED
  BY <1>2, <1>3, <1>4, <1>7, <1>8, <1>9 DEF PacketOK, UpdatePacket

-----------------------------------------------------------------------------
(* The steps.                                                              *)

\* A node's memory changes, and its file when something to be saved has.
LEMMA BecomeTypes ==
  ASSUME ClusterInv, NEW n \in Nodes, NEW T, ViewOK(n, T), Become(n, T)
  PROVE  /\ TypeOK'
         /\ \A m \in Nodes : ViewOK(m, st'[m]) /\ FileOK(m, conf'[m])
         /\ st'[n] = T
         /\ \A m \in Nodes \ {n} : st'[m] = st[m] /\ conf'[m] = conf[m]
         /\ conf'[n] = IF NeedsSave(st[n], T) THEN Saved(T) ELSE conf[n]
<1>1. st \in [Nodes -> View] /\ conf \in [Nodes -> File]
  BY DEF ClusterInv, TypeOK
<1>2. FileOK(n, Saved(T)) /\ T \in View
  BY SavedFile DEF ViewOK
<1>3. Saved(T) \in File
  BY <1>2 DEF FileOK
<1>4. /\ st' = [st EXCEPT ![n] = T]
      /\ conf' = [conf EXCEPT ![n] = IF NeedsSave(st[n], T) THEN Saved(T) ELSE conf[n]]
  BY <1>1 DEF Become
<1>5. /\ st'[n] = T
      /\ \A m \in Nodes \ {n} : st'[m] = st[m] /\ conf'[m] = conf[m]
      /\ conf'[n] = IF NeedsSave(st[n], T) THEN Saved(T) ELSE conf[n]
  BY <1>1, <1>4
<1>6. TypeOK'
  BY <1>1, <1>2, <1>3, <1>4 DEF TypeOK
<1>7. \A m \in Nodes : ViewOK(m, st[m]) /\ FileOK(m, conf[m])
  BY DEF ClusterInv
<1>8. FileOK(n, conf'[n]) /\ ViewOK(n, st'[n])
  BY <1>2, <1>5, <1>7
<1> QED
  BY <1>5, <1>6, <1>7, <1>8

\* A step that neither votes, counts nor starts or wins an election keeps the
\* invariant when the packets it leaves are in order.
LEMMA QuietStep ==
  ASSUME ClusterInv, NEW n \in Nodes, NEW T, ViewOK(n, T), SameElection(st[n], T), Become(n, T),
         \A p \in net' : PacketOK(p), \A p \in net' : p.type = "ACK" => p \in net,
         votes' = votes,
         \/ won' = won
         \/ won' \subseteq [epoch : Nat, leader : Nodes, count : Nat] /\ WonByVotes'
  PROVE  ClusterInv'
<1>1. /\ TypeOK'
      /\ \A m \in Nodes : ViewOK(m, st'[m]) /\ FileOK(m, conf'[m])
      /\ st'[n] = T
      /\ \A m \in Nodes \ {n} : st'[m] = st[m] /\ conf'[m] = conf[m]
      /\ conf'[n] = IF NeedsSave(st[n], T) THEN Saved(T) ELSE conf[n]
  BY BecomeTypes
<1>2. /\ votes \subseteq Vote /\ IsFiniteSet(votes) /\ VotesUnique /\ AcksOK(net, votes)
      /\ \A m \in Nodes : CountOK(m, st[m], votes, net)
      /\ won \subseteq [epoch : Nat, leader : Nodes, count : Nat] /\ WonByVotes
  BY DEF ClusterInv
<1>3. \A m \in Nodes : SameElection(st[m], st'[m])
  BY <1>1 DEF SameElection
<1>4. Saved(T).lastVoteEpoch = st[n].lastVoteEpoch
  BY SavedFile DEF SameElection
<1>5. \A v \in votes : v.voter \in Nodes
  BY <1>2 DEF Vote
<1>6. \A v \in votes : /\ v.epoch <= st'[v.voter].lastVoteEpoch
                       /\ v.epoch <= conf'[v.voter].lastVoteEpoch
  <2> SUFFICES ASSUME NEW v \in votes
               PROVE  /\ v.epoch <= st'[v.voter].lastVoteEpoch
                      /\ v.epoch <= conf'[v.voter].lastVoteEpoch
    OBVIOUS
  <2>1. v.epoch <= st[v.voter].lastVoteEpoch /\ v.epoch <= conf[v.voter].lastVoteEpoch
    BY <1>2 DEF VotesUnique
  <2>2. CASE v.voter = n
    BY <1>1, <1>3, <1>4, <2>1, <2>2 DEF SameElection
  <2>3. CASE v.voter # n
    BY <1>1, <1>5, <2>1, <2>3
  <2> QED
    BY <2>2, <2>3
<1>7. VotesUnique'
  BY <1>2, <1>6 DEF VotesUnique
<1>8. AcksOK(net', votes')
  BY <1>2 DEF AcksOK
<1>9. \A m \in Nodes : CountOK(m, st'[m], votes', net')
  BY <1>2, <1>3, CountKept DEF SameElection
<1>10. won' \subseteq [epoch : Nat, leader : Nodes, count : Nat] /\ WonByVotes'
  BY <1>2 DEF WonByVotes, VotesFor
<1> QED
  BY <1>1, <1>2, <1>7, <1>8, <1>9, <1>10 DEF ClusterInv

\* Heartbeats, PINGs and UPDATEs that were on their way.
LEMMA HeartbeatStep ==
  ASSUME ClusterInv, NEW n \in Nodes, NEW m \in Nodes, Heartbeat(n, m)
  PROVE  ClusterInv'
<1> DEFINE h == Header(st[n], n)
           T == ProcessPing(st[m], m, h)
<1>1. ViewOK(n, st[n]) /\ ViewOK(m, st[m]) /\ \A p \in net : PacketOK(p)
  BY DEF ClusterInv
<1>2. HdrOK(h) /\ h.sender # m
  BY <1>1, HeaderOK DEF Heartbeat
<1>3. /\ Become(m, T) /\ votes' = votes /\ won' = won
      /\ \E U \in SUBSET Updates(st[m], m, h) : net' = net \cup U
  BY DEF Heartbeat
<1> HIDE DEF h
<1>4. ViewOK(m, T) /\ SameElection(st[m], T)
  BY <1>1, <1>2, ProcessPingView
<1> HIDE DEF T
<1>5. \A u \in Updates(st[m], m, h) : PacketOK(u) /\ u.type = "UPDATE"
  BY <1>1, <1>2, UpdatesOK
<1>6. (\A p \in net' : PacketOK(p)) /\ \A p \in net' : p.type = "ACK" => p \in net
  BY <1>1, <1>3, <1>5
<1> QED
  BY <1>3, <1>4, <1>6, QuietStep

\* A PING or PONG that was on its way.
LEMMA ReceivePingStep ==
  ASSUME ClusterInv, NEW p \in net, ReceivePing(p)
  PROVE  ClusterInv'
<1> DEFINE m == p.to
           T == ProcessPing(st[m], m, p.hdr)
<1>1. m \in Nodes /\ HdrOK(p.hdr) /\ p.hdr.sender # m /\ \A q \in net : PacketOK(q)
  BY DEF ClusterInv, PacketOK
<1>2. ViewOK(m, st[m])
  BY <1>1 DEF ClusterInv
<1>3. /\ Become(m, T) /\ votes' = votes /\ won' = won
      /\ \E U \in SUBSET Updates(st[m], m, p.hdr) : net' = (net \ {p}) \cup U
  BY DEF ReceivePing
<1> HIDE DEF m
<1>4. ViewOK(m, T) /\ SameElection(st[m], T)
  BY <1>1, <1>2, ProcessPingView
<1> HIDE DEF T
<1>5. \A u \in Updates(st[m], m, p.hdr) : PacketOK(u) /\ u.type = "UPDATE"
  BY <1>1, <1>2, UpdatesOK
<1>6. (\A q \in net' : PacketOK(q)) /\ \A q \in net' : q.type = "ACK" => q \in net
  BY <1>1, <1>3, <1>5
<1> QED
  BY <1>1, <1>3, <1>4, <1>6, QuietStep

\* An UPDATE.
LEMMA ReceiveUpdateStep ==
  ASSUME ClusterInv, NEW p \in net, ReceiveUpdate(p)
  PROVE  ClusterInv'
<1> DEFINE m == p.to
           T == ProcessUpdate(st[m], m, p)
<1>1. PacketOK(p) /\ p.type = "UPDATE" /\ \A q \in net : PacketOK(q)
  BY DEF ClusterInv, ReceiveUpdate
<1>2. m \in Nodes /\ HdrOK(p.hdr) /\ ViewOK(m, st[m])
  BY <1>1 DEF ClusterInv, PacketOK
<1>3. Become(m, T) /\ votes' = votes /\ won' = won /\ net' = net \ {p}
  BY DEF ReceiveUpdate
<1> HIDE DEF m
<1>4. ViewOK(m, T) /\ SameElection(st[m], T)
  BY <1>1, <1>2, ProcessUpdateView DEF PacketOK
<1> HIDE DEF T
<1> QED
  BY <1>1, <1>2, <1>3, <1>4, QuietStep

\* A request that is denied still brings its epochs.
LEMMA DenyVoteStep ==
  ASSUME ClusterInv, NEW p \in net, DenyVote(p)
  PROVE  ClusterInv'
<1> DEFINE m == p.to
           T == LearnEpochs(st[m], p.hdr)
<1>1. PacketOK(p) /\ \A q \in net : PacketOK(q)
  BY DEF ClusterInv
<1>2. m \in Nodes /\ HdrOK(p.hdr) /\ ViewOK(m, st[m])
  BY <1>1 DEF ClusterInv, PacketOK
<1>3. Become(m, T) /\ votes' = votes /\ won' = won /\ net' = net \ {p}
  BY DEF DenyVote
<1> HIDE DEF m
<1>4. ViewOK(m, T) /\ SameElection(st[m], T)
  BY <1>1, <1>2, LearnEpochsView
<1> HIDE DEF T
<1> QED
  BY <1>1, <1>2, <1>3, <1>4, QuietStep

\* Steps that leave every memory and file alone.
LEMMA StutterBecomes ==
  ASSUME ClusterInv, NEW n \in Nodes, UNCHANGED <<st, conf>>
  PROVE  Become(n, st[n]) /\ ViewOK(n, st[n]) /\ SameElection(st[n], st[n])
<1>1. st \in [Nodes -> View] /\ conf \in [Nodes -> File] /\ ViewOK(n, st[n])
  BY DEF ClusterInv, TypeOK
<1>2. ~NeedsSave(st[n], st[n])
  BY DEF NeedsSave
<1> QED
  BY <1>1, <1>2 DEF Become, SameElection

\* A packet is lost, or a PING sent.
LEMMA PacketsStep ==
  ASSUME ClusterInv,
         \/ \E p \in net : Lose(p)
         \/ \E n, m \in Nodes : SendPing(n, m)
  PROVE  ClusterInv'
<1>1. \A p \in net : PacketOK(p)
  BY DEF ClusterInv
<1>2. ASSUME NEW p \in net, Lose(p) PROVE ClusterInv'
  <2>1. p.to \in Nodes /\ UNCHANGED <<st, conf, votes, won>> /\ net' = net \ {p}
    BY <1>1, <1>2 DEF PacketOK, Lose
  <2>2. Become(p.to, st[p.to]) /\ ViewOK(p.to, st[p.to]) /\ SameElection(st[p.to], st[p.to])
    BY <2>1, StutterBecomes
  <2> QED
    BY <1>1, <2>1, <2>2, QuietStep
<1>3. ASSUME NEW n \in Nodes, NEW m \in Nodes, SendPing(n, m) PROVE ClusterInv'
  <2> DEFINE q == Packet("PING", m, Header(st[n], n))
  <2>1. UNCHANGED <<st, conf, votes, won>> /\ net' = net \cup {q} /\ n # m
    BY <1>3 DEF SendPing
  <2>2. Become(n, st[n]) /\ ViewOK(n, st[n]) /\ SameElection(st[n], st[n])
    BY <2>1, StutterBecomes
  <2>3. q.type = "PING" /\ PacketOK(q)
    BY <2>1, <2>2, HeaderOK DEF Packet, PacketOK
  <2> HIDE DEF q
  <2> QED
    BY <1>1, <2>1, <2>2, <2>3, QuietStep
<1> QED
  BY <1>2, <1>3

\* TAKEOVER and BUMPEPOCH.
LEMMA CommandStep ==
  ASSUME ClusterInv, NEW n \in Nodes, Takeover(n) \/ BumpEpoch(n)
  PROVE  ClusterInv'
<1> DEFINE S == st[n]
           B == clusterBumpConfigEpochWithoutConsensus(S, n)
           R == clusterFailoverReplaceYourMaster(B, n)
           E == [S EXCEPT !.currentEpoch = @ + 1, !.configEpoch[n] = S.currentEpoch + 1]
<1>1. ViewOK(n, S) /\ \A p \in net : PacketOK(p)
  BY DEF ClusterInv
<1>2. /\ Become(n, R) \/ Become(n, B)
      /\ net' = net /\ votes' = votes /\ won' = won
  BY DEF Takeover, BumpEpoch, Command
<1> HIDE DEF S
<1>3. B \in {S, E}
  BY DEF clusterBumpConfigEpochWithoutConsensus
<1>4. ViewOK(n, E) /\ SameElection(S, E)
  BY <1>1, NextEpochView
<1> HIDE DEF E
<1>5. ViewOK(n, B) /\ SameElection(S, B)
  BY <1>1, <1>3, <1>4 DEF SameElection
<1> HIDE DEF B
<1>6. ViewOK(n, R) /\ SameElection(B, R)
  BY <1>5, ReplaceYourMasterView
<1> HIDE DEF R
<1>7. SameElection(S, R)
  BY <1>5, <1>6 DEF SameElection
<1> QED
  BY <1>1, <1>2, <1>5, <1>6, <1>7, QuietStep DEF S

\* A candidate that was elected.
LEMMA WinElectionStep ==
  ASSUME ClusterInv, NEW n \in Nodes, WinElection(n)
  PROVE  ClusterInv'
<1> DEFINE S == st[n]
           e == Max({S.configEpoch[n], S.failover_auth_epoch})
           T == [S EXCEPT !.configEpoch[n] = e]
           R == clusterFailoverReplaceYourMaster(T, n)
           w == [epoch |-> S.failover_auth_epoch, leader |-> n, count |-> S.failover_auth_count]
<1>1. /\ ViewOK(n, S) /\ \A p \in net : PacketOK(p)
      /\ CountOK(n, S, votes, net) /\ IsFiniteSet(votes)
      /\ won \subseteq [epoch : Nat, leader : Nodes, count : Nat] /\ WonByVotes
  BY DEF ClusterInv
<1>2. S \in View
  BY <1>1 DEF ViewOK
<1>3. /\ S.configEpoch[n] \in Nat /\ S.failover_auth_epoch \in Nat
      /\ S.failover_auth_count \in Nat /\ S.currentEpoch \in Nat
  BY <1>2, ViewTypes
<1>4. e \in Nat /\ e <= S.currentEpoch
  BY <1>1, <1>3, MaxOfTwo DEF ViewOK, EpochsBehind
<1>5. /\ Become(n, R) /\ net' = net /\ votes' = votes
      /\ won' = IF S.late THEN won ELSE won \cup {w}
  <2>1. T = [st[n] EXCEPT !.configEpoch[n] = Max({@, st[n].failover_auth_epoch})]
    BY <1>2 DEF View
  <2> QED
    BY <2>1 DEF WinElection
<1> HIDE DEF S, e
<1>6. /\ T \in View /\ T.configEpoch = [S.configEpoch EXCEPT ![n] = e]
      /\ T.currentEpoch = S.currentEpoch /\ T.slaveof = S.slaveof
      /\ T.slots = S.slots /\ SameElection(S, T)
  BY <1>2, <1>4, ConfigEpochView
<1> HIDE DEF T
<1>7. ViewOK(n, T)
  BY <1>1, <1>2, <1>4, <1>6, ViewTypes DEF ViewOK, EpochsBehind, RoleOK, SameElection
<1>8. ViewOK(n, R) /\ SameElection(T, R)
  BY <1>7, ReplaceYourMasterView
<1> HIDE DEF R
<1>9. SameElection(S, R)
  BY <1>6, <1>8 DEF SameElection
<1>10. \/ won' = won
       \/ won' \subseteq [epoch : Nat, leader : Nodes, count : Nat] /\ WonByVotes'
  <2>1. CASE S.late
    BY <1>5, <2>1
  <2>2. CASE ~S.late
    <3>1. PICK C \in SUBSET {v \in votes : v.for = n /\ v.epoch >= S.failover_auth_epoch} :
               IsFiniteSet(C) /\ Cardinality(C) = S.failover_auth_count
      BY <1>1, <2>2 DEF CountOK
    <3>2. C \subseteq VotesFor(n, S.failover_auth_epoch)
      BY <3>1 DEF VotesFor
    <3>3. IsFiniteSet(VotesFor(n, S.failover_auth_epoch))
      BY <1>1, FS_Subset DEF VotesFor
    <3>4. S.failover_auth_count <= Cardinality(VotesFor(n, S.failover_auth_epoch))
      BY <3>1, <3>2, <3>3, FS_Subset
    <3>5. w \in [epoch : Nat, leader : Nodes, count : Nat]
      BY <1>3
    <3>6. won' = won \cup {w} /\ w.count = S.failover_auth_count
          /\ w.leader = n /\ w.epoch = S.failover_auth_epoch
      BY <1>5, <2>2
    <3> HIDE DEF w
    <3>7. WonByVotes'
      BY <1>1, <1>5, <3>4, <3>6 DEF WonByVotes, VotesFor
    <3> QED
      BY <1>1, <3>5, <3>6, <3>7
  <2> QED
    BY <2>1, <2>2
<1> QED
  BY <1>1, <1>5, <1>8, <1>9, <1>10, QuietStep DEF S

\* A candidate that has counted nothing.
LEMMA CountZero ==
  ASSUME NEW n, NEW S, S.failover_auth_count = 0, NEW V, NEW N
  PROVE  CountOK(n, S, V, N)
<1>1. IsFiniteSet({}) /\ Cardinality({}) = 0
  BY FS_EmptySet
<1>2. {} \in SUBSET {v \in V : v.for = n /\ v.epoch >= S.failover_auth_epoch}
  OBVIOUS
<1> QED
  BY <1>1, <1>2 DEF CountOK

\* A step of one node that neither votes nor wins keeps the invariant when its
\* count is right and its last vote not forgotten.
LEMMA ElectionStep ==
  ASSUME ClusterInv, NEW n \in Nodes, NEW T, NEW C, ViewOK(n, T), FileOK(n, C),
         st' = [st EXCEPT ![n] = T], conf' = [conf EXCEPT ![n] = C],
         T.lastVoteEpoch \in {st[n].lastVoteEpoch, conf[n].lastVoteEpoch},
         C.lastVoteEpoch \in {st[n].lastVoteEpoch, conf[n].lastVoteEpoch},
         \A p \in net' : PacketOK(p), \A p \in net' : p.type = "ACK" => p \in net,
         CountOK(n, T, votes, net'), votes' = votes, won' = won
  PROVE  ClusterInv'
<1>1. /\ TypeOK /\ \A m \in Nodes : ViewOK(m, st[m]) /\ FileOK(m, conf[m])
      /\ votes \subseteq Vote /\ IsFiniteSet(votes) /\ VotesUnique /\ AcksOK(net, votes)
      /\ \A m \in Nodes : CountOK(m, st[m], votes, net)
      /\ won \subseteq [epoch : Nat, leader : Nodes, count : Nat] /\ WonByVotes
  BY DEF ClusterInv
<1>2. /\ st'[n] = T /\ conf'[n] = C
      /\ \A m \in Nodes \ {n} : st'[m] = st[m] /\ conf'[m] = conf[m]
  BY <1>1 DEF TypeOK
<1>3. TypeOK'
  BY <1>1 DEF TypeOK, ViewOK, FileOK
<1>4. \A m \in Nodes : ViewOK(m, st'[m]) /\ FileOK(m, conf'[m])
  BY <1>1, <1>2
<1>5. \A v \in votes : /\ v.epoch <= st'[v.voter].lastVoteEpoch
                       /\ v.epoch <= conf'[v.voter].lastVoteEpoch
  <2> SUFFICES ASSUME NEW v \in votes
               PROVE  /\ v.epoch <= st'[v.voter].lastVoteEpoch
                      /\ v.epoch <= conf'[v.voter].lastVoteEpoch
    OBVIOUS
  <2>1. v.epoch <= st[v.voter].lastVoteEpoch /\ v.epoch <= conf[v.voter].lastVoteEpoch
    BY <1>1 DEF VotesUnique
  <2>2. CASE v.voter = n
    BY <1>2, <2>1, <2>2
  <2>3. CASE v.voter # n
    <3>1. v.voter \in Nodes
      BY <1>1 DEF Vote
    <3> QED
      BY <1>2, <2>1, <2>3, <3>1
  <2> QED
    BY <2>2, <2>3
<1>6. VotesUnique'
  BY <1>1, <1>5 DEF VotesUnique
<1>7. AcksOK(net', votes')
  BY <1>1 DEF AcksOK
<1>8. \A m \in Nodes : CountOK(m, st'[m], votes', net')
  <2> SUFFICES ASSUME NEW m \in Nodes PROVE CountOK(m, st'[m], votes', net')
    OBVIOUS
  <2>1. CASE m = n
    BY <1>2, <2>1
  <2>2. CASE m # n
    <3>1. st'[m] = st[m] /\ CountOK(m, st[m], votes, net)
      BY <1>1, <1>2, <2>2
    <3> QED
      BY <3>1, CountKept
  <2> QED
    BY <2>1, <2>2
<1>9. WonByVotes'
  BY <1>1 DEF WonByVotes, VotesFor
<1> QED
  BY <1>1, <1>3, <1>4, <1>6, <1>7, <1>8, <1>9 DEF ClusterInv

\* A new attempt starts with an empty count.
LEMMA ScheduleElectionStep ==
  ASSUME ClusterInv, NEW n \in Nodes, ScheduleElection(n)
  PROVE  ClusterInv'
<1> DEFINE S == st[n]
           T == [S EXCEPT !.failover_auth = "scheduled", !.failover_auth_count = 0, !.late = FALSE]
<1>1. /\ st \in [Nodes -> View] /\ conf \in [Nodes -> File] /\ ViewOK(n, S) /\ FileOK(n, conf[n])
      /\ \A p \in net : PacketOK(p)
  BY DEF ClusterInv, TypeOK
<1>2. st' = [st EXCEPT ![n] = T]
  BY <1>1 DEF ScheduleElection, View
<1>3. conf' = [conf EXCEPT ![n] = conf[n]] /\ net' = net /\ votes' = votes /\ won' = won
  BY <1>1 DEF ScheduleElection
<1> HIDE DEF S
<1>4. S \in View
  BY <1>1 DEF ViewOK
<1>5. /\ T \in View /\ T.failover_auth_count = 0 /\ T.lastVoteEpoch = S.lastVoteEpoch
      /\ T.currentEpoch = S.currentEpoch /\ T.configEpoch = S.configEpoch
      /\ T.slaveof = S.slaveof /\ T.slots = S.slots
      /\ T.failover_auth_epoch = S.failover_auth_epoch
  BY <1>4 DEF View
<1> HIDE DEF T
<1>6. ViewOK(n, T)
  BY <1>1, <1>5 DEF ViewOK, EpochsBehind, RoleOK
<1>7. CountOK(n, T, votes, net')
  BY <1>5, CountZero
<1> QED
  BY <1>1, <1>2, <1>3, <1>5, <1>6, <1>7, ElectionStep DEF S

\* The request: nothing was counted since the attempt was set up, unless late.
LEMMA RequestVotesStep ==
  ASSUME ClusterInv, NEW n \in Nodes, RequestVotes(n)
  PROVE  ClusterInv'
<1> DEFINE S == st[n]
           c == S.currentEpoch + 1
           T == [S EXCEPT !.currentEpoch = c, !.failover_auth = "sent", !.failover_auth_epoch = c]
<1>1. /\ st \in [Nodes -> View] /\ conf \in [Nodes -> File] /\ ViewOK(n, S) /\ FileOK(n, conf[n])
      /\ (\A p \in net : PacketOK(p)) /\ CountOK(n, S, votes, net)
  BY DEF ClusterInv, TypeOK
<1>2. S \in View
  BY <1>1
<1>3. T = [st[n] EXCEPT !.currentEpoch = @ + 1, !.failover_auth = "sent",
                        !.failover_auth_epoch = st[n].currentEpoch + 1]
  BY <1>2 DEF View
<1>4. /\ S.failover_auth = "scheduled" /\ st' = [st EXCEPT ![n] = T]
      /\ conf' = [conf EXCEPT ![n] = Saved(T)] \/ conf' = [conf EXCEPT ![n] = conf[n]]
      /\ net' = net \cup {Packet("REQUEST", m, Header(T, n)) : m \in Nodes \ {n}}
      /\ votes' = votes /\ won' = won
  BY <1>1, <1>3 DEF RequestVotes
<1>5. c \in Nat /\ S.currentEpoch <= c
  BY <1>2, ViewTypes
<1> HIDE DEF S, c
<1>6. /\ T \in View /\ T.lastVoteEpoch = S.lastVoteEpoch
      /\ T.currentEpoch = c /\ T.configEpoch = S.configEpoch
      /\ T.slaveof = S.slaveof /\ T.slots = S.slots
      /\ T.failover_auth_epoch = c /\ T.late = S.late
      /\ T.failover_auth_count = S.failover_auth_count
  BY <1>2, <1>5 DEF View
<1> HIDE DEF T
<1>7. ViewOK(n, T)
  BY <1>1, <1>2, <1>5, <1>6, ViewTypes DEF ViewOK, EpochsBehind, RoleOK
<1>8. CountOK(n, T, votes, net')
  <2>1. CASE S.late
    BY <1>6, <2>1 DEF CountOK
  <2>2. CASE ~S.late
    <3>1. S.failover_auth_count = 0
      BY <1>1, <1>4, <2>2 DEF CountOK
    <3> QED
      BY <1>6, <3>1, CountZero
  <2> QED
    BY <2>1, <2>2
<1>9. HdrOK(Header(T, n)) /\ Header(T, n).sender = n
  BY <1>7, HeaderOK
<1>10. \A p \in net' : PacketOK(p) /\ (p.type = "ACK" => p \in net)
  <2>1. \A m \in Nodes \ {n} : LET q == Packet("REQUEST", m, Header(T, n))
                               IN PacketOK(q) /\ q.type = "REQUEST"
    BY <1>9 DEF PacketOK, Packet
  <2> QED
    BY <1>1, <1>4, <2>1
<1>11. FileOK(n, Saved(T)) /\ Saved(T).lastVoteEpoch = S.lastVoteEpoch
  BY <1>6, <1>7, SavedFile
<1> QED
  BY <1>1, <1>4, <1>6, <1>7, <1>8, <1>10, <1>11, ElectionStep DEF S

\* The view of a fresh cluster.
LEMMA View0Types ==
  /\ View0 \in View
  /\ View0.currentEpoch = Max({Epoch0[n] : n \in Nodes}) /\ View0.lastVoteEpoch = 0
  /\ View0.slaveof = Master0 /\ View0.configEpoch = Epoch0 /\ View0.slots = Owner0
  /\ View0.failover_auth_epoch = 0 /\ View0.failover_auth_count = 0
  /\ \A n \in Nodes : Epoch0[n] <= View0.currentEpoch
<1> DEFINE E == {Epoch0[n] : n \in Nodes}
<1>1. PICK n \in Nodes : \A m \in Nodes : Epoch0[m] <= Epoch0[n]
  BY ClusterAssumption
<1>2. Max(E) = Epoch0[n] /\ Max(E) \in Nat
  BY <1>1, MaxIs, ClusterAssumption
<1>3. Owner0 \in [Slots -> Nodes \cup {None}]
  BY ClusterAssumption
<1>4. View0.currentEpoch = Max(E)
  BY DEF View0
<1> HIDE DEF E
<1>5. View0 \in View
  BY <1>2, <1>3, <1>4, ClusterAssumption DEF View0, View, E
<1> QED
  BY <1>1, <1>2, <1>4, <1>5 DEF View0, E

\* A restart: the file gives back every epoch and the last vote.
LEMMA RestartStep ==
  ASSUME ClusterInv, NEW n \in Nodes, Restart(n)
  PROVE  ClusterInv'
<1> DEFINE C == conf[n]
           epochs == [m \in Nodes |-> IF C.slaveof[m] = None THEN C.configEpoch[m] ELSE 0]
           E == {C.currentEpoch} \cup {epochs[m] : m \in Nodes}
           T == [View0 EXCEPT !.currentEpoch = Max(E), !.lastVoteEpoch = C.lastVoteEpoch,
                              !.slaveof = C.slaveof, !.configEpoch = epochs, !.slots = C.slots]
<1>1. /\ st \in [Nodes -> View] /\ conf \in [Nodes -> File] /\ FileOK(n, C)
      /\ \A p \in net : PacketOK(p)
  BY DEF ClusterInv, TypeOK
<1>2. /\ st' = [st EXCEPT ![n] = T] /\ conf' = [conf EXCEPT ![n] = C]
      /\ net' = {p \in net : p.to # n} /\ votes' = votes /\ won' = won
  BY <1>1 DEF Restart, Command
<1> HIDE DEF C
<1>3. /\ C.currentEpoch \in Nat /\ C.lastVoteEpoch \in Nat /\ C.configEpoch \in [Nodes -> Nat]
      /\ C.slaveof \in [Nodes -> Nodes \cup {None}] /\ C.slots \in [Slots -> Nodes \cup {None}]
      /\ \A m \in Nodes : C.configEpoch[m] <= C.currentEpoch
      /\ C.lastVoteEpoch <= C.currentEpoch
  BY <1>1 DEF FileOK, File, EpochsBehind
<1>4. epochs \in [Nodes -> Nat] /\ \A m \in Nodes : epochs[m] <= C.currentEpoch
  BY <1>3
<1>5. Max(E) = C.currentEpoch
  BY <1>3, <1>4, MaxIs
<1> HIDE DEF epochs, E
<1>6. /\ T \in View /\ T.currentEpoch = C.currentEpoch /\ T.lastVoteEpoch = C.lastVoteEpoch
      /\ T.slaveof = C.slaveof /\ T.configEpoch = epochs /\ T.slots = C.slots
      /\ T.failover_auth_epoch = 0 /\ T.failover_auth_count = 0
  BY <1>3, <1>4, <1>5, View0Types DEF View
<1> HIDE DEF T
<1>7. ViewOK(n, T)
  BY <1>1, <1>3, <1>4, <1>6 DEF ViewOK, EpochsBehind, RoleOK, FileOK
<1>8. CountOK(n, T, votes, net')
  BY <1>6, CountZero
<1> QED
  BY <1>1, <1>2, <1>6, <1>7, <1>8, ElectionStep DEF C

\* A vote is cast in an epoch later than every vote of the voter before, and it
\* is in the file before the ACK leaves.
LEMMA GrantVoteStep ==
  ASSUME ClusterInv, NEW p \in net, GrantVote(p)
  PROVE  ClusterInv'
<1> DEFINE n == p.to
           S == st[n]
           T == LearnEpochs(S, p.hdr)
           V == [T EXCEPT !.lastVoteEpoch = T.currentEpoch]
           a == Packet("ACK", p.hdr.sender, Header(V, n))
           v == [epoch |-> V.currentEpoch, voter |-> n, for |-> p.hdr.sender]
<1>1. /\ \A m \in Nodes : ViewOK(m, st[m]) /\ FileOK(m, conf[m])
      /\ \A q \in net : PacketOK(q)
      /\ votes \subseteq Vote /\ IsFiniteSet(votes) /\ VotesUnique /\ AcksOK(net, votes)
      /\ \A m \in Nodes : CountOK(m, st[m], votes, net)
      /\ won \subseteq [epoch : Nat, leader : Nodes, count : Nat] /\ WonByVotes
  BY DEF ClusterInv
<1>2. /\ n \in Nodes /\ HdrOK(p.hdr) /\ p.hdr.sender \in Nodes /\ p.hdr.sender # n
  BY <1>1 DEF PacketOK, HdrOK, Hdr
<1>3. /\ T.lastVoteEpoch # T.currentEpoch /\ Become(n, V)
      /\ net' = (net \ {p}) \cup {a} /\ votes' = votes \cup {v} /\ won' = won
  BY DEF GrantVote, MayVote
<1>4. ViewOK(n, S) /\ ViewOK(n, T) /\ SameElection(S, T)
  BY <1>1, <1>2, LearnEpochsView
<1> HIDE DEF n, S, T
<1>5. T \in View /\ T.currentEpoch \in Nat /\ T.lastVoteEpoch \in Nat
  BY <1>4, ViewTypes DEF ViewOK
<1>6. T.lastVoteEpoch < T.currentEpoch
  BY <1>3, <1>4, <1>5 DEF ViewOK, EpochsBehind
<1>7. /\ V \in View /\ V.lastVoteEpoch = T.currentEpoch /\ V.currentEpoch = T.currentEpoch
      /\ V.slaveof = T.slaveof /\ V.configEpoch = T.configEpoch /\ V.slots = T.slots
      /\ V.failover_auth = T.failover_auth /\ V.failover_auth_epoch = T.failover_auth_epoch
      /\ V.failover_auth_count = T.failover_auth_count /\ V.late = T.late
  BY <1>5 DEF View
<1> HIDE DEF V
<1>8. ViewOK(n, V)
  BY <1>4, <1>5, <1>7 DEF ViewOK, EpochsBehind, RoleOK
<1>9. NeedsSave(S, V)
  <2>1. S.lastVoteEpoch = T.lastVoteEpoch
    BY <1>4 DEF SameElection
  <2>2. S.lastVoteEpoch # V.lastVoteEpoch
    BY <1>3, <1>7, <2>1
  <2> QED
    BY <2>2 DEF NeedsSave
<1>10. /\ TypeOK'
       /\ \A m \in Nodes : ViewOK(m, st'[m]) /\ FileOK(m, conf'[m])
       /\ st'[n] = V
       /\ \A m \in Nodes \ {n} : st'[m] = st[m] /\ conf'[m] = conf[m]
       /\ conf'[n] = IF NeedsSave(st[n], V) THEN Saved(V) ELSE conf[n]
  BY <1>2, <1>3, <1>8, BecomeTypes
<1>11. conf'[n].lastVoteEpoch = V.lastVoteEpoch
  BY <1>2, <1>8, <1>9, <1>10, SavedFile DEF S
<1>12. /\ HdrOK(Header(V, n)) /\ Header(V, n).sender = n
       /\ Header(V, n).currentEpoch = V.currentEpoch
  BY <1>2, <1>8, HeaderOK
<1>13. PacketOK(a) /\ a.type = "ACK" /\ a.to = p.hdr.sender /\ VoteOf(a) = v
  BY <1>2, <1>12 DEF PacketOK, Packet, VoteOf
<1>14. v \in Vote /\ v.voter = n /\ v.epoch = T.currentEpoch
  BY <1>2, <1>5, <1>7 DEF Vote
<1> HIDE DEF a, v
<1>15. \A w \in votes : w.voter \in Nodes /\ w.epoch \in Nat
  BY <1>1 DEF Vote
<1>16. \A w \in votes : w.voter = n => w.epoch < v.epoch
  <2>1. S.lastVoteEpoch < v.epoch
    BY <1>4, <1>6, <1>14 DEF SameElection
  <2>2. S.lastVoteEpoch \in Nat /\ v.epoch \in Nat
    BY <1>4, <1>5, <1>14 DEF SameElection
  <2>3. \A w \in votes : w.voter = n => w.epoch <= S.lastVoteEpoch
    BY <1>1 DEF VotesUnique, S
  <2> QED
    BY <1>15, <2>1, <2>2, <2>3
<1>17. v \notin votes
  BY <1>14, <1>16, <1>5
<1>18. \A q \in net' : PacketOK(q)
  BY <1>1, <1>3, <1>13
<1>19. votes' \subseteq Vote /\ IsFiniteSet(votes')
  BY <1>1, <1>3, <1>14, FS_AddElement
<1>20. \A w \in votes' : /\ w.epoch <= st'[w.voter].lastVoteEpoch
                         /\ w.epoch <= conf'[w.voter].lastVoteEpoch
  <2> SUFFICES ASSUME NEW w \in votes'
               PROVE  /\ w.epoch <= st'[w.voter].lastVoteEpoch
                      /\ w.epoch <= conf'[w.voter].lastVoteEpoch
    OBVIOUS
  <2>1. CASE w = v
    BY <1>5, <1>7, <1>10, <1>11, <1>14, <2>1
  <2>2. CASE w \in votes /\ w.voter = n
    BY <1>5, <1>7, <1>10, <1>11, <1>14, <1>15, <1>16, <2>2
  <2>3. CASE w \in votes /\ w.voter # n
    <3>1. w.epoch <= st[w.voter].lastVoteEpoch /\ w.epoch <= conf[w.voter].lastVoteEpoch
      BY <1>1, <2>3 DEF VotesUnique
    <3> QED
      BY <1>10, <1>15, <2>3, <3>1
  <2> QED
    BY <1>3, <2>1, <2>2, <2>3
<1>21. VotesUnique'
  <2>1. \A w, x \in votes' : w.epoch = x.epoch /\ w.voter = x.voter => w = x
    <3>1. \A w, x \in votes : w.epoch = x.epoch /\ w.voter = x.voter => w = x
      BY <1>1 DEF VotesUnique
    <3>2. \A w \in votes : ~(w.epoch = v.epoch /\ w.voter = v.voter)
      BY <1>14, <1>15, <1>16, <1>5
    <3> QED
      BY <1>3, <3>1, <3>2
  <2> QED
    BY <1>20, <2>1 DEF VotesUnique
<1>22. AcksOK(net', votes')
  BY <1>1, <1>3, <1>13, <1>17 DEF AcksOK
<1>23. \A m \in Nodes : CountOK(m, st'[m], votes', net')
  <2> SUFFICES ASSUME NEW m \in Nodes PROVE CountOK(m, st'[m], votes', net')
    OBVIOUS
  <2>1. /\ st'[m].late = st[m].late /\ st'[m].failover_auth = st[m].failover_auth
        /\ st'[m].failover_auth_epoch = st[m].failover_auth_epoch
        /\ st'[m].failover_auth_count = st[m].failover_auth_count
    BY <1>4, <1>7, <1>10 DEF SameElection, S
  <2>2. \A q \in net' : q.type = "ACK" /\ q.to = m => q \in net \/ VoteOf(q) \notin votes
    BY <1>3, <1>13, <1>17
  <2>3. CountOK(m, st[m], votes, net) /\ votes \subseteq votes'
    BY <1>1, <1>3
  <2> QED
    BY <2>1, <2>2, <2>3, CountKept
<1>24. WonByVotes'
  <2>1. \A m, e : /\ VotesFor(m, e) \subseteq VotesFor(m, e)'
                 /\ IsFiniteSet(VotesFor(m, e)')
    BY <1>3, <1>19, FS_Subset DEF VotesFor
  <2>2. \A m, e : /\ Cardinality(VotesFor(m, e)) <= Cardinality(VotesFor(m, e)')
                 /\ Cardinality(VotesFor(m, e)) \in Nat /\ Cardinality(VotesFor(m, e)') \in Nat
    BY <2>1, FS_Subset, FS_CardinalityType
  <2> SUFFICES ASSUME NEW w \in won
               PROVE  w.count <= Cardinality(VotesFor(w.leader, w.epoch)')
    BY <1>3 DEF WonByVotes
  <2>3. w.count \in Nat /\ w.count <= Cardinality(VotesFor(w.leader, w.epoch))
    BY <1>1 DEF WonByVotes
  <2> QED
    BY <2>2, <2>3
<1> QED
  BY <1>1, <1>3, <1>10, <1>18, <1>19, <1>21, <1>22, <1>23, <1>24 DEF ClusterInv

\* A vote that is counted was not counted before: its ACK was on its way.
LEMMA ReceiveAckStep ==
  ASSUME ClusterInv, NEW p \in net, ReceiveAck(p)
  PROVE  ClusterInv'
<1> DEFINE n == p.to
           S == st[n]
           T == LearnEpochs(S, p.hdr)
           P == ProcessAck(S, p.hdr)
           late == T.late \/ T.failover_auth # "sent"
           count == T.failover_auth_count + 1
           R == [T EXCEPT !.failover_auth_count = count, !.late = late]
<1>1. /\ \A m \in Nodes : ViewOK(m, st[m]) /\ FileOK(m, conf[m])
      /\ \A q \in net : PacketOK(q)
      /\ st \in [Nodes -> View] /\ conf \in [Nodes -> File]
      /\ AcksOK(net, votes) /\ \A m \in Nodes : CountOK(m, st[m], votes, net)
  BY DEF ClusterInv, TypeOK
<1>2. /\ n \in Nodes /\ HdrOK(p.hdr) /\ p.hdr.currentEpoch \in Nat
  BY <1>1 DEF PacketOK, HdrOK, Hdr
<1>3. /\ Become(n, P) /\ p.type = "ACK"
      /\ net' = net \ {p} /\ votes' = votes /\ won' = won
  BY DEF ReceiveAck
<1>4. ViewOK(n, S) /\ ViewOK(n, T) /\ SameElection(S, T)
  BY <1>1, <1>2, LearnEpochsView
<1>5. T \in View /\ T.failover_auth_count \in Nat /\ T.failover_auth_epoch \in Nat
  BY <1>4, ViewTypes DEF ViewOK
<1>6. P = T \/ (P = R /\ p.hdr.currentEpoch >= T.failover_auth_epoch)
  BY <1>5 DEF ProcessAck, View
<1> HIDE DEF n, S, T, P
<1>7. \A q \in net' : PacketOK(q) /\ (q.type = "ACK" => q \in net)
  BY <1>1, <1>3
<1>8. CASE P = T
  BY <1>2, <1>3, <1>4, <1>7, <1>8, QuietStep DEF S
<1>9. CASE P = R /\ p.hdr.currentEpoch >= T.failover_auth_epoch
  <2>0. late \in BOOLEAN /\ count \in Nat
    BY <1>5 DEF View
  <2> HIDE DEF late, count
  <2>1. /\ R \in View /\ R.lastVoteEpoch = T.lastVoteEpoch /\ R.currentEpoch = T.currentEpoch
        /\ R.slaveof = T.slaveof /\ R.configEpoch = T.configEpoch /\ R.slots = T.slots
        /\ R.failover_auth = T.failover_auth /\ R.failover_auth_epoch = T.failover_auth_epoch
        /\ R.failover_auth_count = count /\ R.late = late
    BY <1>5, <2>0 DEF View
  <2> HIDE DEF R
  <2>2. ViewOK(n, R)
    BY <1>4, <2>1 DEF ViewOK, EpochsBehind, RoleOK
  <2>3. CountOK(n, R, votes, net')
    <3> SUFFICES ASSUME ~R.late
                 PROVE  /\ R.failover_auth # "sent" => R.failover_auth_count = 0
                        /\ \E C \in SUBSET {v \in votes : v.for = n /\ v.epoch >= R.failover_auth_epoch} :
                             /\ IsFiniteSet(C) /\ Cardinality(C) = R.failover_auth_count
                             /\ \A q \in net' : q.type = "ACK" /\ q.to = n => VoteOf(q) \notin C
      BY DEF CountOK
    <3>1. T.failover_auth = "sent" /\ ~S.late
      BY <1>4, <2>1 DEF SameElection, late
    <3>2. CountOK(n, S, votes, net)
      BY <1>1, <1>2 DEF S
    <3>3. PICK C \in SUBSET {v \in votes : v.for = n /\ v.epoch >= S.failover_auth_epoch} :
             /\ IsFiniteSet(C) /\ Cardinality(C) = S.failover_auth_count
             /\ \A q \in net : q.type = "ACK" /\ q.to = n => VoteOf(q) \notin C
      BY <3>1, <3>2 DEF CountOK
    <3> DEFINE D == C \cup {VoteOf(p)}
    <3>4. VoteOf(p) \in votes /\ VoteOf(p) \notin C
      BY <1>1, <1>3, <3>3 DEF AcksOK, n
    <3>5. VoteOf(p).for = n /\ VoteOf(p).epoch >= S.failover_auth_epoch
      BY <1>4, <1>9 DEF VoteOf, n, SameElection
    <3>6. IsFiniteSet(D) /\ Cardinality(D) = Cardinality(C) + 1
      BY <3>3, <3>4, FS_AddElement
    <3>7. Cardinality(D) = R.failover_auth_count
      BY <1>4, <2>1, <3>3, <3>6 DEF SameElection, count
    <3>8. D \in SUBSET {v \in votes : v.for = n /\ v.epoch >= R.failover_auth_epoch}
      BY <1>4, <2>1, <3>3, <3>4, <3>5 DEF SameElection
    <3>9. \A q \in net' : q.type = "ACK" /\ q.to = n => VoteOf(q) \notin D
      BY <1>1, <1>3, <3>3 DEF AcksOK
    <3> QED
      BY <2>1, <3>1, <3>6, <3>7, <3>8, <3>9
  <2>4. FileOK(n, Saved(R)) /\ Saved(R).lastVoteEpoch = R.lastVoteEpoch
    BY <1>2, <2>2, SavedFile
  <2>5. /\ st' = [st EXCEPT ![n] = R]
        /\ \/ conf' = [conf EXCEPT ![n] = Saved(R)]
           \/ conf' = [conf EXCEPT ![n] = conf[n]]
    BY <1>3, <1>9 DEF Become
  <2>6. R.lastVoteEpoch = st[n].lastVoteEpoch
    BY <1>4, <2>1 DEF SameElection, S
  <2>7. FileOK(n, conf[n])
    BY <1>1, <1>2
  <2> QED
    BY <1>2, <1>3, <1>7, <2>2, <2>3, <2>4, <2>5, <2>6, <2>7, ElectionStep
<1> QED
  BY <1>6, <1>8, <1>9

-----------------------------------------------------------------------------
(* The invariant, and what follows from it.                                *)

\* A fresh cluster.
LEMMA InitInv == Init => ClusterInv
<1> SUFFICES ASSUME Init PROVE ClusterInv
  OBVIOUS
<1>1. /\ st = [n \in Nodes |-> View0] /\ conf = [n \in Nodes |-> Saved(View0)]
      /\ net = {} /\ votes = {} /\ won = {}
  BY DEF Init
<1>2. \A n \in Nodes : ViewOK(n, View0)
  <2>1. View0.currentEpoch \in Nat
    BY View0Types, ViewTypes
  <2>2. EpochsBehind(View0) /\ View0.failover_auth_epoch <= View0.currentEpoch
    BY <2>1, View0Types DEF EpochsBehind
  <2>3. \A n \in Nodes : RoleOK(n, View0)
    BY View0Types, ClusterAssumption DEF RoleOK
  <2> QED
    BY <2>2, <2>3, View0Types DEF ViewOK
<1>3. \A n \in Nodes : FileOK(n, Saved(View0))
  BY <1>2, SavedFile
<1>4. \A n \in Nodes : st[n] = View0 /\ conf[n] = Saved(View0)
  BY <1>1
<1>5. TypeOK
  BY <1>1, <1>2, <1>3 DEF TypeOK, ViewOK, FileOK
<1>6. votes \subseteq Vote /\ IsFiniteSet(votes) /\ VotesUnique /\ AcksOK(net, votes)
  BY <1>1, FS_EmptySet DEF VotesUnique, AcksOK
<1>7. \A n \in Nodes : CountOK(n, st[n], votes, net)
  BY <1>4, View0Types, CountZero
<1>8. won \subseteq [epoch : Nat, leader : Nodes, count : Nat] /\ WonByVotes
  BY <1>1 DEF WonByVotes
<1> QED
  BY <1>1, <1>2, <1>3, <1>4, <1>5, <1>6, <1>7, <1>8 DEF ClusterInv

\* Every step of every node, and every packet.
LEMMA NextInv == ClusterInv /\ [Next]_vars => ClusterInv'
<1> SUFFICES ASSUME ClusterInv, [Next]_vars PROVE ClusterInv'
  OBVIOUS
<1>1. CASE UNCHANGED vars
  BY <1>1 DEF vars, ClusterInv, TypeOK, VotesUnique, WonByVotes, VotesFor
<1>2. CASE \E n, m \in Nodes : Heartbeat(n, m) \/ SendPing(n, m)
  BY <1>2, HeartbeatStep, PacketsStep
<1>3. CASE \E p \in net : Receive(p)
  BY <1>3, ReceivePingStep, ReceiveUpdateStep, ReceiveAckStep, DenyVoteStep, GrantVoteStep,
     PacketsStep DEF Receive
<1>4. CASE \E n \in Nodes : \/ ScheduleElection(n) \/ RequestVotes(n) \/ WinElection(n)
                            \/ Takeover(n) \/ BumpEpoch(n) \/ Restart(n)
  BY <1>4, ScheduleElectionStep, RequestVotesStep, WinElectionStep, CommandStep, RestartStep
<1> QED
  BY <1>1, <1>2, <1>3, <1>4 DEF Next

\* What the invariant says of a view and of a file.
LEMMA InvImplies ==
  ClusterInv => CurrentEpochIsMax /\ VotesUnique /\ ReplicaServesNothing /\ WonByVotes
<1> SUFFICES ASSUME ClusterInv
             PROVE  CurrentEpochIsMax /\ VotesUnique /\ ReplicaServesNothing /\ WonByVotes
  OBVIOUS
<1>1. TypeOK /\ \A n \in Nodes : ViewOK(n, st[n]) /\ FileOK(n, conf[n])
  BY DEF ClusterInv
<1>2. CurrentEpochIsMax
  BY <1>1 DEF CurrentEpochIsMax, ViewOK, FileOK, EpochsBehind
<1>3. ReplicaServesNothing
  BY <1>1 DEF ReplicaServesNothing, ViewOK, RoleOK, SlotsOf, IsMaster
<1> QED
  BY <1>2, <1>3 DEF ClusterInv

\* What memory, nodes.conf, packets and counters hold together keeps holding,
\* for every number of nodes and slots, whatever is lost, delayed or restarted.
THEOREM ClusterInvariant == Spec => []ClusterInv
<1> QED
  BY InitInv, NextInv, PTL DEF Spec

\* No epoch a node has in memory or in nodes.conf is ahead of the currentEpoch
\* it has there (clusterLoadConfig, clusterProcessPacket), for every cluster.
THEOREM CurrentEpochsAreMax == Spec => []CurrentEpochIsMax
<1> QED
  BY ClusterInvariant, InvImplies, PTL

\* A master votes once in an epoch, restarts included
\* (clusterSendFailoverAuthIfNeeded, clusterLoadConfig), for every cluster.
THEOREM VotesAreUnique == Spec => []VotesUnique
<1> QED
  BY ClusterInvariant, InvImplies, PTL

\* A node that is a replica in its own view serves no slot in its own view
\* (clusterSetMaster's assertion), for every cluster.
THEOREM ReplicasServeNothing == Spec => []ReplicaServesNothing
<1> QED
  BY ClusterInvariant, InvImplies, PTL

\* An election is won with no more votes than were cast for it
\* (clusterProcessPacket, FAILOVER_AUTH_ACK), for every cluster.
THEOREM ElectionsAreWonByVotes == Spec => []WonByVotes
<1> QED
  BY ClusterInvariant, InvImplies, PTL
============================================================================
