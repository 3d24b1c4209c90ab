------------------------------ MODULE Cluster ------------------------------
(***************************************************************************)
(* Redis Cluster (cluster_legacy.c): elections by configuration epoch and  *)
(* the agreement on which master serves which hash slot.                   *)
(*                                                                         *)
(* Every node has its own view of every node (role, configEpoch) and of    *)
(* the owner of every slot.  It learns from the headers of the packets on  *)
(* the cluster bus, which carry the sender's view of its own shard.        *)
(*                                                                         *)
(* Failure detection is a choice: whether a master is flagged FAIL, or a   *)
(* manual failover was asked for (mf_can_start, FORCEACK), is not decided  *)
(* here, so an election may start, and a vote be granted, at any time the  *)
(* other conditions allow it.  So are the delays and timeouts of an        *)
(* election.  A packet is late, lost or overtaken by others.               *)
(***************************************************************************)
EXTENDS Integers, FiniteSets, FiniteSetsExt

CONSTANTS
  Nodes, None,
  Name,           \* the order of the node ids, [Nodes -> Nat]
  Slots,          \* hash slots, a set of numbers
  Master0,        \* who replicates whom at first, None for a master
  Owner0,         \* who serves a slot at first
  Epoch0,         \* the first configEpoch of every node
  Commands,       \* the commands and faults allowed: "takeover", "bump", "restart"
  MaxEvents,      \* bound on attempts at an election, commands and restarts
  MaxWins,        \* bound on elections won
  MaxNet          \* bound on heartbeats and UPDATEs in flight

ASSUME ClusterAssumption ==
  /\ None \notin Nodes
  /\ Name \in [Nodes -> Nat]
  /\ Slots \subseteq Nat
  /\ Master0 \in [Nodes -> Nodes \cup {None}]
  /\ Owner0 \in [Slots -> Nodes]
  /\ Epoch0 \in [Nodes -> Nat] /\ \E n \in Nodes : \A m \in Nodes : Epoch0[m] <= Epoch0[n]
  /\ IsFiniteSet(Nodes)
  /\ \A n \in Nodes : Master0[n] # None => \A j \in Slots : Owner0[j] # n

VARIABLES
  st,       \* a node's memory
  conf,     \* its nodes.conf
  net,      \* packets on the bus
  wins,     \* how many elections were won
  events,   \* how many attempts, commands and restarts there were
  votes,    \* history: the votes granted
  won       \* history: the elections won, but for those with a vote of an earlier attempt

vars == <<st, conf, net, events, wins, votes, won>>

-----------------------------------------------------------------------------
(* A view: clusterState and the clusterNodes in it.  A node is a master    *)
(* when its slaveof is None.                                               *)

IsMaster(S, n) == S.slaveof[n] = None

\* clusterNode.slots and numslots
SlotsOf(S, n) == {j \in Slots : S.slots[j] = n}

\* server.cluster->size, as clusterUpdateState computes it
Size(S) == Cardinality({n \in Nodes : IsMaster(S, n) /\ SlotsOf(S, n) # {}})

isSlotUnclaimed(S, j) == S.slots[j] = None \/ j \in S.owner_not_claiming_slot

clusterGetMaxEpoch(S) == Max({S.configEpoch[n] : n \in Nodes} \cup {S.currentEpoch})

\* What clusterGenNodesDescription and the vars line keep of a view.
Saved(S) ==
  [ currentEpoch |-> S.currentEpoch, lastVoteEpoch |-> S.lastVoteEpoch,
    slaveof |-> S.slaveof, slots |-> S.slots,
    configEpoch |-> [n \in Nodes |-> IF IsMaster(S, n) THEN S.configEpoch[n]
                                     ELSE S.configEpoch[S.slaveof[n]]] ]

\* Mutant: a vote alone is not saved
VoteNotSaved(S, T) ==
  S.slaveof # T.slaveof \/ S.configEpoch # T.configEpoch \/ S.slots # T.slots

\* CLUSTER_TODO_SAVE_CONFIG is set by every change of these fields; a
\* currentEpoch raised by a packet alone is not saved.
NeedsSave(S, T) ==
  \/ S.lastVoteEpoch # T.lastVoteEpoch
  \/ S.slaveof # T.slaveof
  \/ S.configEpoch # T.configEpoch
  \/ S.slots # T.slots

View0 ==
  [ currentEpoch |-> Max({Epoch0[n] : n \in Nodes}), lastVoteEpoch |-> 0,
    slaveof |-> Master0, configEpoch |-> Epoch0, slots |-> Owner0,
    owner_not_claiming_slot |-> {},
    failover_auth |-> "none",     \* failover_auth_time and failover_auth_sent
    failover_auth_epoch |-> 0, failover_auth_count |-> 0,
    late |-> FALSE ]              \* history: a vote was counted before it was asked for

Init ==
  /\ st = [n \in Nodes |-> View0]
  /\ conf = [n \in Nodes |-> Saved(View0)]
  /\ net = {} /\ events = 0 /\ wins = 0 /\ votes = {} /\ won = {}

-----------------------------------------------------------------------------
(* Packets.                                                                *)

\* clusterBuildMessageHdr: a replica sends its master's slots and epoch.
Header(S, n) ==
  LET master == IF IsMaster(S, n) THEN n ELSE S.slaveof[n]
  IN [ sender |-> n, slaveof |-> S.slaveof[n], myslots |-> SlotsOf(S, master),
       currentEpoch |-> S.currentEpoch, configEpoch |-> S.configEpoch[master] ]

Packet(type, to, hdr) == [type |-> type, to |-> to, hdr |-> hdr]

\* An UPDATE has in addition the configuration of the node it is about.
UpdatePacket(to, hdr, about, epoch, slots) ==
  [ type |-> "UPDATE", to |-> to, hdr |-> hdr, nodename |-> about,
    reportedConfigEpoch |-> epoch, slots |-> slots ]

-----------------------------------------------------------------------------
(* What node m does with a header; S is its view.                          *)

\* Every packet: newer epochs are taken over.
LearnEpochs(S, h) ==
  [S EXCEPT !.currentEpoch = Max({@, h.currentEpoch}),
            !.configEpoch[h.sender] = Max({@, h.configEpoch})]

clusterSetNodeAsMaster(S, n) == [S EXCEPT !.slaveof[n] = None]

\* clusterDelSlot and clusterAddSlot, for a set of slots
MoveSlots(S, moved, to) ==
  [S EXCEPT !.slots = [j \in Slots |-> IF j \in moved THEN to ELSE @[j]],
            !.owner_not_claiming_slot = @ \ moved]

\* A master that says it replicates hdr.slaveof now, a node of its own shard.
\* When its epoch is not stale its slots go to the new master, which gets the
\* announced epoch.
MasterTurnedSlave(S, h) ==
  IF S.configEpoch[h.sender] > h.configEpoch THEN S
  ELSE [clusterSetNodeAsMaster(MoveSlots(S, SlotsOf(S, h.sender), h.slaveof), h.slaveof)
          EXCEPT !.configEpoch[h.slaveof] = h.configEpoch]

\* Check for role switch: slave -> master or master -> slave.
SwitchRole(S, h) ==
  IF h.slaveof = None THEN clusterSetNodeAsMaster(S, h.sender)
  ELSE LET T == IF IsMaster(S, h.sender) THEN MasterTurnedSlave(S, h) ELSE S
       IN [T EXCEPT !.slaveof[h.sender] = h.slaveof]

\* clusterSetMaster for myself
clusterSetMaster(S, m, n) == [S EXCEPT !.slaveof[m] = n]

\* Slots claimed with a newer epoch, or that nobody claims, go to the sender;
\* a node whose master has none left follows the new owner, and the replica of
\* a replica follows its grandmaster.
clusterUpdateSlotsConfigWith(S, m, sender, epoch, claimed) ==
  LET curmaster == IF IsMaster(S, m) THEN m ELSE S.slaveof[m]
      owned == SlotsOf(S, sender)
      rebound == {j \in claimed \ owned : \/ isSlotUnclaimed(S, j)
                                          \/ S.configEpoch[S.slots[j]] < epoch}
      taken == rebound \cap SlotsOf(S, curmaster)
      T == [MoveSlots(S, rebound, sender) EXCEPT
              !.owner_not_claiming_slot = (@ \ (owned \cap claimed)) \cup (owned \ claimed)]
      upper == T.slaveof[m]
  IN IF sender = m THEN S
     ELSE IF taken # {} /\ SlotsOf(T, curmaster) = {} THEN clusterSetMaster(T, m, sender)
     ELSE IF upper # None /\ T.slaveof[upper] \notin {None, m}
          THEN clusterSetMaster(T, m, T.slaveof[upper])
     ELSE T

\* Mutant: the one with the greater id is not told apart
NobodyMoves(S, m, h) == S

\* Of two masters with one configEpoch the one with the smaller id moves on.
clusterHandleConfigEpochCollision(S, m, h) ==
  IF /\ IsMaster(S, m) /\ IsMaster(S, h.sender)
     /\ h.configEpoch = S.configEpoch[m]
     /\ S.configEpoch[h.sender] = S.configEpoch[m]
     /\ Name[h.sender] > Name[m]
  THEN [S EXCEPT !.currentEpoch = @ + 1, !.configEpoch[m] = S.currentEpoch + 1]
  ELSE S

\* The slots the sender announces differ from those this view has for it.
Dirty(S, h) ==
  SlotsOf(S, IF IsMaster(S, h.sender) THEN h.sender ELSE S.slaveof[h.sender]) # h.myslots

\* A PING or PONG up to the announced slots ...
AfterSlots(S, m, h) ==
  LET T == SwitchRole(LearnEpochs(S, h), h)
  IN IF IsMaster(T, h.sender) /\ Dirty(T, h)
     THEN clusterUpdateSlotsConfigWith(T, m, h.sender, h.configEpoch, h.myslots) ELSE T

\* ... the UPDATE about the first announced slot whose owner is newer ...
Updates(S, m, h) ==
  LET T == AfterSlots(S, m, h)
      newer == {j \in h.myslots : /\ T.slots[j] # h.sender /\ ~isSlotUnclaimed(T, j)
                                  /\ T.configEpoch[T.slots[j]] > h.configEpoch}
      about == T.slots[Min(newer)]
  IN IF newer = {} \/ ~Dirty(SwitchRole(LearnEpochs(S, h), h), h) THEN {}
     ELSE {UpdatePacket(h.sender, Header(T, m), about, T.configEpoch[about],
                        SlotsOf(T, about) \ T.owner_not_claiming_slot)}

\* ... and the view it ends with.
ProcessPing(S, m, h) == clusterHandleConfigEpochCollision(AfterSlots(S, m, h), m, h)

\* UPDATE
ProcessUpdate(S, m, p) ==
  LET T == LearnEpochs(S, p.hdr)
      n == p.nodename
  IN IF T.configEpoch[n] >= p.reportedConfigEpoch THEN T
     ELSE clusterUpdateSlotsConfigWith(
            [clusterSetNodeAsMaster(T, n) EXCEPT !.configEpoch[n] = p.reportedConfigEpoch],
            m, n, p.reportedConfigEpoch, p.slots)

\* Mutant: the epoch of the vote is not looked at
AnyVoteCounts(S, h) ==
  LET T == LearnEpochs(S, h)
  IN IF IsMaster(T, h.sender) /\ SlotsOf(T, h.sender) # {}
     THEN [T EXCEPT !.failover_auth_count = @ + 1,
                    !.late = @ \/ T.failover_auth # "sent"]
     ELSE T

\* FAILOVER_AUTH_ACK: any vote of an epoch not older than the one of the last
\* request counts, whether or not a new attempt is scheduled.
ProcessAck(S, h) ==
  LET T == LearnEpochs(S, h)
  IN IF /\ IsMaster(T, h.sender) /\ SlotsOf(T, h.sender) # {}
        /\ h.currentEpoch >= T.failover_auth_epoch
     THEN [T EXCEPT !.failover_auth_count = @ + 1,
                    !.late = @ \/ T.failover_auth # "sent"]
     ELSE T

\* clusterSendFailoverAuthIfNeeded: the conditions that are not a choice.  T is
\* the view after the request's epochs were taken over.
MayVote(T, m, h) ==
  /\ IsMaster(T, m) /\ SlotsOf(T, m) # {}
  /\ h.currentEpoch >= T.currentEpoch
  /\ T.lastVoteEpoch # T.currentEpoch
  /\ ~IsMaster(T, h.sender)
  /\ \A j \in h.myslots : isSlotUnclaimed(T, j) \/ T.configEpoch[T.slots[j]] <= h.configEpoch

-----------------------------------------------------------------------------
(* Actions.                                                                *)

\* Mutant: the file keeps the old currentEpoch
SavesOldEpoch(n, T) ==
  /\ st' = [st EXCEPT ![n] = T]
  /\ conf' = [conf EXCEPT ![n] = IF NeedsSave(st[n], T)
                                 THEN [Saved(T) EXCEPT !.currentEpoch = conf[n].currentEpoch]
                                 ELSE @]

\* Node n's memory becomes T; beforeSleep saves it before anything is sent.
Become(n, T) ==
  /\ st' = [st EXCEPT ![n] = T]
  /\ conf' = [conf EXCEPT ![n] = IF NeedsSave(st[n], T) THEN Saved(T) ELSE @]

\* A PING or PONG of n reaches m at once.
Heartbeat(n, m) ==
  /\ n # m
  /\ LET h == Header(st[n], n)
     IN /\ Become(m, ProcessPing(st[m], m, h))
        /\ \E U \in SUBSET Updates(st[m], m, h) :
             /\ U = {} \/ Cardinality(net) < MaxNet
             /\ net' = net \cup U
  /\ UNCHANGED <<events, wins, votes, won>>

\* A PING or PONG of n to m is on its way for some time.
SendPing(n, m) ==
  /\ n # m
  /\ Cardinality(net) < MaxNet
  /\ net' = net \cup {Packet("PING", m, Header(st[n], n))}
  /\ UNCHANGED <<st, conf, events, wins, votes, won>>

ReceivePing(p) ==
  /\ p.type = "PING"
  /\ Become(p.to, ProcessPing(st[p.to], p.to, p.hdr))
  /\ \E U \in SUBSET Updates(st[p.to], p.to, p.hdr) : net' = (net \ {p}) \cup U
  /\ UNCHANGED <<events, wins, votes, won>>

ReceiveUpdate(p) ==
  /\ p.type = "UPDATE"
  /\ Become(p.to, ProcessUpdate(st[p.to], p.to, p))
  /\ net' = net \ {p}
  /\ UNCHANGED <<events, wins, votes, won>>

ReceiveAck(p) ==
  /\ p.type = "ACK"
  /\ Become(p.to, ProcessAck(st[p.to], p.hdr))
  /\ net' = net \ {p}
  /\ UNCHANGED <<events, wins, votes, won>>

\* FAILOVER_AUTH_REQUEST, denied: the epochs are taken over all the same.
DenyVote(p) ==
  /\ p.type = "REQUEST"
  /\ Become(p.to, LearnEpochs(st[p.to], p.hdr))
  /\ net' = net \ {p}
  /\ UNCHANGED <<events, wins, votes, won>>

\* ... or granted.
GrantVote(p) ==
  LET T == LearnEpochs(st[p.to], p.hdr)
      V == [T EXCEPT !.lastVoteEpoch = T.currentEpoch]
  IN /\ p.type = "REQUEST"
     /\ MayVote(T, p.to, p.hdr)
     /\ Become(p.to, V)
     /\ net' = (net \ {p}) \cup {Packet("ACK", p.hdr.sender, Header(V, p.to))}
     /\ votes' = votes \cup {[epoch |-> V.currentEpoch, voter |-> p.to, for |-> p.hdr.sender]}
     /\ UNCHANGED <<events, wins, won>>

Lose(p) ==
  /\ net' = net \ {p}
  /\ UNCHANGED <<st, conf, events, wins, votes, won>>

\* clusterHandleSlaveFailover, what every call requires
CanFailover(n) == ~IsMaster(st[n], n) /\ SlotsOf(st[n], st[n].slaveof[n]) # {}

\* ... a new attempt is set up,
ScheduleElection(n) ==
  /\ CanFailover(n) /\ events < MaxEvents
  /\ st' = [st EXCEPT ![n].failover_auth = "scheduled", ![n].failover_auth_count = 0,
                      ![n].late = FALSE]
  /\ events' = events + 1
  /\ UNCHANGED <<conf, net, wins, votes, won>>

\* ... the votes are asked for in a new epoch; called from clusterBeforeSleep
\* the function leaves the saving to the next iteration,
RequestVotes(n) ==
  LET T == [st[n] EXCEPT !.currentEpoch = @ + 1, !.failover_auth = "sent",
                         !.failover_auth_epoch = st[n].currentEpoch + 1]
  IN /\ CanFailover(n) /\ st[n].failover_auth = "scheduled"
     /\ st' = [st EXCEPT ![n] = T]
     /\ \/ conf' = [conf EXCEPT ![n] = Saved(T)]
        \/ UNCHANGED conf
     /\ net' = net \cup {Packet("REQUEST", m, Header(T, n)) : m \in Nodes \ {n}}
     /\ UNCHANGED <<events, wins, votes, won>>

\* Mutant: the slots are taken over, the role is not
TakesSlotsOnly(S, n) == MoveSlots(S, SlotsOf(S, S.slaveof[n]), n)

\* clusterFailoverReplaceYourMaster
clusterFailoverReplaceYourMaster(S, n) ==
  clusterSetNodeAsMaster(MoveSlots(S, SlotsOf(S, S.slaveof[n]), n), n)

\* ... or enough votes were counted.
WinElection(n) ==
  LET T == [st[n] EXCEPT !.configEpoch[n] = Max({@, st[n].failover_auth_epoch})]
  IN /\ CanFailover(n) /\ st[n].failover_auth = "sent" /\ wins < MaxWins
     /\ st[n].failover_auth_count >= Size(st[n]) \div 2 + 1
     /\ Become(n, clusterFailoverReplaceYourMaster(T, n))
     /\ won' = IF st[n].late THEN won
               ELSE won \cup {[epoch |-> st[n].failover_auth_epoch, leader |-> n,
                                count |-> st[n].failover_auth_count]}
     /\ wins' = wins + 1
     /\ UNCHANGED <<net, events, votes>>

clusterBumpConfigEpochWithoutConsensus(S, n) ==
  IF S.configEpoch[n] = 0 \/ S.configEpoch[n] # clusterGetMaxEpoch(S)
  THEN [S EXCEPT !.currentEpoch = @ + 1, !.configEpoch[n] = S.currentEpoch + 1]
  ELSE S

Command(n, name) ==
  /\ name \in Commands /\ events < MaxEvents
  /\ events' = events + 1
  /\ UNCHANGED <<wins, votes, won>>

\* CLUSTER FAILOVER TAKEOVER
Takeover(n) ==
  /\ Command(n, "takeover")
  /\ ~IsMaster(st[n], n)
  /\ Become(n, clusterFailoverReplaceYourMaster(
                 clusterBumpConfigEpochWithoutConsensus(st[n], n), n))
  /\ UNCHANGED net

\* CLUSTER BUMPEPOCH
BumpEpoch(n) ==
  /\ Command(n, "bump")
  /\ Become(n, clusterBumpConfigEpochWithoutConsensus(st[n], n))
  /\ UNCHANGED net

\* A restart: clusterLoadConfig; what was on its way to n is lost.
Restart(n) ==
  LET C == conf[n]
      epochs == [m \in Nodes |-> IF C.slaveof[m] = None THEN C.configEpoch[m] ELSE 0]
  IN /\ Command(n, "restart")
     /\ st' = [st EXCEPT ![n] =
                 [View0 EXCEPT !.currentEpoch = Max({C.currentEpoch} \cup {epochs[m] : m \in Nodes}),
                               !.lastVoteEpoch = C.lastVoteEpoch, !.slaveof = C.slaveof,
                               !.configEpoch = epochs, !.slots = C.slots]]
     /\ net' = {p \in net : p.to # n}
     /\ UNCHANGED conf

Receive(p) ==
  ReceivePing(p) \/ ReceiveUpdate(p) \/ ReceiveAck(p) \/ DenyVote(p) \/ GrantVote(p) \/ Lose(p)

Next ==
  \/ \E n, m \in Nodes : Heartbeat(n, m) \/ SendPing(n, m)
  \/ \E p \in net : Receive(p)
  \/ \E n \in Nodes : \/ ScheduleElection(n) \/ RequestVotes(n) \/ WinElection(n)
                      \/ Takeover(n) \/ BumpEpoch(n) \/ Restart(n)

Spec == Init /\ [][Next]_vars

\* clusterCron pings every node again and again, and links are re-established.
\* This is weak fairness of a Heartbeat(n, m) that tells m something new.
HeartbeatNews(n, m) == ProcessPing(st[m], m, Header(st[n], n)) # st[m]

Fairness ==
  \A n \in Nodes : \A m \in Nodes \ {n} :
    []<>(~HeartbeatNews(n, m)) \/ []<><<Heartbeat(n, m)>>_(st[m])

FairSpec == Spec /\ Fairness

-----------------------------------------------------------------------------
(* Properties.                                                             *)

View ==
  [ currentEpoch : Nat, lastVoteEpoch : Nat, slaveof : [Nodes -> Nodes \cup {None}],
    configEpoch : [Nodes -> Nat], slots : [Slots -> Nodes \cup {None}],
    owner_not_claiming_slot : SUBSET Slots, failover_auth : {"none", "scheduled", "sent"},
    failover_auth_epoch : Nat, failover_auth_count : Nat, late : BOOLEAN ]

File ==
  [ currentEpoch : Nat, lastVoteEpoch : Nat, slaveof : [Nodes -> Nodes \cup {None}],
    configEpoch : [Nodes -> Nat], slots : [Slots -> Nodes \cup {None}] ]

TypeOK == st \in [Nodes -> View] /\ conf \in [Nodes -> File]

\* No epoch a node knows of or voted in is newer than its currentEpoch.
EpochsBehind(S) ==
  /\ \A m \in Nodes : S.configEpoch[m] <= S.currentEpoch
  /\ S.lastVoteEpoch <= S.currentEpoch

\* "Something that should never happen: currentEpoch smaller than the max epoch
\* found in the nodes configuration" (clusterLoadConfig).  Although a
\* currentEpoch learnt from a packet is not saved by itself, and others give
\* themselves epochs without asking, the next epoch a node takes is new to all
\* it knows, in memory and after a restart from its file.
CurrentEpochIsMax ==
  /\ TypeOK
  /\ \A n \in Nodes : /\ EpochsBehind(st[n]) /\ st[n].failover_auth_epoch <= st[n].currentEpoch
                      /\ EpochsBehind(conf[n])

\* A master votes once in an epoch, and what it will find in its file after a
\* restart keeps it from voting again (clusterSendFailoverAuthIfNeeded,
\* clusterLoadConfig).
VotesUnique ==
  /\ \A v, w \in votes : v.epoch = w.epoch /\ v.voter = w.voter => v = w
  /\ \A v \in votes : /\ v.epoch <= st[v.voter].lastVoteEpoch
                      /\ v.epoch <= conf[v.voter].lastVoteEpoch

\* What clusterSetMaster asserts, "myself->numslots == 0", at every moment: a
\* node that is a replica in its own view serves no slot in its own view,
\* whatever heartbeats and UPDATEs made of its role and of its slots.
ReplicaServesNothing ==
  \A n \in Nodes : ~IsMaster(st[n], n) => SlotsOf(st[n], n) = {}

\* The votes n was given in an epoch or in a later one.
VotesFor(n, epoch) == {v \in votes : v.for = n /\ v.epoch >= epoch}

\* An election is won with votes cast in its epoch (clusterProcessPacket,
\* FAILOVER_AUTH_ACK): retries, lost and late answers make none up.  (Not when
\* an answer to an earlier attempt arrives after the next one was scheduled and
\* before it was sent: it is counted.)
WonByVotes ==
  \A w \in won : w.count <= Cardinality(VotesFor(w.leader, w.epoch))

Agreed == \A n, m \in Nodes : st[n].slots = st[m].slots

\* A view gives slots to a node it has as a replica.
ReplicaOwnsSlot ==
  \E n, m \in Nodes : ~IsMaster(st[n], m) /\ SlotsOf(st[n], m) # {}

\* When elections and commands end, heartbeats alone make every node know the
\* same owner of every slot (clusterUpdateSlotsConfigWith,
\* clusterHandleConfigEpochCollision).  (Not when a stale packet made a view
\* take a master for a replica and leave it its slots: such a slot may stay
\* where it is.)
EventuallyAgree == <>[](Agreed \/ ReplicaOwnsSlot)
============================================================================
