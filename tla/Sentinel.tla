----------------------------- MODULE Sentinel -----------------------------
(***************************************************************************)
(* Redis Sentinel (redis-stable/src/sentinel.c) monitoring one master:     *)
(* subjective and objective down, the vote of an epoch, the failover state *)
(* machine, the hello messages that spread epochs and configurations, and  *)
(* the configuration file a restart reads back.                            *)
(*                                                                         *)
(* A C function that updates a sentinelRedisInstance is an operator from a *)
(* record to a record; a handler of the event loop is one action.  Time is *)
(* a choice: a tick may or may not find that a timeout has elapsed.        *)
(***************************************************************************)
EXTENDS Naturals, FiniteSets

CONSTANTS
  Sentinels,   \* the Sentinels monitoring the master, all known to each other
  Instances,   \* the addresses of the Redis servers
  Master0,     \* the address in the "sentinel monitor" line at the start
  Flaky,       \* the addresses that may be unreachable for a while
  Quorum,      \* the quorum of the "sentinel monitor" line
  MaxEpoch,    \* bound on current_epoch
  MaxEvents,   \* bound on operator commands, failovers of other masters, restarts
  None         \* a null leader, a null promoted_slave, the runid "*"

ASSUME SentinelAssumption ==
  /\ IsFiniteSet(Sentinels)
  /\ Master0 \in Instances
  /\ Flaky \subseteq Instances
  /\ Quorum \in Nat \ {0}
  /\ MaxEpoch \in Nat /\ MaxEvents \in Nat
  /\ None \notin Sentinels \cup Instances

VARIABLES
  st,       \* st[s]: the state of Sentinel s in memory
  disk,     \* disk[s]: what its configuration file holds
  asks,     \* the is-master-down-by-addr requests for a vote sent so far
  hellos,   \* the hello messages published so far
  events,   \* operator commands, failovers of other masters and restarts so far
  role,     \* role[i]: what INFO of instance i reports, "master" or "slave"
  votes,    \* history: every vote cast, [voter, epoch, leader]
  elected   \* history: every failover that left WAIT_START

vars == <<st, disk, asks, hellos, events, role, votes, elected>>

Peers(s) == Sentinels \ {s}

FailoverStates == {"NONE", "WAIT_START", "SELECT_SLAVE", "SEND_SLAVEOF_NOONE",
                   "WAIT_PROMOTION", "RECONF_SLAVES", "UPDATE_CONFIG"}

\* No peer is known to have voted in the current epoch.
NoVotes(s) == [p \in Peers(s) |-> None]

\* A monitored master as createSentinelRedisInstance leaves it.
FreshMaster(s, addr, current, config, voted) ==
  [current_epoch  |-> current, addr |-> addr, config_epoch |-> config,
   leader |-> None, leader_epoch |-> voted,
   failover_state |-> "NONE", failover_epoch |-> 0, force |-> FALSE,
   promoted |-> None,
   peer |-> NoVotes(s)]

Init ==
  /\ st = [s \in Sentinels |-> FreshMaster(s, Master0, 0, 0, 0)]
  /\ disk = [s \in Sentinels |->
               [current_epoch |-> 0, addr |-> Master0, config_epoch |-> 0,
                leader_epoch |-> 0]]
  /\ asks = {}
  /\ hellos = {}
  /\ events = 0
  /\ role = [i \in Instances |-> IF i = Master0 THEN "master" ELSE "slave"]
  /\ votes = {}
  /\ elected = {}

-----------------------------------------------------------------------------
(* Functions on the state of one Sentinel                                  *)

InProgress(S) == S.failover_state # "NONE"

\* The address a Sentinel advertises and saves: the promoted replica once it
\* has acknowledged the switch, the configured master before that.
sentinelGetCurrentMasterAddress(S) ==
  IF S.promoted # None /\ S.failover_state \in {"RECONF_SLAVES", "UPDATE_CONFIG"}
  THEN S.promoted ELSE S.addr

\* What sentinelFlushConfig writes of the state (rewriteConfigSentinelOption).
Flushed(S) ==
  [current_epoch |-> S.current_epoch, addr |-> sentinelGetCurrentMasterAddress(S),
   config_epoch |-> S.config_epoch, leader_epoch |-> S.leader_epoch]

\* A newer epoch: sentinelGetLeader only counts the replies of the current
\* one, so the others are not kept.
Advance(S, epoch) ==
  [S EXCEPT !.current_epoch = epoch, !.peer = [p \in DOMAIN @ |-> None]]

\* Mutant: a vote of the same epoch may be cast again.
VoteAgain(S, req_epoch, req_runid) ==
  LET E == IF req_epoch > S.current_epoch THEN Advance(S, req_epoch) ELSE S
  IN IF E.leader_epoch <= req_epoch /\ E.current_epoch <= req_epoch
     THEN [E EXCEPT !.leader = req_runid, !.leader_epoch = E.current_epoch]
     ELSE E

\* sentinelVoteLeader: adopt a newer epoch, then vote if no vote was cast in
\* this epoch or a later one.
sentinelVoteLeader(S, req_epoch, req_runid) ==
  LET E == IF req_epoch > S.current_epoch THEN Advance(S, req_epoch) ELSE S
  IN IF E.leader_epoch < req_epoch /\ E.current_epoch <= req_epoch
     THEN [E EXCEPT !.leader = req_runid, !.leader_epoch = E.current_epoch]
     ELSE E

\* Mutant: the file is only saved when the epoch moves.
VoteSavesEpochOnly(S, req_epoch) == req_epoch > S.current_epoch

\* sentinelVoteLeader saves the file when it moved the epoch or cast a vote.
VoteSaves(S, req_epoch) ==
  \/ req_epoch > S.current_epoch
  \/ S.leader_epoch < req_epoch /\ S.current_epoch <= req_epoch

\* The peers whose latest reply is a vote for c in the current epoch.
PeerVotes(S, c) == {p \in DOMAIN S.peer : S.peer[p] = c}

\* The candidates most voted among the peers; the C code keeps the first one
\* its dictionary iterator meets.
MostVoted(S) ==
  LET voted == {S.peer[p] : p \in DOMAIN S.peer} \ {None}
  IN {c \in voted : \A d \in voted :
        Cardinality(PeerVotes(S, c)) >= Cardinality(PeerVotes(S, d))}

\* Those counted for c once this Sentinel has voted: the peers, and itself
\* when its own vote is of the epoch it asks about.
Supporters(s, S, epoch, c) ==
  PeerVotes(S, c) \cup
    (IF S.leader = c /\ S.leader_epoch = epoch THEN {s} ELSE {})

\* Mutant: half of the Sentinels are a majority.
HalfWins(s, S, epoch, c) ==
  LET n == Cardinality(Supporters(s, S, epoch, c))
  IN n >= (Cardinality(DOMAIN S.peer) + 1) \div 2 /\ n >= Quorum

\* sentinelGetLeader names c: an absolute majority of the known Sentinels,
\* and at least the configured quorum.
Wins(s, S, epoch, c) ==
  LET n == Cardinality(Supporters(s, S, epoch, c))
  IN n >= (Cardinality(DOMAIN S.peer) + 1) \div 2 + 1 /\ n >= Quorum

sentinelStartFailover(S) ==
  [Advance(S, S.current_epoch + 1) EXCEPT
     !.failover_state = "WAIT_START", !.failover_epoch = S.current_epoch + 1]

\* Mutant: the promoted replica stays marked.
AbortKeepsPromoted(S) ==
  [S EXCEPT !.failover_state = "NONE", !.force = FALSE]

sentinelAbortFailover(S) ==
  [S EXCEPT !.failover_state = "NONE", !.force = FALSE, !.promoted = None]

\* sentinelResetMasterAndChangeAddress: the failover is undone, the runtime
\* flags and the name of the last vote are dropped; epochs and peers stay.
sentinelResetMasterAndChangeAddress(S, addr) ==
  [S EXCEPT !.addr = addr, !.leader = None, !.failover_state = "NONE",
            !.force = FALSE, !.promoted = None]

\* sentinelAskMasterStateToOtherSentinels forgets the votes of the peers in
\* "stale", those that have not answered for five periods.
ForgetStale(S, stale) ==
  [S EXCEPT !.peer = [p \in DOMAIN S.peer |-> IF p \in stale THEN None ELSE S.peer[p]]]

\* ... and while a failover is in progress asks every peer for its vote; a
\* request is repeated at every period and may be lost or late, so the set
\* only grows.
Asks(s, S) ==
  IF InProgress(S)
  THEN {[runid |-> s, addr |-> S.addr, epoch |-> S.current_epoch]} ELSE {}

HelloOf(S) ==
  [current_epoch |-> S.current_epoch,
   addr |-> sentinelGetCurrentMasterAddress(S), config_epoch |-> S.config_epoch]

\* The step of s from st[s] to S: the vote it holds, if any, is on record.
Becomes(s, S, saves) ==
  /\ st' = [st EXCEPT ![s] = S]
  /\ disk' = IF saves THEN [disk EXCEPT ![s] = Flushed(S)] ELSE disk
  /\ votes' = votes \cup
       (IF S.leader = None THEN {}
        ELSE {[voter |-> s, epoch |-> S.leader_epoch, leader |-> S.leader]})

-----------------------------------------------------------------------------
(* sentinelTimer: one pass of sentinelHandleRedisInstance over the master  *)

\* The rest of a pass once the failover state machine has run: the peers are
\* asked, and the pass has published a hello when it began.
EndTick(s, S, saves) ==
  \E stale \in SUBSET {p \in Peers(s) : S.peer[p] # None} :
    /\ Becomes(s, ForgetStale(S, stale), saves)
    /\ asks' = asks \cup Asks(s, S)
    /\ hellos' = hellos \cup {HelloOf(st[s])}

\* sentinelStartFailoverIfNeeded: a master whose address may be unreachable
\* can be objectively down at any pass (a weak quorum of late reports), and
\* enough time may have passed since the last failover.
Monitored(s) ==
  {st[s]} \cup
    (IF /\ st[s].addr \in Flaky /\ ~InProgress(st[s])
        /\ st[s].current_epoch < MaxEpoch
     THEN {sentinelStartFailover(st[s])} ELSE {})

NoFailover(s, S) ==
  /\ ~InProgress(S)
  /\ EndTick(s, S, FALSE)
  /\ UNCHANGED <<role, elected>>

\* sentinelFailoverWaitStart, once sentinelGetLeader has chosen the candidate
\* c to vote for: go on as the leader or because the failover is forced, give
\* up after the election timeout (never in the pass that started the failover).
VoteAndCount(s, S, c) ==
  LET V == sentinelVoteLeader(S, S.failover_epoch, c)
      saves == VoteSaves(S, S.failover_epoch)
      isleader == Wins(s, V, S.failover_epoch, s)
  IN \/ /\ isleader \/ S.force
        /\ EndTick(s, [V EXCEPT !.failover_state = "SELECT_SLAVE"], saves)
        /\ elected' = elected \cup
             {[leader |-> s, epoch |-> S.failover_epoch, forced |-> ~isleader,
               inEpoch |-> S.current_epoch = S.failover_epoch]}
     \/ /\ ~isleader /\ ~S.force
        /\ \/ EndTick(s, V, saves)
           \/ /\ InProgress(st[s])
              /\ EndTick(s, sentinelAbortFailover(V), saves)
        /\ UNCHANGED elected

\* The vote goes to the most voted candidate, or to oneself.
sentinelFailoverWaitStart(s, S) ==
  /\ S.failover_state = "WAIT_START"
  /\ \E c \in IF MostVoted(S) = {} THEN {s} ELSE MostVoted(S) : VoteAndCount(s, S, c)
  /\ UNCHANGED role

\* sentinelSelectSlave may find none, and otherwise takes the best replica.
sentinelFailoverSelectSlave(s, S) ==
  /\ S.failover_state = "SELECT_SLAVE"
  /\ \/ EndTick(s, sentinelAbortFailover(S), FALSE)
     \/ \E i \in Instances \ {S.addr} :
          EndTick(s, [S EXCEPT !.promoted = i,
                               !.failover_state = "SEND_SLAVEOF_NOONE"], FALSE)
  /\ UNCHANGED <<role, elected>>

\* SLAVEOF NO ONE reaches the replica, or is lost with the connection; while
\* the link is down the state is kept until the failover timeout.
sentinelFailoverSendSlaveOfNoOne(s, S) ==
  /\ S.failover_state = "SEND_SLAVEOF_NOONE"
  /\ \/ /\ EndTick(s, [S EXCEPT !.failover_state = "WAIT_PROMOTION"], FALSE)
        /\ role' \in {role, [role EXCEPT ![S.promoted] = "master"]}
     \/ /\ EndTick(s, S, FALSE) \/ EndTick(s, sentinelAbortFailover(S), FALSE)
        /\ UNCHANGED role
  /\ UNCHANGED elected

sentinelFailoverWaitPromotion(s, S) ==
  /\ S.failover_state = "WAIT_PROMOTION"
  /\ EndTick(s, S, FALSE) \/ EndTick(s, sentinelAbortFailover(S), FALSE)
  /\ UNCHANGED <<role, elected>>

\* sentinelFailoverReconfNextSlave: once the other replicas follow the new
\* master, or by timeout, sentinelFailoverSwitchToPromotedSlave closes the
\* pass; it is only reached while the promoted replica answers.
sentinelFailoverReconfNextSlave(s, S) ==
  /\ S.failover_state = "RECONF_SLAVES"
  /\ \/ EndTick(s, S, FALSE)
     \/ EndTick(s, sentinelResetMasterAndChangeAddress(S, S.promoted), TRUE)
  /\ UNCHANGED <<role, elected>>

sentinelFailoverStateMachine(s, S) ==
  \/ NoFailover(s, S)
  \/ sentinelFailoverWaitStart(s, S)
  \/ sentinelFailoverSelectSlave(s, S)
  \/ sentinelFailoverSendSlaveOfNoOne(s, S)
  \/ sentinelFailoverWaitPromotion(s, S)
  \/ sentinelFailoverReconfNextSlave(s, S)

sentinelTimer(s) == \E S \in Monitored(s) : sentinelFailoverStateMachine(s, S)

-----------------------------------------------------------------------------
(* Commands, replies and messages                                          *)

\* SENTINEL IS-MASTER-DOWN-BY-ADDR with a runid, from a peer that names the
\* address this Sentinel has for the master.  The reply carries the vote held
\* afterwards, which "votes" has from the moment it was cast, so a request that
\* neither moves the epoch nor gets a vote is no step.
IsMasterDownByAddr(t) ==
  \E m \in asks :
    /\ m.runid # t /\ m.addr = st[t].addr
    /\ sentinelVoteLeader(st[t], m.epoch, m.runid) # st[t]
    /\ Becomes(t, sentinelVoteLeader(st[t], m.epoch, m.runid),
               VoteSaves(st[t], m.epoch))
    /\ UNCHANGED <<asks, hellos, role, elected>>

\* A reply, however late, to a request of s: a vote in the current epoch that
\* it did not know of.
sentinelReceiveIsMasterDownReply(s) ==
  \E v \in votes :
    /\ v.voter # s /\ v.epoch = st[s].current_epoch /\ v.leader # st[s].peer[v.voter]
    /\ \E m \in asks : m.runid = s
    /\ Becomes(s, [st[s] EXCEPT !.peer[v.voter] = v.leader], FALSE)
    /\ UNCHANGED <<asks, hellos, role, elected>>

\* sentinelProcessHelloMessage: adopt a newer epoch, then a newer
\* configuration; a switch of address resets the master.
sentinelProcessHelloMessage(s) ==
  \E h \in hellos :
    /\ LET newer == h.current_epoch > st[s].current_epoch
           E == IF newer THEN Advance(st[s], h.current_epoch) ELSE st[s]
           updates == st[s].config_epoch < h.config_epoch
           C == IF updates THEN [E EXCEPT !.config_epoch = h.config_epoch] ELSE E
           switches == updates /\ h.addr # st[s].addr
           S == IF switches THEN sentinelResetMasterAndChangeAddress(C, h.addr) ELSE C
       IN /\ newer \/ updates
          /\ st' = [st EXCEPT ![s] = S]
          /\ disk' = [disk EXCEPT ![s] = IF switches THEN Flushed(S)
                                         ELSE IF newer THEN Flushed(E) ELSE @]
    /\ UNCHANGED <<asks, hellos, role, votes, elected>>

\* sentinelRefreshInstanceInfo when INFO of replica i reports a master: the
\* promoted replica ends WAIT_PROMOTION with the epoch of the failover as the
\* new configuration epoch; any other one is turned back into a replica.
sentinelRefreshInstanceInfo(s, i) ==
  /\ i # st[s].addr /\ role[i] = "master"
  /\ \/ /\ i = st[s].promoted /\ st[s].failover_state = "WAIT_PROMOTION"
        /\ Becomes(s, [st[s] EXCEPT !.config_epoch = st[s].failover_epoch,
                                    !.failover_state = "RECONF_SLAVES"], TRUE)
        /\ UNCHANGED role
     \/ /\ i # st[s].promoted
        /\ role[st[s].addr] = "master"
        /\ role' = [role EXCEPT ![i] = "slave"]
        /\ UNCHANGED <<st, disk, votes>>
  /\ UNCHANGED <<asks, hellos, elected>>

\* SENTINEL FAILOVER: a failover without agreement, if a replica is suitable.
sentinelFailoverCommand(s) ==
  /\ ~InProgress(st[s]) /\ st[s].current_epoch < MaxEpoch
  /\ Instances # {st[s].addr}
  /\ Becomes(s, [sentinelStartFailover(st[s]) EXCEPT !.force = TRUE], FALSE)
  /\ UNCHANGED <<asks, hellos, role, elected>>

\* sentinelStartFailover for another master: current_epoch is shared by all
\* the masters a Sentinel monitors, and this increment is not saved.
OtherMasterFailover(s) ==
  /\ st[s].current_epoch < MaxEpoch
  /\ st' = [st EXCEPT ![s] = Advance(@, @.current_epoch + 1)]
  /\ UNCHANGED <<disk, asks, hellos, role, votes, elected>>

\* Mutant: the epoch of the last vote is not read back.
RestartForgetsVote(s) ==
  /\ st' = [st EXCEPT ![s] = FreshMaster(s, disk[s].addr, disk[s].current_epoch,
                                         disk[s].config_epoch, 0)]
  /\ UNCHANGED <<disk, asks, hellos, role, votes, elected>>

\* The process stops and starts again from its configuration file
\* (sentinelHandleConfiguration); its connections are gone.
Restart(s) ==
  /\ st' = [st EXCEPT ![s] = FreshMaster(s, disk[s].addr,
                     IF disk[s].config_epoch > disk[s].current_epoch
                     THEN disk[s].config_epoch ELSE disk[s].current_epoch,
                     disk[s].config_epoch, disk[s].leader_epoch)]
  /\ UNCHANGED <<disk, asks, hellos, role, votes, elected>>

\* What the Sentinels do of themselves ...
Step(s) ==
  \/ sentinelTimer(s)
  \/ IsMasterDownByAddr(s)
  \/ sentinelReceiveIsMasterDownReply(s)
  \/ sentinelProcessHelloMessage(s)
  \/ \E i \in Instances : sentinelRefreshInstanceInfo(s, i)

\* ... and what comes from outside.
Event(s) ==
  /\ events < MaxEvents
  /\ events' = events + 1
  /\ sentinelFailoverCommand(s) \/ OtherMasterFailover(s) \/ Restart(s)

Next == \E s \in Sentinels : (Step(s) /\ UNCHANGED events) \/ Event(s)

Spec == Init /\ [][Next]_vars

-----------------------------------------------------------------------------
(* Properties                                                              *)

Epochs == 0..MaxEpoch

Saved == [current_epoch : Epochs, addr : Instances, config_epoch : Epochs,
          leader_epoch : Epochs]

State(s) ==
  [current_epoch : Epochs, addr : Instances, config_epoch : Epochs,
   leader : Sentinels \cup {None}, leader_epoch : Epochs,
   failover_state : FailoverStates, failover_epoch : Epochs, force : BOOLEAN,
   promoted : Instances \cup {None}, peer : [Peers(s) -> Sentinels \cup {None}]]

\* Types; and a replica is marked as promoted exactly from its selection to
\* the end of the failover, so that no later state of the machine dereferences
\* a null promoted_slave.
TypeOK ==
  /\ st = [s \in Sentinels |-> st[s]]
  /\ \A s \in Sentinels :
       /\ st[s] \in State(s)
       /\ st[s].promoted = None <=>
            st[s].failover_state \in {"NONE", "WAIT_START", "SELECT_SLAVE"}
  /\ disk \in [Sentinels -> Saved]
  /\ asks \subseteq [runid : Sentinels, addr : Instances, epoch : Epochs]
  /\ hellos \subseteq [current_epoch : Epochs, addr : Instances, config_epoch : Epochs]
  /\ role \in [Instances -> {"master", "slave"}]
  /\ votes \subseteq [voter : Sentinels, epoch : Epochs, leader : Sentinels]
  /\ elected \subseteq [leader : Sentinels, epoch : Epochs, forced : BOOLEAN,
                       inEpoch : BOOLEAN]

\* A vote is in the file of the voter before anyone can count it, so a restart
\* never takes it back; the vote a Sentinel holds and the votes it has heard of
\* in its current epoch were really cast.
VotesDurable ==
  /\ \A s \in Sentinels : disk[s].leader_epoch = st[s].leader_epoch
  /\ \A v \in votes : v.epoch <= disk[v.voter].leader_epoch
  /\ \A s \in Sentinels : st[s].leader # None =>
       [voter |-> s, epoch |-> st[s].leader_epoch, leader |-> st[s].leader] \in votes
  /\ \A s \in Sentinels : \A p \in Peers(s) : st[s].peer[p] # None =>
       [voter |-> p, epoch |-> st[s].current_epoch, leader |-> st[s].peer[p]] \in votes

\* "Each Sentinel can vote just one time per epoch" (the comment of the
\* is-master-down-by-addr handler): whatever requests arrive, in whatever
\* order, and however often the process restarts in between.
VotesUnique ==
  \A v, w \in votes : v.voter = w.voter /\ v.epoch = w.epoch => v = w

Voters(e, c) == {v.voter : v \in {w \in votes : w.epoch = e /\ w.leader = c}}

\* A failover that was not forced and whose election was counted while its
\* epoch was the current one has the votes of a majority of all the Sentinels
\* in that epoch: late replies, stale views and restarts never add up to it.
ElectedByMajority ==
  \A x \in elected : ~x.forced /\ x.inEpoch =>
     2 * Cardinality(Voters(x.epoch, x.leader)) > Cardinality(Sentinels)

\* The elections counted inside their epoch, seen as EpochLeader: each such
\* step decides one epoch that was undecided, or changes nothing.
Election == INSTANCE EpochLeader WITH
  Candidates <- Sentinels,
  won <- {[epoch |-> x.epoch, leader |-> x.leader] :
            x \in {y \in elected : ~y.forced /\ y.inEpoch}}

ImplementsEpochLeader == Election!Spec

\* "To be a leader for a given epoch, we should have the majority of the
\* Sentinels we know ... that reported the same instance as leader for the
\* same epoch" (sentinelGetLeader): two Sentinels never lead failovers of the
\* same failover_epoch, which becomes the epoch of the configuration.
OneLeaderPerEpoch ==
  \A x, y \in elected :
    ~x.forced /\ ~y.forced /\ x.epoch = y.epoch => x.leader = y.leader
=============================================================================
