--------------------------- MODULE SentinelProofs ---------------------------
(***************************************************************************)
(* For every number of Sentinels, every quorum and every bound: a Sentinel *)
(* votes once per epoch, an election counted in its epoch has a majority,  *)
(* and those elections implement EpochLeader.                              *)
(*                                                                         *)
(* SentinelInv is inductive.  VotesDurable is what VotesUnique needs (a    *)
(* restart finds the epoch of the last vote in the file) and what the      *)
(* majority needs (a counted reply is a vote that was cast).               *)
(***************************************************************************)
EXTENDS Sentinel, FiniteSetTheorems, TLAPS

SentinelInv == TypeOK /\ VotesDurable /\ VotesUnique /\ ElectedByMajority

\* What a handler may turn the state of s into: epochs of votes only grow, a
\* new epoch comes with a vote, the votes heard of were cast.
Reaches(s, S) ==
  /\ S \in State(s)
  /\ S.promoted = None <=>
       S.failover_state \in {"NONE", "WAIT_START", "SELECT_SLAVE"}
  /\ S.leader_epoch >= st[s].leader_epoch
  /\ S.leader_epoch = st[s].leader_epoch => S.leader \in {st[s].leader, None}
  /\ S.leader_epoch # st[s].leader_epoch => S.leader # None
  /\ \A p \in Peers(s) : S.peer[p] # None =>
       [voter |-> p, epoch |-> S.current_epoch, leader |-> S.peer[p]] \in votes

-----------------------------------------------------------------------------
(* The functions on the state of one Sentinel                              *)

\* The present state is where a handler starts from.
LEMMA ReachesRefl ==
  ASSUME SentinelInv, NEW s \in Sentinels
  PROVE  Reaches(s, st[s])
BY SentinelAssumption DEF SentinelInv, TypeOK, VotesDurable, Reaches, State, Epochs

\* A newer epoch forgets the votes of the peers.
LEMMA ReachesAdvance ==
  ASSUME NEW s \in Sentinels, NEW S, Reaches(s, S), NEW e \in Epochs
  PROVE  Reaches(s, Advance(S, e))
BY Zenon DEF Reaches, Advance, State

\* A vote is of the epoch asked for, which is newer than that of the last one.
LEMMA ReachesVote ==
  ASSUME NEW s \in Sentinels, NEW S, Reaches(s, S), st[s] \in State(s),
         NEW e \in Epochs, NEW c \in Sentinels
  PROVE  /\ Reaches(s, sentinelVoteLeader(S, e, c))
         /\ sentinelVoteLeader(S, e, c).leader_epoch = S.leader_epoch \/ VoteSaves(S, e)
<1> DEFINE E == IF e > S.current_epoch THEN Advance(S, e) ELSE S
<1>1. Reaches(s, E)
  BY ReachesAdvance
<1>2. E \in State(s) /\ S \in State(s) /\ E.leader_epoch = S.leader_epoch
  BY <1>1 DEF Reaches, Advance, State
<1>3. E.current_epoch \in Nat /\ e \in Nat /\ E.leader_epoch \in Nat /\ S.current_epoch \in Nat
      /\ st[s].leader_epoch \in Nat /\ MaxEpoch \in Nat
  BY <1>2, SentinelAssumption DEF State, Epochs
<1>4. E.current_epoch >= e /\ (e <= S.current_epoch => E = S)
  BY <1>2, <1>3 DEF Advance, State
<1> HIDE DEF E
<1>5. CASE E.leader_epoch < e /\ E.current_epoch <= e
  <2> DEFINE V == [E EXCEPT !.leader = c, !.leader_epoch = E.current_epoch]
  <2>1. sentinelVoteLeader(S, e, c) = V
    BY <1>5 DEF sentinelVoteLeader, E
  <2>2. E.current_epoch = e
    BY <1>3, <1>4, <1>5
  <2>3. V \in State(s) /\ V.leader = c /\ V.leader_epoch = e /\ V.peer = E.peer
        /\ V.current_epoch = E.current_epoch /\ V.promoted = E.promoted
        /\ V.failover_state = E.failover_state
    BY Zenon, <1>2, <2>2 DEF State
  <2>4. e > st[s].leader_epoch
    BY <1>1, <1>3, <1>5 DEF Reaches
  <2>5. c # None
    BY SentinelAssumption
  <2> HIDE DEF V
  <2>6. Reaches(s, V)
    BY <1>1, <1>3, <2>3, <2>4, <2>5 DEF Reaches
  <2>7. VoteSaves(S, e)
    BY <1>2, <1>3, <1>4, <1>5 DEF VoteSaves
  <2> QED BY <2>1, <2>6, <2>7
<1>6. CASE ~(E.leader_epoch < e /\ E.current_epoch <= e)
  <2>1. sentinelVoteLeader(S, e, c) = E
    BY <1>6 DEF sentinelVoteLeader, E
  <2> QED BY <1>1, <1>2, <2>1
<1> QED BY <1>5, <1>6

\* Starting a failover moves the epoch and keeps the vote.
LEMMA ReachesStart ==
  ASSUME NEW s \in Sentinels, NEW S, Reaches(s, S), ~InProgress(S),
         S.current_epoch < MaxEpoch
  PROVE  /\ Reaches(s, sentinelStartFailover(S))
         /\ sentinelStartFailover(S).leader_epoch = S.leader_epoch
<1>1. S.current_epoch + 1 \in Epochs
  BY SentinelAssumption DEF Epochs, Reaches, State
<1>2. Reaches(s, Advance(S, S.current_epoch + 1))
  BY <1>1, ReachesAdvance
<1> QED BY Zenon, <1>1, <1>2 DEF sentinelStartFailover, Reaches, State, InProgress, FailoverStates, Advance

\* Aborting a failover keeps the vote and unmarks the replica.
LEMMA ReachesAbort ==
  ASSUME NEW s \in Sentinels, NEW S, Reaches(s, S)
  PROVE  /\ Reaches(s, sentinelAbortFailover(S))
         /\ sentinelAbortFailover(S).leader_epoch = S.leader_epoch
BY Zenon DEF sentinelAbortFailover, Reaches, State, FailoverStates

\* A reset may drop the name of the last vote, never its epoch.
LEMMA ReachesReset ==
  ASSUME NEW s \in Sentinels, NEW S, Reaches(s, S), NEW i \in Instances,
         S.leader_epoch = st[s].leader_epoch
  PROVE  /\ Reaches(s, sentinelResetMasterAndChangeAddress(S, i))
         /\ sentinelResetMasterAndChangeAddress(S, i).leader_epoch = S.leader_epoch
BY Zenon DEF sentinelResetMasterAndChangeAddress, Reaches, State, FailoverStates

\* Forgetting stale replies loses votes and makes none up.
LEMMA ReachesForget ==
  ASSUME NEW s \in Sentinels, NEW S, Reaches(s, S), NEW stale
  PROVE  /\ Reaches(s, ForgetStale(S, stale))
         /\ ForgetStale(S, stale).leader_epoch = S.leader_epoch
BY DEF ForgetStale, Reaches, State

-----------------------------------------------------------------------------
(* The steps                                                               *)

\* What is saved of a typed state is typed, and has the epoch of its vote.
LEMMA FlushedType ==
  ASSUME NEW s \in Sentinels, NEW S, Reaches(s, S)
  PROVE  Flushed(S) \in Saved /\ Flushed(S).leader_epoch = S.leader_epoch
BY DEF Flushed, Saved, sentinelGetCurrentMasterAddress, Reaches, State

\* The part of the invariant about votes, without the elections.
VoteInv ==
  /\ st = [s \in Sentinels |-> st[s]]
  /\ \A s \in Sentinels :
       /\ st[s] \in State(s)
       /\ st[s].promoted = None <=>
            st[s].failover_state \in {"NONE", "WAIT_START", "SELECT_SLAVE"}
  /\ disk \in [Sentinels -> Saved]
  /\ votes \subseteq [voter : Sentinels, epoch : Epochs, leader : Sentinels]
  /\ VotesDurable
  /\ VotesUnique

\* A step of s to a state it may reach, saved when it voted, keeps VoteInv:
\* the new vote has an epoch above every earlier vote of s.
LEMMA BecomesKeeps ==
  ASSUME SentinelInv, NEW s \in Sentinels, NEW S, Reaches(s, S),
         NEW saves \in BOOLEAN, Becomes(s, S, saves),
         saves \/ S.leader_epoch = st[s].leader_epoch
  PROVE  VoteInv' /\ votes \subseteq votes'
<1> DEFINE new == [voter |-> s, epoch |-> S.leader_epoch, leader |-> S.leader]
<1>1. /\ S \in State(s) /\ S.leader_epoch \in Nat /\ st[s].leader_epoch \in Nat
      /\ S.leader \in Sentinels \cup {None} /\ S.leader_epoch \in Epochs
  BY SentinelAssumption DEF SentinelInv, TypeOK, Reaches, State, Epochs
<1>2. /\ st' = [st EXCEPT ![s] = S] /\ st = [t \in Sentinels |-> st[t]]
      /\ votes' = votes \cup (IF S.leader = None THEN {} ELSE {new})
  BY DEF Becomes, SentinelInv, TypeOK
<1>3. /\ st' = [t \in Sentinels |-> st'[t]]
      /\ st'[s] = S /\ \A t \in Sentinels : t # s => st'[t] = st[t]
  BY <1>2
<1>4. disk' \in [Sentinels -> Saved] /\ disk'[s].leader_epoch = S.leader_epoch
      /\ \A t \in Sentinels : t # s => disk'[t] = disk[t]
  BY FlushedType DEF Becomes, SentinelInv, TypeOK, VotesDurable
<1>5. /\ \A t \in Sentinels : st'[t] \in State(t)
      /\ \A t \in Sentinels : st'[t].promoted = None <=>
            st'[t].failover_state \in {"NONE", "WAIT_START", "SELECT_SLAVE"}
  BY <1>3 DEF SentinelInv, TypeOK, Reaches
<1>6. votes \subseteq [voter : Sentinels, epoch : Epochs, leader : Sentinels]
  BY DEF SentinelInv, TypeOK
<1>7. votes' \subseteq [voter : Sentinels, epoch : Epochs, leader : Sentinels]
  BY <1>1, <1>2, <1>6
<1>8. /\ \A v \in votes : v.voter = s => v.epoch <= st[s].leader_epoch
      /\ \A v \in votes : v.voter \in Sentinels /\ v.epoch \in Nat
  BY <1>6, SentinelAssumption DEF SentinelInv, VotesDurable, Epochs
<1>9. S.leader_epoch = st[s].leader_epoch /\ S.leader # None => new \in votes
  BY DEF Reaches, SentinelInv, VotesDurable
<1>10. VotesUnique'
  <2>1. CASE votes' = votes
    BY <2>1 DEF VotesUnique, SentinelInv
  <2>2. CASE votes' # votes
    <3>1. votes' = votes \cup {new} /\ S.leader # None /\ new \notin votes
      BY <1>2, <2>2
    <3>2. S.leader_epoch > st[s].leader_epoch
      BY <3>1, <1>9, <1>1 DEF Reaches
    <3>3. \A v \in votes : v.voter = s => v.epoch # S.leader_epoch
      BY <1>8, <3>2, <1>1
    <3>4. new.voter = s /\ new.epoch = S.leader_epoch
      OBVIOUS
    <3> HIDE DEF new
    <3> QED BY <3>1, <3>3, <3>4 DEF VotesUnique, SentinelInv
  <2> QED BY <2>1, <2>2
<1>11. VotesDurable'
  <2>1. \A t \in Sentinels : disk'[t].leader_epoch = st'[t].leader_epoch
    BY <1>3, <1>4 DEF SentinelInv, VotesDurable
  <2>2. \A v \in votes' : v.epoch <= disk'[v.voter].leader_epoch
    <3>1. SUFFICES ASSUME NEW v \in votes' PROVE v.epoch <= disk'[v.voter].leader_epoch
      OBVIOUS
    <3>2. CASE v \in votes /\ v.voter = s
      BY <3>2, <1>8, <1>4, <1>1 DEF Reaches
    <3>3. CASE v \in votes /\ v.voter # s
      BY <3>3, <1>8, <1>4 DEF SentinelInv, VotesDurable
    <3>4. CASE v = new
      BY <3>4, <1>4, <1>1
    <3> QED BY <3>2, <3>3, <3>4, <1>2
  <2>3. \A t \in Sentinels : st'[t].leader # None =>
          [voter |-> t, epoch |-> st'[t].leader_epoch, leader |-> st'[t].leader] \in votes'
    BY <1>2, <1>3 DEF SentinelInv, VotesDurable
  <2>4. \A t \in Sentinels : \A p \in Peers(t) : st'[t].peer[p] # None =>
          [voter |-> p, epoch |-> st'[t].current_epoch, leader |-> st'[t].peer[p]] \in votes'
    BY <1>2, <1>3 DEF SentinelInv, VotesDurable, Reaches
  <2> QED BY <2>1, <2>2, <2>3, <2>4 DEF VotesDurable
<1> QED BY <1>2, <1>3, <1>4, <1>5, <1>7, <1>10, <1>11 DEF VoteInv

RestInv ==
  /\ asks \subseteq [runid : Sentinels, addr : Instances, epoch : Epochs]
  /\ hellos \subseteq [current_epoch : Epochs, addr : Instances, config_epoch : Epochs]
  /\ role \in [Instances -> {"master", "slave"}]

\* The end of a pass of sentinelTimer keeps what the state machine kept.
LEMMA EndTickKeeps ==
  ASSUME SentinelInv, NEW s \in Sentinels, NEW S, Reaches(s, S),
         NEW saves \in BOOLEAN, EndTick(s, S, saves),
         saves \/ S.leader_epoch = st[s].leader_epoch,
         role' \in [Instances -> {"master", "slave"}]
  PROVE  /\ VoteInv' /\ votes \subseteq votes' /\ RestInv'
         /\ st'[s].leader = S.leader /\ st'[s].leader_epoch = S.leader_epoch
<1>1. PICK stale : /\ Becomes(s, ForgetStale(S, stale), saves)
                   /\ asks' = asks \cup Asks(s, S)
                   /\ hellos' = hellos \cup {HelloOf(st[s])}
  BY DEF EndTick
<1>2. Reaches(s, ForgetStale(S, stale)) /\ ForgetStale(S, stale).leader_epoch = S.leader_epoch
  BY ReachesForget
<1>3. VoteInv' /\ votes \subseteq votes'
  BY <1>1, <1>2, BecomesKeeps
<1>4. Asks(s, S) \subseteq [runid : Sentinels, addr : Instances, epoch : Epochs]
  BY DEF Asks, Reaches, State
<1>5. HelloOf(st[s]) \in [current_epoch : Epochs, addr : Instances, config_epoch : Epochs]
  BY DEF HelloOf, sentinelGetCurrentMasterAddress, SentinelInv, TypeOK, State
<1>6. st'[s] = ForgetStale(S, stale)
  BY <1>1 DEF Becomes, SentinelInv, TypeOK
<1>7. st'[s].leader = S.leader
  BY <1>6 DEF ForgetStale, Reaches, State
<1> QED BY <1>1, <1>2, <1>3, <1>4, <1>5, <1>6, <1>7 DEF RestInv, SentinelInv, TypeOK

\* A failover in progress has passed sentinelStartFailoverIfNeeded.
LEMMA MonitoredReaches ==
  ASSUME SentinelInv, NEW s \in Sentinels, NEW S \in Monitored(s)
  PROVE  Reaches(s, S) /\ S.leader_epoch = st[s].leader_epoch
<1>1. Reaches(s, st[s])
  BY ReachesRefl
<1>2. CASE S = st[s]
  BY <1>1, <1>2
<1>3. CASE S = sentinelStartFailover(st[s]) /\ ~InProgress(st[s])
           /\ st[s].current_epoch < MaxEpoch
  BY <1>1, <1>3, ReachesStart
<1> QED BY <1>2, <1>3 DEF Monitored

\* The votes of an election only grow.
Backed(e, c) == 2 * Cardinality(Voters(e, c)) > Cardinality(Sentinels)

\* sentinelGetLeader names s at its own epoch only with a majority of cast votes.
LEMMA WinsBacked ==
  ASSUME SentinelInv, NEW s \in Sentinels, NEW V, Reaches(s, V),
         VoteInv', votes \subseteq votes',
         st'[s].leader = V.leader, st'[s].leader_epoch = V.leader_epoch,
         Wins(s, V, V.current_epoch, s)
  PROVE  Backed(V.current_epoch, s)'
<1> DEFINE e == V.current_epoch
           Sup == Supporters(s, V, e, s)
           Vot == {v.voter : v \in {w \in votes' : w.epoch = e /\ w.leader = s}}
<1>0. s # None /\ DOMAIN V.peer = Peers(s) /\ IsFiniteSet(Sentinels)
  BY SentinelAssumption DEF Reaches, State
<1>1. \A p \in PeerVotes(V, s) : [voter |-> p, epoch |-> e, leader |-> s] \in votes'
  BY <1>0 DEF PeerVotes, Reaches
<1>2. V.leader = s /\ V.leader_epoch = e =>
        [voter |-> s, epoch |-> e, leader |-> s] \in votes'
  BY <1>0 DEF VoteInv, VotesDurable
<1>3. Sup \subseteq Vot
  <2> SUFFICES ASSUME NEW p \in Sup PROVE p \in Vot
    OBVIOUS
  <2>1. [voter |-> p, epoch |-> e, leader |-> s] \in votes'
    BY <1>1, <1>2 DEF Supporters
  <2> QED BY <2>1
<1>4. Vot \subseteq Sentinels
  BY DEF VoteInv
<1>5. /\ IsFiniteSet(Vot) /\ Cardinality(Sup) <= Cardinality(Vot)
      /\ Cardinality(Vot) \in Nat /\ Cardinality(Sup) \in Nat
  BY <1>0, <1>3, <1>4, FS_Subset, FS_CardinalityType
<1>6. /\ Cardinality(Peers(s)) = Cardinality(Sentinels) - 1
      /\ Cardinality(Sentinels) \in Nat
  BY <1>0, FS_RemoveElement, FS_CardinalityType DEF Peers
<1>7. Cardinality(Sup) >= (Cardinality(Peers(s)) + 1) \div 2 + 1
  BY <1>0 DEF Wins
<1>8. Voters(e, s)' = Vot
  BY DEF Voters
<1> HIDE DEF Sup, Vot, e
<1>9. 2 * Cardinality(Vot) > Cardinality(Sentinels)
  BY <1>5, <1>6, <1>7
<1> QED BY <1>8, <1>9 DEF Backed, e

\* Every handler keeps the votes; an election it adds is backed by them when
\* it is unforced and counted in its epoch.
Kept ==
  /\ VoteInv' /\ votes \subseteq votes' /\ RestInv'
  /\ \/ elected' = elected
     \/ \E x \in [leader : Sentinels, epoch : Epochs, forced : BOOLEAN, inEpoch : BOOLEAN] :
          /\ elected' = elected \cup {x}
          /\ ~x.forced /\ x.inEpoch => Backed(x.epoch, x.leader)'

\* sentinelFailoverWaitStart keeps the invariant.
LEMMA WaitStartKeeps ==
  ASSUME SentinelInv, NEW s \in Sentinels, NEW S, Reaches(s, S),
         S.leader_epoch = st[s].leader_epoch, sentinelFailoverWaitStart(s, S)
  PROVE  Kept
<1>1. PICK c \in IF MostVoted(S) = {} THEN {s} ELSE MostVoted(S) :
        VoteAndCount(s, S, c)
  BY DEF sentinelFailoverWaitStart
<1>2. c \in Sentinels
  BY <1>1 DEF MostVoted, Reaches, State
<1> DEFINE V == sentinelVoteLeader(S, S.failover_epoch, c)
           saves == VoteSaves(S, S.failover_epoch)
           isleader == Wins(s, V, S.failover_epoch, s)
<1>3. S.failover_epoch \in Epochs /\ S.current_epoch \in Epochs
      /\ S.failover_state = "WAIT_START" /\ S \in State(s) /\ st[s] \in State(s)
  BY DEF Reaches, State, sentinelFailoverWaitStart, SentinelInv, TypeOK
<1>4. Reaches(s, V) /\ (saves \/ V.leader_epoch = st[s].leader_epoch)
  BY <1>2, <1>3, ReachesVote
<1>5. V.failover_state = "WAIT_START"
      /\ (S.current_epoch = S.failover_epoch => V.current_epoch = S.failover_epoch)
  <2>1. S.failover_epoch \in Nat
    BY <1>3, SentinelAssumption DEF Epochs
  <2> QED BY <1>3, <2>1 DEF sentinelVoteLeader, Advance, State
<1>6. saves \in BOOLEAN
  BY DEF VoteSaves
<1>7. role' = role /\ role \in [Instances -> {"master", "slave"}]
  BY DEF sentinelFailoverWaitStart, SentinelInv, TypeOK
<1> HIDE DEF V, saves
<1>8. CASE /\ EndTick(s, [V EXCEPT !.failover_state = "SELECT_SLAVE"], saves)
           /\ elected' = elected \cup
                {[leader |-> s, epoch |-> S.failover_epoch, forced |-> ~isleader,
                  inEpoch |-> S.current_epoch = S.failover_epoch]}
  <2> DEFINE W == [V EXCEPT !.failover_state = "SELECT_SLAVE"]
             x == [leader |-> s, epoch |-> S.failover_epoch, forced |-> ~isleader,
                   inEpoch |-> S.current_epoch = S.failover_epoch]
  <2>1. /\ Reaches(s, W) /\ W.leader_epoch = V.leader_epoch /\ W.leader = V.leader
    BY <1>4, <1>5 DEF Reaches, State, FailoverStates
  <2>2. /\ VoteInv' /\ votes \subseteq votes' /\ RestInv'
        /\ st'[s].leader = V.leader /\ st'[s].leader_epoch = V.leader_epoch
    <3> HIDE DEF W
    <3> QED BY Zenon, <1>4, <1>6, <1>7, <1>8, <2>1, EndTickKeeps DEF W
  <2>3. isleader /\ S.current_epoch = S.failover_epoch => Backed(S.failover_epoch, s)'
    BY <1>4, <1>5, <2>2, WinsBacked
  <2>4. x \in [leader : Sentinels, epoch : Epochs, forced : BOOLEAN, inEpoch : BOOLEAN]
    BY <1>3 DEF Wins
  <2>5. ~x.forced /\ x.inEpoch => Backed(x.epoch, x.leader)'
    BY Zenon, <2>3
  <2>6. elected' = elected \cup {x}
    BY <1>8
  <2> HIDE DEF x
  <2> QED BY <2>2, <2>4, <2>5, <2>6 DEF Kept
<1>9. CASE EndTick(s, V, saves) /\ elected' = elected
  BY <1>4, <1>6, <1>7, <1>9, EndTickKeeps DEF Kept
<1>10. CASE EndTick(s, sentinelAbortFailover(V), saves) /\ elected' = elected
  BY <1>4, <1>6, <1>7, <1>10, ReachesAbort, EndTickKeeps DEF Kept
<1> QED BY <1>1, <1>8, <1>9, <1>10 DEF VoteAndCount, V, saves

\* Every other state of the failover machine keeps the invariant.
LEMMA TimerKeeps ==
  ASSUME SentinelInv, NEW s \in Sentinels, sentinelTimer(s)
  PROVE  Kept
<1>1. PICK S \in Monitored(s) : sentinelFailoverStateMachine(s, S)
  BY DEF sentinelTimer
<1>2. Reaches(s, S) /\ S.leader_epoch = st[s].leader_epoch
  BY MonitoredReaches
<1>3. S \in State(s) /\ role \in [Instances -> {"master", "slave"}]
  BY <1>2 DEF Reaches, SentinelInv, TypeOK
<1>a. Reaches(s, sentinelAbortFailover(S))
      /\ sentinelAbortFailover(S).leader_epoch = st[s].leader_epoch
  BY <1>2, ReachesAbort
<1>4. CASE NoFailover(s, S)
  BY Zenon, <1>2, <1>3, <1>4, EndTickKeeps DEF NoFailover, Kept
<1>5. CASE sentinelFailoverWaitStart(s, S)
  BY <1>2, <1>5, WaitStartKeeps
<1>6. CASE sentinelFailoverSelectSlave(s, S)
  <2>1. CASE EndTick(s, sentinelAbortFailover(S), FALSE)
    BY Zenon, <1>3, <1>a, <1>6, <2>1, EndTickKeeps DEF sentinelFailoverSelectSlave, Kept
  <2>2. CASE \E i \in Instances \ {S.addr} :
          EndTick(s, [S EXCEPT !.promoted = i,
                               !.failover_state = "SEND_SLAVEOF_NOONE"], FALSE)
    <3>1. PICK i \in Instances :
          EndTick(s, [S EXCEPT !.promoted = i,
                               !.failover_state = "SEND_SLAVEOF_NOONE"], FALSE)
      BY Zenon, <2>2
    <3> DEFINE W == [S EXCEPT !.promoted = i, !.failover_state = "SEND_SLAVEOF_NOONE"]
    <3>2. Reaches(s, W) /\ W.leader_epoch = st[s].leader_epoch
      BY Zenon, <1>2, <1>3, SentinelAssumption DEF Reaches, State, FailoverStates
    <3>3. EndTick(s, W, FALSE)
      BY Zenon, <3>1
    <3> HIDE DEF W
    <3> QED BY Zenon, <1>3, <1>6, <3>2, <3>3, EndTickKeeps DEF sentinelFailoverSelectSlave, Kept
  <2> QED BY Zenon, <1>6, <2>1, <2>2 DEF sentinelFailoverSelectSlave
<1>7. CASE sentinelFailoverSendSlaveOfNoOne(s, S)
  <2>1. role' \in [Instances -> {"master", "slave"}] /\ elected' = elected
    BY Zenon, <1>3, <1>7 DEF sentinelFailoverSendSlaveOfNoOne
  <2> DEFINE W == [S EXCEPT !.failover_state = "WAIT_PROMOTION"]
  <2>2. Reaches(s, W) /\ W.leader_epoch = st[s].leader_epoch
    BY <1>2, <1>3, <1>7 DEF Reaches, State, FailoverStates, sentinelFailoverSendSlaveOfNoOne
  <2>3. \/ EndTick(s, W, FALSE) \/ EndTick(s, S, FALSE)
        \/ EndTick(s, sentinelAbortFailover(S), FALSE)
    BY Zenon, <1>7 DEF sentinelFailoverSendSlaveOfNoOne
  <2> HIDE DEF W
  <2> QED BY Zenon, <1>2, <1>a, <2>1, <2>2, <2>3, EndTickKeeps DEF Kept
<1>8. CASE sentinelFailoverWaitPromotion(s, S)
  BY Zenon, <1>2, <1>3, <1>a, <1>8, EndTickKeeps DEF sentinelFailoverWaitPromotion, Kept
<1>9. CASE sentinelFailoverReconfNextSlave(s, S)
  <2>1. S.promoted \in Instances
    BY <1>2, <1>3, <1>9 DEF Reaches, State, sentinelFailoverReconfNextSlave
  <2>2. /\ Reaches(s, sentinelResetMasterAndChangeAddress(S, S.promoted))
    BY <1>2, <2>1, ReachesReset
  <2> QED BY Zenon, <1>2, <1>3, <1>9, <2>2, EndTickKeeps DEF sentinelFailoverReconfNextSlave, Kept
<1> QED BY <1>1, <1>4, <1>5, <1>6, <1>7, <1>8, <1>9 DEF sentinelFailoverStateMachine

\* A step that casts no vote, whatever it saves besides the epoch of the last.
LEMMA QuietKeeps ==
  ASSUME SentinelInv, NEW s \in Sentinels, NEW S, Reaches(s, S),
         S.leader_epoch = st[s].leader_epoch,
         st' = [st EXCEPT ![s] = S], votes' = votes,
         disk' \in [Sentinels -> Saved],
         \A t \in Sentinels : disk'[t].leader_epoch = disk[t].leader_epoch
  PROVE  VoteInv'
<1>1. /\ st' = [t \in Sentinels |-> st'[t]]
      /\ st'[s] = S /\ \A t \in Sentinels : t # s => st'[t] = st[t]
  BY DEF SentinelInv, TypeOK
<1>2. VotesUnique'
  BY DEF SentinelInv, VotesUnique
<1>3. votes \subseteq [voter : Sentinels, epoch : Epochs, leader : Sentinels]
  BY DEF SentinelInv, TypeOK
<1>4. VotesDurable'
  BY <1>1, <1>3 DEF SentinelInv, VotesDurable, Reaches
<1>5. \A t \in Sentinels :
        /\ st'[t] \in State(t)
        /\ st'[t].promoted = None <=>
             st'[t].failover_state \in {"NONE", "WAIT_START", "SELECT_SLAVE"}
  BY <1>1 DEF SentinelInv, TypeOK, Reaches
<1> QED BY <1>1, <1>2, <1>3, <1>4, <1>5 DEF VoteInv

\* The commands, replies, messages and restarts keep the invariant.
LEMMA OthersKeep ==
  ASSUME SentinelInv, NEW s \in Sentinels,
         \/ IsMasterDownByAddr(s) \/ sentinelReceiveIsMasterDownReply(s)
         \/ sentinelProcessHelloMessage(s)
         \/ \E i \in Instances : sentinelRefreshInstanceInfo(s, i)
         \/ sentinelFailoverCommand(s) \/ OtherMasterFailover(s) \/ Restart(s)
  PROVE  Kept
<1>1. Reaches(s, st[s]) /\ st[s] \in State(s)
  BY ReachesRefl DEF Reaches
<1>2. RestInv /\ votes \subseteq [voter : Sentinels, epoch : Epochs, leader : Sentinels]
  BY DEF SentinelInv, TypeOK, RestInv
<1>3. CASE IsMasterDownByAddr(s)
  <2>1. PICK m \in asks :
          /\ Becomes(s, sentinelVoteLeader(st[s], m.epoch, m.runid), VoteSaves(st[s], m.epoch))
          /\ UNCHANGED <<asks, hellos, role, elected>>
    BY <1>3 DEF IsMasterDownByAddr
  <2>2. m.epoch \in Epochs /\ m.runid \in Sentinels
    BY <1>2 DEF RestInv
  <2>3. VoteSaves(st[s], m.epoch) \in BOOLEAN
    BY DEF VoteSaves
  <2>4. VoteInv' /\ votes \subseteq votes'
    BY <1>1, <2>1, <2>2, <2>3, ReachesVote, BecomesKeeps
  <2> QED BY <1>2, <2>1, <2>4 DEF Kept, RestInv
<1>4. CASE sentinelReceiveIsMasterDownReply(s)
  <2>1. PICK v \in votes :
          /\ v.voter # s /\ v.epoch = st[s].current_epoch
          /\ Becomes(s, [st[s] EXCEPT !.peer[v.voter] = v.leader], FALSE)
          /\ UNCHANGED <<asks, hellos, role, elected>>
    BY Zenon, <1>4 DEF sentinelReceiveIsMasterDownReply
  <2> DEFINE S == [st[s] EXCEPT !.peer[v.voter] = v.leader]
  <2>2. /\ v.voter \in Peers(s) /\ v.leader \in Sentinels
        /\ v = [voter |-> v.voter, epoch |-> st[s].current_epoch, leader |-> v.leader]
    BY <1>2, <2>1 DEF Peers
  <2>3. /\ S \in State(s) /\ S.peer = [st[s].peer EXCEPT ![v.voter] = v.leader]
        /\ S.leader = st[s].leader /\ S.leader_epoch = st[s].leader_epoch
        /\ S.promoted = st[s].promoted /\ S.failover_state = st[s].failover_state
        /\ S.current_epoch = st[s].current_epoch
    BY <1>1, <2>2 DEF State
  <2>4. Becomes(s, S, FALSE)
    BY Zenon, <2>1
  <2> HIDE DEF S
  <2>5. \A p \in Peers(s) : S.peer[p] # None =>
          [voter |-> p, epoch |-> S.current_epoch, leader |-> S.peer[p]] \in votes
    BY <1>1, <2>2, <2>3 DEF Reaches, State
  <2>6. Reaches(s, S)
    BY <1>1, <2>3, <2>5 DEF Reaches
  <2>7. VoteInv' /\ votes \subseteq votes'
    BY Zenon, <2>3, <2>4, <2>6, BecomesKeeps
  <2> QED BY <1>2, <2>1, <2>7 DEF Kept, RestInv
<1>5. CASE sentinelFailoverCommand(s)
  <2> DEFINE W == sentinelStartFailover(st[s])
             S == [W EXCEPT !.force = TRUE]
  <2>1. Reaches(s, W) /\ W.leader_epoch = st[s].leader_epoch
    BY <1>1, <1>5, ReachesStart DEF sentinelFailoverCommand
  <2>2. Becomes(s, S, FALSE)
    BY Zenon, <1>5 DEF sentinelFailoverCommand
  <2> HIDE DEF W
  <2>3. Reaches(s, S) /\ S.leader_epoch = st[s].leader_epoch
    BY Zenon, <2>1 DEF Reaches, State
  <2> HIDE DEF S
  <2>4. VoteInv' /\ votes \subseteq votes'
    BY Zenon, <2>2, <2>3, BecomesKeeps
  <2> QED BY <1>2, <1>5, <2>4 DEF Kept, RestInv, sentinelFailoverCommand
<1>6. CASE OtherMasterFailover(s)
  <2>1. st[s].current_epoch + 1 \in Epochs
    BY <1>1, <1>6, SentinelAssumption DEF OtherMasterFailover, State, Epochs
  <2> DEFINE S == Advance(st[s], st[s].current_epoch + 1)
  <2>2. Reaches(s, S) /\ S.leader_epoch = st[s].leader_epoch
    BY Zenon, <1>1, <2>1, ReachesAdvance DEF Advance, State
  <2>3. st' = [st EXCEPT ![s] = S] /\ UNCHANGED <<disk, asks, hellos, role, votes, elected>>
    BY <1>6 DEF OtherMasterFailover, SentinelInv, TypeOK
  <2> HIDE DEF S
  <2>4. VoteInv'
    BY <2>2, <2>3, QuietKeeps DEF SentinelInv, TypeOK
  <2> QED BY <1>2, <2>3, <2>4 DEF Kept, RestInv
<1>7. CASE Restart(s)
  <2>1. disk[s] \in Saved /\ disk[s].leader_epoch = st[s].leader_epoch
    BY DEF SentinelInv, TypeOK, VotesDurable
  <2> DEFINE e == IF disk[s].config_epoch > disk[s].current_epoch
                  THEN disk[s].config_epoch ELSE disk[s].current_epoch
             S == FreshMaster(s, disk[s].addr, e, disk[s].config_epoch, disk[s].leader_epoch)
  <2>2. e \in Epochs /\ 0 \in Epochs
    BY <2>1, SentinelAssumption DEF Saved, Epochs
  <2>3. st' = [st EXCEPT ![s] = S] /\ UNCHANGED <<disk, asks, hellos, role, votes, elected>>
    BY <1>7 DEF Restart
  <2> HIDE DEF e
  <2>4. S \in State(s) /\ S.leader_epoch = st[s].leader_epoch /\ S.leader = None
        /\ S.peer = NoVotes(s) /\ S.promoted = None /\ S.failover_state = "NONE"
    BY <2>1, <2>2 DEF FreshMaster, State, Saved, NoVotes, FailoverStates
  <2>5. Reaches(s, S)
    <3>1. st[s].leader_epoch \in Nat
      BY <1>1, SentinelAssumption DEF State, Epochs
    <3> HIDE DEF S
    <3> QED BY <2>4, <3>1 DEF Reaches, NoVotes
  <2> HIDE DEF S
  <2>6. VoteInv'
    BY <2>3, <2>4, <2>5, QuietKeeps DEF SentinelInv, TypeOK
  <2> QED BY <1>2, <2>3, <2>6 DEF Kept, RestInv
<1>8. ASSUME NEW i \in Instances, sentinelRefreshInstanceInfo(s, i)
      PROVE  Kept
  <2>1. CASE UNCHANGED <<st, disk, votes, asks, hellos, elected>>
             /\ role' = [role EXCEPT ![i] = "slave"]
    <3>1. VoteInv
      BY DEF SentinelInv, TypeOK, VoteInv
    <3>2. VoteInv'
      BY <2>1, <3>1 DEF VoteInv, VotesUnique, VotesDurable
    <3> QED BY <1>2, <2>1, <3>2 DEF Kept, RestInv
  <2>2. CASE /\ st[s].failover_state = "WAIT_PROMOTION"
             /\ Becomes(s, [st[s] EXCEPT !.config_epoch = st[s].failover_epoch,
                                    !.failover_state = "RECONF_SLAVES"], TRUE)
             /\ UNCHANGED <<role, asks, hellos, elected>>
    <3> DEFINE S == [st[s] EXCEPT !.config_epoch = st[s].failover_epoch,
                                  !.failover_state = "RECONF_SLAVES"]
    <3>1. Reaches(s, S) /\ Becomes(s, S, TRUE)
      BY Zenon, <1>1, <2>2 DEF Reaches, State, FailoverStates
    <3> HIDE DEF S
    <3>2. VoteInv' /\ votes \subseteq votes'
      BY Zenon, <3>1, BecomesKeeps
    <3> QED BY <1>2, <2>2, <3>2 DEF Kept, RestInv
  <2> QED BY Zenon, <1>8, <2>1, <2>2 DEF sentinelRefreshInstanceInfo
<1>9. CASE sentinelProcessHelloMessage(s)
  <2>1. PICK h \in hellos :
       /\ LET newer == h.current_epoch > st[s].current_epoch
              E == IF newer THEN Advance(st[s], h.current_epoch) ELSE st[s]
              updates == st[s].config_epoch < h.config_epoch
              C == IF updates THEN [E EXCEPT !.config_epoch = h.config_epoch] ELSE E
              switches == updates /\ h.addr # st[s].addr
              S == IF switches THEN sentinelResetMasterAndChangeAddress(C, h.addr) ELSE C
          IN /\ st' = [st EXCEPT ![s] = S]
             /\ disk' = [disk EXCEPT ![s] = IF switches THEN Flushed(S)
                                            ELSE IF newer THEN Flushed(E) ELSE @]
       /\ UNCHANGED <<asks, hellos, role, votes, elected>>
    BY Zenon, <1>9 DEF sentinelProcessHelloMessage
  <2> DEFINE newer == h.current_epoch > st[s].current_epoch
             E == IF newer THEN Advance(st[s], h.current_epoch) ELSE st[s]
             updates == st[s].config_epoch < h.config_epoch
             C == IF updates THEN [E EXCEPT !.config_epoch = h.config_epoch] ELSE E
             switches == updates /\ h.addr # st[s].addr
             S == IF switches THEN sentinelResetMasterAndChangeAddress(C, h.addr) ELSE C
  <2>2. h.current_epoch \in Epochs /\ h.config_epoch \in Epochs /\ h.addr \in Instances
    BY <1>2 DEF RestInv
  <2>3. /\ st' = [st EXCEPT ![s] = S]
        /\ disk' = [disk EXCEPT ![s] = IF switches THEN Flushed(S)
                                            ELSE IF newer THEN Flushed(E) ELSE disk[s]]
    BY <2>1 DEF SentinelInv, TypeOK
  <2>4. Reaches(s, E) /\ E.leader_epoch = st[s].leader_epoch
    BY Zenon, <1>1, <2>2, ReachesAdvance DEF Advance, State
  <2> HIDE DEF E
  <2>5. Reaches(s, C) /\ C.leader_epoch = st[s].leader_epoch
    BY <2>2, <2>4 DEF Reaches, State
  <2> HIDE DEF C
  <2>6. Reaches(s, S) /\ S.leader_epoch = st[s].leader_epoch
    BY <2>2, <2>5, ReachesReset
  <2> HIDE DEF S, newer, switches
  <2>7. /\ disk' \in [Sentinels -> Saved]
        /\ \A t \in Sentinels : disk'[t].leader_epoch = disk[t].leader_epoch
    BY <2>3, <2>4, <2>6, FlushedType DEF SentinelInv, TypeOK, VotesDurable
  <2>8. VoteInv'
    BY Zenon, <2>1, <2>3, <2>6, <2>7, QuietKeeps
  <2> QED BY <1>2, <2>1, <2>8 DEF Kept, RestInv
<1> QED BY <1>3, <1>4, <1>5, <1>6, <1>7, <1>8, <1>9

\* Kept is all a step has to show.
LEMMA KeptInv ==
  ASSUME SentinelInv, Kept
  PROVE  SentinelInv'
<1>1. VoteInv' /\ votes \subseteq votes' /\ RestInv'
  BY DEF Kept
<1>2. \A x \in elected : Backed(x.epoch, x.leader) => Backed(x.epoch, x.leader)'
  <2> SUFFICES ASSUME NEW e, NEW c, Backed(e, c) PROVE Backed(e, c)'
    OBVIOUS
  <2>1. Voters(e, c) \subseteq Voters(e, c)'
    BY <1>1 DEF Voters
  <2>2. Voters(e, c)' \subseteq Sentinels
    BY <1>1 DEF VoteInv, Voters
  <2>3. IsFiniteSet(Voters(e, c)')
    BY <2>2, FS_Subset, SentinelAssumption
  <2>4. /\ Cardinality(Voters(e, c)) <= Cardinality(Voters(e, c)')
        /\ Cardinality(Voters(e, c)) \in Nat /\ Cardinality(Voters(e, c)') \in Nat
        /\ Cardinality(Sentinels) \in Nat
    BY <2>1, <2>3, FS_Subset, FS_CardinalityType, SentinelAssumption
  <2> QED BY <2>4 DEF Backed
<1>3. /\ elected' \subseteq [leader : Sentinels, epoch : Epochs, forced : BOOLEAN,
                          inEpoch : BOOLEAN]
      /\ \A x \in elected' : ~x.forced /\ x.inEpoch => Backed(x.epoch, x.leader)'
  <2>1. \A x \in elected : ~x.forced /\ x.inEpoch => Backed(x.epoch, x.leader)'
    BY <1>2 DEF SentinelInv, ElectedByMajority, Backed
  <2>2. elected \subseteq [leader : Sentinels, epoch : Epochs, forced : BOOLEAN,
                          inEpoch : BOOLEAN]
    BY DEF SentinelInv, TypeOK
  <2> QED BY <2>1, <2>2 DEF Kept
<1>4. ElectedByMajority'
  BY <1>3 DEF ElectedByMajority, Backed
<1>5. TypeOK'
  BY <1>1, <1>3 DEF TypeOK, VoteInv, RestInv
<1> QED BY <1>1, <1>4, <1>5 DEF SentinelInv, VoteInv

\* The inductive invariant: true at the start ...
LEMMA SentinelInit ==
  Init => SentinelInv
<1> SUFFICES ASSUME Init PROVE SentinelInv
  OBVIOUS
<1>1. 0 \in Epochs
  BY SentinelAssumption DEF Epochs
<1>2. \A s \in Sentinels :
        /\ st[s] = FreshMaster(s, Master0, 0, 0, 0) /\ st[s] \in State(s)
        /\ st[s].promoted = None /\ st[s].failover_state = "NONE"
        /\ st[s].leader = None /\ st[s].leader_epoch = 0 /\ st[s].peer = NoVotes(s)
  BY <1>1, SentinelAssumption DEF Init, FreshMaster, State, NoVotes, FailoverStates
<1>3. TypeOK
  <2>1. disk \in [Sentinels -> Saved] /\ role \in [Instances -> {"master", "slave"}]
    BY <1>1, SentinelAssumption DEF Init, Saved
  <2>2. st = [s \in Sentinels |-> st[s]]
    BY DEF Init
  <2> QED BY <1>2, <2>1, <2>2 DEF TypeOK, Init
<1>4. VotesDurable
  BY Zenon, <1>2 DEF VotesDurable, Init, NoVotes
<1> QED BY <1>3, <1>4 DEF SentinelInv, VotesUnique, ElectedByMajority, Init

\* ... and kept by every step, each of which is Kept.
LEMMA NextKeeps ==
  ASSUME SentinelInv, NEW s \in Sentinels, Step(s) \/ Event(s)
  PROVE  Kept
<1>1. CASE sentinelTimer(s)
  BY <1>1, TimerKeeps
<1>2. CASE ~sentinelTimer(s)
  BY <1>2, OthersKeep DEF Step, Event
<1> QED BY <1>1, <1>2

\* A step that changes nothing keeps everything.
LEMMA StutterKeeps ==
  ASSUME SentinelInv, UNCHANGED vars
  PROVE  SentinelInv'
BY DEF SentinelInv, TypeOK, VotesDurable, VotesUnique, ElectedByMajority, Voters, vars

\* Every reachable state of every configuration satisfies the invariant.
THEOREM SentinelInvariant == Spec => []SentinelInv
<1>1. SentinelInv /\ [Next]_vars => SentinelInv'
  BY NextKeeps, KeptInv, StutterKeeps DEF Next
<1> QED BY <1>1, SentinelInit, PTL DEF Spec

\* Every handler leaves a sentinel with a state of its type, the promoted
\* replica chosen exactly from the state that needs one on
\* (sentinelFailoverStateMachine), for every number of sentinels.
THEOREM TypeCorrect == Spec => []TypeOK
<1> QED BY SentinelInvariant, PTL DEF SentinelInv

\* A Sentinel never votes for two candidates in one epoch, across restarts.
THEOREM VotesAreUnique == Spec => []VotesUnique
BY SentinelInvariant, PTL DEF SentinelInv

\* Votes are saved before they can be counted.
THEOREM VotesAreDurable == Spec => []VotesDurable
BY SentinelInvariant, PTL DEF SentinelInv

\* An unforced election counted in its epoch has a majority of cast votes.
THEOREM ElectionsHaveMajorities == Spec => []ElectedByMajority
BY SentinelInvariant, PTL DEF SentinelInv

-----------------------------------------------------------------------------
(* The refinement                                                          *)

\* Two elections of one epoch with majorities have a voter in common, who
\* voted once: they have the same leader.
LEMMA OneWinner ==
  ASSUME VoteInv', NEW e, NEW c, NEW d, Backed(e, c)', Backed(e, d)'
  PROVE  c = d
<1> DEFINE A == {v.voter : v \in {w \in votes' : w.epoch = e /\ w.leader = c}}
           B == {v.voter : v \in {w \in votes' : w.epoch = e /\ w.leader = d}}
<1>1. A \subseteq Sentinels /\ B \subseteq Sentinels /\ IsFiniteSet(Sentinels)
  BY SentinelAssumption DEF VoteInv
<1>2. /\ Cardinality(A) \in Nat /\ Cardinality(B) \in Nat /\ Cardinality(Sentinels) \in Nat
  BY <1>1, FS_Subset, FS_CardinalityType
<1>3. 2 * Cardinality(A) > Cardinality(Sentinels) /\ 2 * Cardinality(B) > Cardinality(Sentinels)
  BY DEF Backed, Voters
<1>4. A \cap B # {}
  <2> HIDE DEF A, B
  <2>1. Cardinality(A) + Cardinality(B) > Cardinality(Sentinels)
    BY <1>2, <1>3
  <2> QED BY <1>1, <2>1, FS_MajoritiesIntersect
<1>5. PICK v \in votes', w \in votes' :
        /\ v.epoch = e /\ v.leader = c /\ w.epoch = e /\ w.leader = d
        /\ v.voter = w.voter
  BY <1>4
<1>6. v = w
  BY <1>5 DEF VoteInv, VotesUnique
<1> QED BY <1>5, <1>6

\* The elections sentinel.c decides inside their epoch implement EpochLeader:
\* an epoch is won at most once and its winner stays.
THEOREM SentinelImplementsEpochLeader == Spec => ImplementsEpochLeader
<1> DEFINE Clean(E) == {[epoch |-> x.epoch, leader |-> x.leader] :
                          x \in {y \in E : ~y.forced /\ y.inEpoch}}
<1>1. Init => Election!Init
  BY DEF Init, Election!Init
<1>2. SentinelInv /\ [Next]_vars => [Election!Next]_(Clean(elected))
  <2> SUFFICES ASSUME SentinelInv, [Next]_vars, Clean(elected') # Clean(elected)
               PROVE  Election!Next
    BY DEF Clean
  <2>1. elected' # elected
    OBVIOUS
  <2>2. Kept
    BY <2>1, NextKeeps DEF Next, vars
  <2>3. PICK x \in [leader : Sentinels, epoch : Epochs, forced : BOOLEAN, inEpoch : BOOLEAN] :
          /\ elected' = elected \cup {x}
          /\ ~x.forced /\ x.inEpoch => Backed(x.epoch, x.leader)'
    BY <2>1, <2>2 DEF Kept
  <2>4. ~x.forced /\ x.inEpoch
    BY <2>3
  <2>5. Clean(elected') = Clean(elected) \cup {[epoch |-> x.epoch, leader |-> x.leader]}
    BY <2>3, <2>4
  <2>6. SentinelInv' /\ VoteInv'
    BY <2>2, KeptInv DEF Kept
  <2>7. \A w \in Clean(elected) : w.epoch # x.epoch
    <3> SUFFICES ASSUME NEW y \in elected, ~y.forced, y.inEpoch, y.epoch = x.epoch
                 PROVE  FALSE
      OBVIOUS
    <3>1. Backed(y.epoch, y.leader)'
      BY <2>3, <2>6 DEF SentinelInv, ElectedByMajority, Backed
    <3>2. Backed(x.epoch, x.leader)'
      BY <2>3, <2>4
    <3>3. x.leader = y.leader
      BY <2>6, <3>1, <3>2, OneWinner
    <3>4. [epoch |-> x.epoch, leader |-> x.leader] \in Clean(elected)
      BY <3>3
    <3> QED BY Zenon, <2>5, <3>4
  <2>8. Election!Win(x.epoch, x.leader)
    BY <2>5, <2>7 DEF Election!Win
  <2> QED BY <2>3, <2>8 DEF Election!Next
<1> QED BY <1>1, <1>2, SentinelInvariant, PTL DEF Spec, ImplementsEpochLeader, Election!Spec
=============================================================================
