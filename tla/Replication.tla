---------------------------- MODULE Replication ----------------------------
(***************************************************************************)
(* Redis replication (src/redis-stable/src/replication.c, with the parts   *)
(* of networking.c, rdb.c and server.c it relies on): the replication ids, *)
(* the backlog, PSYNC with its partial and full resynchronizations, chains *)
(* of replicas, REPLICAOF, the coordinated FAILOVER, acknowledgements and  *)
(* WAIT, and a restart from the RDB file.                                  *)
(*                                                                         *)
(* A server is a record holding the fields of `server' that the code reads *)
(* and writes; a C function is an operator from the state Z = [srv, wire]  *)
(* to the state it leaves; an action is one handler of the event loop.     *)
(*   - The unit of the replication stream is a command, so an offset       *)
(*     counts commands: SELECT, PING, or the write number n.               *)
(*   - Clients write to database 1 only.  0 is the database a connection   *)
(*     starts in, so a write applied without its SELECT lands in 0.        *)
(*   - wire[r] holds the bytes on their way to r on its connection to      *)
(*     srv[r].conn.  What a master wrote before it closed may still arrive.*)
(*   - A replication id is a number; 0 is the empty id and a random id is  *)
(*     the least number found nowhere in the state.                        *)
(***************************************************************************)
EXTENDS Integers, Sequences, FiniteSets, SequencesExt, FiniteSetsExt

CONSTANTS
  Servers,
  None,
  ConfiguredMaster,  \* the replicaof directive of every server's configuration
  DisklessSync,      \* the servers configured with repl-diskless-sync
  BacklogSize,       \* repl-backlog-size, in commands
  Faults,            \* the faults that may happen
  MaxWrites, MaxOffset, MaxCommands, MaxFaults, MaxRestarts

VARIABLES
  srv,   \* srv[s]: the state of server s
  wire,  \* wire[r]: the messages from r's master that r has not read yet
  used   \* how much of every bound is used up

vars == <<srv, wire, used>>

-----------------------------------------------------------------------------
(* Messages, units of the stream, and the records a server is made of.     *)

SELECT == <<"SELECT", 1>>
PING == <<"PING", 0>>
EOF == [type |-> "EOF"]
UnitMsg(u) == [type |-> "UNIT", unit |-> u]
NoFailover == [state |-> "NO_FAILOVER", target |-> None, force |-> FALSE]

(* A server as main() leaves it before it loads a dataset.                 *)
Started(host, id) ==
  [data |-> <<>>, masterhost |-> host,
   repl_state |-> IF host = None THEN "NONE" ELSE "CONNECT",
   replid |-> id, replid2 |-> 0, second_replid_offset |-> -1,
   master_repl_offset |-> 0, repl_backlog |-> None, slaveseldb |-> -1,
   master |-> None, cached_master |-> None, conn |-> None,
   master_replid |-> 0, master_initial_offset |-> -1,
   slaves |-> [r \in Servers |-> None], child |-> None, rdb |-> None,
   failover |-> NoFailover, woff |-> 0, wrote |-> 0]

(* The client a master creates for the connection of a replica, with the   *)
(* PSYNC request it is about to read.                                      *)
createClient(request) ==
  [replstate |-> "NONE", request |-> request, psync_initial_offset |-> 0,
   buf |-> <<>>, file |-> None, repl_ack_off |-> 0, on_ack |-> FALSE,
   open |-> TRUE]

IsSlave(c) == c # None /\ c.replstate # "NONE"
SlavesOf(S) == {r \in Servers : IsSlave(S.slaves[r])}
State == [srv |-> srv, wire |-> wire]

(* Every replication id found anywhere: a random id is none of them.       *)
IdsOf(Z) ==
  UNION {LET S == Z.srv[s] IN
           {S.replid, S.replid2, S.master_replid}
           \cup {c.replid : c \in {S.master, S.cached_master} \ {None}}
           \cup {c.request.id : c \in {d \in Range(S.slaves) : d # None /\ d.request # None}}
           \cup {f.info.id : f \in {g \in {S.rdb} \cup {c.file : c \in Range(S.slaves) \ {None}}
                                          \cup (IF S.child = None THEN {} ELSE {S.child.rdb}) :
                                      g # None /\ g.info # None}}
           \cup {m.id : m \in {k \in Range(Z.wire[s]) : k.type \in {"FULLRESYNC", "CONTINUE"}}}
           \cup {m.rdb.info.id : m \in {k \in Range(Z.wire[s]) : k.type = "RDB" /\ k.rdb.info # None}}
         : s \in Servers}

RandomId(Z) == Min((1 .. 10 * Cardinality(Servers)) \ IdsOf(Z))

-----------------------------------------------------------------------------
(* The master's side: the backlog and the stream.                          *)

createReplicationBacklog(S) ==
  [S EXCEPT !.repl_backlog = [offset |-> S.master_repl_offset + 1, buf |-> <<>>]]

histlen(S) == Len(S.repl_backlog.buf)

(* Drops the oldest commands beyond the configured size, except those some *)
(* replica has still to be sent.                                           *)
incrementalTrimReplicationBacklog(S) ==
  LET referenced == {Len(S.slaves[r].buf) : r \in SlavesOf(S)}
      kept == Min({histlen(S), Max({BacklogSize} \cup referenced)})
  IN  IF S.repl_backlog = None THEN S
      ELSE [S EXCEPT !.repl_backlog =
              [offset |-> S.master_repl_offset - kept + 1,
               buf |-> SubSeq(@.buf, histlen(S) - kept + 1, histlen(S))]]

(* Mutant: a replica accumulates before the snapshot it waits for.         *)
FeedsWaitingReplica(c) == IsSlave(c)

canFeedReplicaReplBuffer(c) == IsSlave(c) /\ c.replstate # "WAIT_BGSAVE_START"

(* The write handler of a replica is installed once it has its RDB.        *)
Accumulates(c) == c.replstate # "ONLINE" \/ c.on_ack

feedReplicationBuffer(Z, s, u) ==
  LET S == Z.srv[s]
      Fed(r) == canFeedReplicaReplBuffer(S.slaves[r])
      T == [S EXCEPT
              !.master_repl_offset = @ + 1,
              !.repl_backlog = [@ EXCEPT !.buf = Append(@, u)],
              !.slaves = [r \in Servers |->
                 IF Fed(r) /\ Accumulates(S.slaves[r])
                 THEN [S.slaves[r] EXCEPT !.buf = Append(@, u)] ELSE S.slaves[r]]]
  IN  IF S.repl_backlog = None THEN Z
      ELSE [srv |-> [Z.srv EXCEPT ![s] = incrementalTrimReplicationBacklog(T)],
            wire |-> [r \in Servers |->
               IF Fed(r) /\ S.slaves[r].open /\ ~Accumulates(S.slaves[r])
               THEN Append(Z.wire[r], UnitMsg(u)) ELSE Z.wire[r]]]

(* Only a top level master originates the stream; without a backlog the    *)
(* command is not propagated and no offset moves.                          *)
replicationFeedSlaves(Z, s, u) ==
  LET S == Z.srv[s]
      Selected == IF u = PING \/ S.slaveseldb = 1 THEN Z
                  ELSE LET Y == feedReplicationBuffer(Z, s, SELECT)
                       IN  [Y EXCEPT !.srv[s].slaveseldb = 1]
  IN  IF S.masterhost # None \/ S.repl_backlog = None THEN Z
      ELSE feedReplicationBuffer(Selected, s, u)

-----------------------------------------------------------------------------
(* Connections.                                                            *)

(* freeClient() of the replicas R of m: what was not sent is lost, and the *)
(* peer reads an end of file after what was.                               *)
freeClients(Z, m, R) ==
  LET S == Z.srv[m]
      Freed(r) == r \in R /\ S.slaves[r] # None
  IN  [srv |-> [Z.srv EXCEPT ![m] = incrementalTrimReplicationBacklog(
                  [S EXCEPT !.slaves = [r \in Servers |->
                     IF Freed(r) THEN None ELSE S.slaves[r]]])],
       wire |-> [r \in Servers |->
          IF Freed(r) /\ S.slaves[r].open THEN Append(Z.wire[r], EOF) ELSE Z.wire[r]]]

disconnectSlaves(Z, m) == freeClients(Z, m, SlavesOf(Z.srv[m]))

(* A replica closes its connection: its master finds out later.            *)
connClose(Z, r) ==
  LET m == Z.srv[r].conn
      Y == [Z EXCEPT !.srv[r].conn = None, !.wire[r] = <<>>]
  IN  IF m = None THEN Z
      ELSE IF Z.srv[m].slaves[r] = None THEN Y
      ELSE [Y EXCEPT !.srv[m].slaves[r].open = FALSE]

(* freeClient() of the master client of r: its state is cached.            *)
replicationCacheMaster(Z, r) ==
  IF Z.srv[r].master = None THEN Z
  ELSE LET Y == connClose(Z, r)
       IN  [Y EXCEPT !.srv[r].cached_master = Y.srv[r].master,
                     !.srv[r].master = None,
                     !.srv[r].repl_state = "CONNECT"]

cancelReplicationHandshake(Z, r) ==
  IF Z.srv[r].repl_state \notin {"RECEIVE_PSYNC_REPLY", "TRANSFER"} THEN Z
  ELSE [connClose(Z, r) EXCEPT !.srv[r].repl_state = "CONNECT"]

-----------------------------------------------------------------------------
(* Replication ids and the role of a server.                               *)

changeReplicationId(Z, s) == [Z EXCEPT !.srv[s].replid = RandomId(Z)]

clearReplicationId2(S) == [S EXCEPT !.replid2 = 0, !.second_replid_offset = -1]

(* Mutant: the promoted server keeps the id of its old master.             *)
shiftReplicationIdKept(Z, s) ==
  LET S == Z.srv[s] IN
  [Z EXCEPT !.srv[s].replid2 = S.replid,
            !.srv[s].second_replid_offset = S.master_repl_offset + 1]

shiftReplicationId(Z, s) ==
  LET S == Z.srv[s] IN
  changeReplicationId([Z EXCEPT !.srv[s].replid2 = S.replid,
                                !.srv[s].second_replid_offset = S.master_repl_offset + 1], s)

(* A master turned replica presents its own id and offset to its master.   *)
replicationCacheMasterUsingMyself(S) ==
  [S EXCEPT !.master_initial_offset = S.master_repl_offset,
            !.cached_master = [replid |-> S.replid, reploff |-> S.master_repl_offset, db |-> 0]]

(* The write remembered for WAIT is forgotten with the role it was made in.*)
replicationSetMaster(Z, s, m) ==
  LET was_master == Z.srv[s].masterhost = None
      Y == cancelReplicationHandshake(replicationCacheMaster(Z, s), s)
      S == [Y.srv[s] EXCEPT !.masterhost = m, !.repl_state = "CONNECT", !.wrote = 0]
  IN  [Y EXCEPT !.srv[s] = IF was_master THEN replicationCacheMasterUsingMyself(S) ELSE S]

replicationUnsetMaster(Z, s) ==
  LET Y == cancelReplicationHandshake(replicationCacheMaster(Z, s), s)
      X == disconnectSlaves(shiftReplicationId(Y, s), s)
  IN  IF Z.srv[s].masterhost = None THEN Z
      ELSE [X EXCEPT !.srv[s].masterhost = None, !.srv[s].cached_master = None,
                     !.srv[s].repl_state = "NONE", !.srv[s].slaveseldb = -1]

(* An aborted failover takes the role of master back.                      *)
abortFailover(Z, s) ==
  LET Y == IF Z.srv[s].failover.state = "IN_PROGRESS" THEN replicationUnsetMaster(Z, s) ELSE Z
  IN  [Y EXCEPT !.srv[s].failover = NoFailover]

-----------------------------------------------------------------------------
(* Full and partial resynchronization, on the master.                      *)

(* What an RDB file records besides the data: the replication id, the      *)
(* offset and the database selected in the stream, when they are known.    *)
rdbPopulateSaveInfo(S) ==
  LET Info(db) == [id |-> S.replid, offset |-> S.master_repl_offset, db |-> db]
  IN  IF S.masterhost = None /\ S.repl_backlog # None
      THEN Info(IF S.slaveseldb = -1 THEN 0 ELSE S.slaveseldb)
      ELSE IF S.master # None THEN Info(S.master.db)
      ELSE IF S.cached_master # None THEN Info(S.cached_master.db)
      ELSE None

Snapshot(S) == [data |-> S.data, info |-> rdbPopulateSaveInfo(S)]

(* Writes to the socket of a replica; to a closed one it writes nothing.   *)
connWrite(Z, m, r, msgs) ==
  IF Z.srv[m].slaves[r].open THEN [Z EXCEPT !.wire[r] = @ \o msgs] ELSE Z

(* Announces the offset the RDB stands for and starts to accumulate.       *)
replicationSetupSlaveForFullResync(Z, m, r, offset) ==
  LET Y == [Z EXCEPT !.srv[m].slaves[r].psync_initial_offset = offset,
                     !.srv[m].slaves[r].replstate = "WAIT_BGSAVE_END",
                     !.srv[m].slaveseldb = -1]
  IN  connWrite(Y, m, r, <<[type |-> "FULLRESYNC", id |-> Z.srv[m].replid, offset |-> offset]>>)

(* Forks.  The child of a diskless synchronization streams to the replicas *)
(* by itself; the other one writes the RDB file.                           *)
startBgsaveForReplication(Z, m) ==
  LET S == Z.srv[m]
      waiting == {r \in SlavesOf(S) : S.slaves[r].replstate = "WAIT_BGSAVE_START"}
      Setup(r, Y) == replicationSetupSlaveForFullResync(Y, m, r, S.master_repl_offset)
      Stream(r, Y) == connWrite(Y, m, r, <<[type |-> "RDB", rdb |-> Snapshot(S)]>>)
      X == FoldSet(Setup, Z, waiting)
      target == IF m \in DisklessSync THEN "socket" ELSE "disk"
  IN  [(IF target = "socket" THEN FoldSet(Stream, X, waiting) ELSE X)
         EXCEPT !.srv[m].child = [target |-> target, rdb |-> Snapshot(S)]]

createReplicationBacklogIfNeeded(Z, m) ==
  LET Y == changeReplicationId(Z, m)
  IN  IF Z.srv[m].repl_backlog # None \/ Cardinality(SlavesOf(Z.srv[m])) # 1 THEN Z
      ELSE [Y EXCEPT !.srv[m] = createReplicationBacklog(clearReplicationId2(Y.srv[m]))]

(* May the stream go on from where the replica stopped?                    *)
CanContinue(S, q) ==
  /\ \/ q.id = S.replid
     \/ q.id = S.replid2 /\ q.offset <= S.second_replid_offset
  /\ S.repl_backlog # None
  /\ q.offset >= S.repl_backlog.offset
  /\ q.offset <= S.repl_backlog.offset + histlen(S)

(* +CONTINUE and the backlog from the requested offset to its end.         *)
masterTryPartialResynchronization(Z, m, r, q) ==
  LET S == Z.srv[m]
      skip == q.offset - S.repl_backlog.offset
      units == SubSeq(S.repl_backlog.buf, skip + 1, histlen(S))
  IN  connWrite([Z EXCEPT !.srv[m].slaves[r].replstate = "ONLINE"], m, r,
                <<[type |-> "CONTINUE", id |-> S.replid]>>
                \o [i \in DOMAIN units |-> UnitMsg(units[i])])

(* A replica that cannot continue waits for a child to start, joins the    *)
(* one that is saving to disk for another replica, or starts one.          *)
FullResynchronization(Z, m, r) ==
  LET Y == createReplicationBacklogIfNeeded(
             [Z EXCEPT !.srv[m].slaves[r].replstate = "WAIT_BGSAVE_START"], m)
      S == Y.srv[m]
      peers == {p \in SlavesOf(S) : S.slaves[p].replstate = "WAIT_BGSAVE_END"}
      peer == S.slaves[CHOOSE p \in peers : TRUE]
  IN  IF S.child = None
      THEN IF m \in DisklessSync THEN Y ELSE startBgsaveForReplication(Y, m)
      ELSE IF S.child.target = "disk" /\ peers # {}
      THEN replicationSetupSlaveForFullResync(
             [Y EXCEPT !.srv[m].slaves[r].buf = peer.buf], m, r, peer.psync_initial_offset)
      ELSE Y

(* PSYNC.  With FAILOVER the receiver first takes over as the master.      *)
syncCommand(Z, m, r) ==
  LET q == Z.srv[m].slaves[r].request
      Y == [Z EXCEPT !.srv[m].slaves[r].request = None]
      refused == q.failover /\ (Z.srv[m].masterhost = None \/ q.id # Z.srv[m].replid)
      X == IF q.failover THEN replicationUnsetMaster(Y, m) ELSE Y
      S == X.srv[m]
  IN  IF refused THEN connWrite(Y, m, r, <<[type |-> "ERR"]>>)
      ELSE IF \/ S.failover.state # "NO_FAILOVER"
              \/ S.masterhost # None /\ S.repl_state # "CONNECTED"
      THEN connWrite(X, m, r, <<[type |-> "NOMASTERLINK"]>>)
      ELSE IF CanContinue(S, q) THEN masterTryPartialResynchronization(X, m, r, q)
      ELSE FullResynchronization(X, m, r)

(* The child is done: replicas wait for the transfer of the file, or for   *)
(* nothing but their own acknowledgement when the child streamed to them.  *)
updateSlavesWaitingBgsave(Z, m, ok) ==
  LET S == Z.srv[m]
      waiting == {r \in SlavesOf(S) : S.slaves[r].replstate = "WAIT_BGSAVE_END"}
      Served(c) == IF S.child.target = "socket"
                   THEN [c EXCEPT !.replstate = "ONLINE", !.on_ack = TRUE]
                   ELSE [c EXCEPT !.replstate = "SEND_BULK", !.file = S.child.rdb]
      T == [S EXCEPT
              !.child = None,
              !.rdb = IF ok /\ S.child.target = "disk" THEN S.child.rdb ELSE @,
              !.slaves = [r \in Servers |-> IF ok /\ r \in waiting THEN Served(S.slaves[r])
                                            ELSE S.slaves[r]]]
      Y == [Z EXCEPT !.srv[m] = T]
  IN  IF ok THEN Y ELSE freeClients(Y, m, waiting)

(* The whole file is sent: the accumulated stream follows it.              *)
replicaStartCommandStream(Z, m, r) ==
  LET c == Z.srv[m].slaves[r]
      Y == connWrite(Z, m, r, [i \in DOMAIN c.buf |-> UnitMsg(c.buf[i])])
  IN  [Y EXCEPT !.srv[m].slaves[r].replstate = "ONLINE", !.srv[m].slaves[r].on_ack = FALSE,
                !.srv[m].slaves[r].buf = <<>>, !.srv[m].slaves[r].file = None]

sendBulkToSlave(Z, m, r) ==
  replicaStartCommandStream(
    connWrite(Z, m, r, <<[type |-> "RDB", rdb |-> Z.srv[m].slaves[r].file]>>), m, r)

-----------------------------------------------------------------------------
(* The replica's side.                                                     *)

slaveTryPartialResynchronization(S) ==
  IF S.cached_master = None THEN [id |-> -1, offset |-> -1, failover |-> S.failover.state = "IN_PROGRESS"]
  ELSE [id |-> S.cached_master.replid, offset |-> S.cached_master.reploff + 1,
        failover |-> S.failover.state = "IN_PROGRESS"]

(* +CONTINUE: the master may have changed its id since we last saw it.     *)
ReceiveContinue(Z, r, id) ==
  LET S == Z.srv[r]
      Renamed == [S EXCEPT !.replid2 = S.cached_master.replid,
                           !.second_replid_offset = S.master_repl_offset + 1,
                           !.replid = id, !.cached_master.replid = id]
      Y == IF id = S.cached_master.replid THEN Z
           ELSE disconnectSlaves([Z EXCEPT !.srv[r] = Renamed], r)
      T == [Y.srv[r] EXCEPT !.master = Y.srv[r].cached_master, !.cached_master = None,
                            !.repl_state = "CONNECTED"]
  IN  [Y EXCEPT !.srv[r] = IF T.repl_backlog = None THEN createReplicationBacklog(T) ELSE T]

(* Mutant: the replica gives up instead of connecting again.               *)
TryLaterNever(Z, r) ==
  IF Z.srv[r].failover.state = "IN_PROGRESS" THEN abortFailover(Z, r)
  ELSE connClose(Z, r)

(* The reply to PSYNC that cannot be used for now, or no reply at all.     *)
TryLater(Z, r) ==
  IF Z.srv[r].failover.state = "IN_PROGRESS" THEN abortFailover(Z, r)
  ELSE cancelReplicationHandshake(Z, r)

syncWithMaster(Z, r, msg) ==
  LET Y == [Z EXCEPT !.wire[r] = Tail(@)]
      Accepted == [Y EXCEPT !.srv[r].failover =
                     IF @.state = "IN_PROGRESS" THEN NoFailover ELSE @]
  IN  CASE msg.type = "FULLRESYNC" ->
             [Accepted EXCEPT !.srv[r].master_replid = msg.id,
                              !.srv[r].master_initial_offset = msg.offset,
                              !.srv[r].repl_state = "TRANSFER"]
        [] msg.type = "CONTINUE" -> ReceiveContinue(Accepted, r, msg.id)
        [] OTHER -> TryLater(Y, r)

(* Mutant: the sub-replicas stay attached to the replaced dataset.         *)
AttachKeepingSlaves(Z, r) ==
  [Z EXCEPT !.srv[r].cached_master = None, !.srv[r].repl_backlog = None]

(* The replica gives its dataset up for another one: neither it nor its    *)
(* own replicas can go on from where they were.                            *)
replicationAttachToNewMaster(Z, r) ==
  LET Y == disconnectSlaves(Z, r)
  IN  [Y EXCEPT !.srv[r].cached_master = None, !.srv[r].repl_backlog = None]

(* The RDB is on the replica's disk, and a child that saves the old data   *)
(* is killed.  `fsync' or rename fails before anything is touched, the     *)
(* `dirfsync' after the file is replaced, `load' after the old dataset is  *)
(* gone and the file replaced by one that does not load.                   *)
readSyncBulkPayload(Z, r, rdb, outcome) ==
  LET Y == replicationAttachToNewMaster([Z EXCEPT !.wire[r] = Tail(@), !.srv[r].child = None], r)
      S == Y.srv[r]
      T == [S EXCEPT
              !.data = rdb.data, !.rdb = rdb,
              !.master = [replid |-> S.master_replid, reploff |-> S.master_initial_offset,
                          db |-> IF rdb.info = None THEN 0 ELSE rdb.info.db],
              !.repl_state = "CONNECTED",
              !.replid = S.master_replid, !.master_repl_offset = S.master_initial_offset]
  IN  CASE outcome = "ok" ->
             [Y EXCEPT !.srv[r] = createReplicationBacklog(clearReplicationId2(T))]
        [] outcome = "fsync" -> cancelReplicationHandshake(Y, r)
        [] outcome = "dirfsync" -> cancelReplicationHandshake([Y EXCEPT !.srv[r].rdb = rdb], r)
        [] outcome = "load" ->
             cancelReplicationHandshake(
               [Y EXCEPT !.srv[r].data = <<>>, !.srv[r].rdb = [data |-> None, info |-> None]], r)

(* A command of the master, applied and proxied to the sub-replicas.       *)
commandProcessed(Z, r, u) ==
  LET Y == [Z EXCEPT !.wire[r] = Tail(@),
                     !.srv[r].master.db = IF u = SELECT THEN 1 ELSE @,
                     !.srv[r].data = IF u[1] = "SET" THEN Append(@, <<u[2], Z.srv[r].master.db>>) ELSE @,
                     !.srv[r].master.reploff = @ + 1]
  IN  feedReplicationBuffer(Y, r, u)

(* The connection to the master is gone.                                   *)
LinkLost(Z, r) ==
  CASE Z.srv[r].repl_state = "RECEIVE_PSYNC_REPLY" -> TryLater(Z, r)
    [] Z.srv[r].repl_state = "TRANSFER" -> cancelReplicationHandshake(Z, r)
    [] Z.srv[r].repl_state = "CONNECTED" -> replicationCacheMaster(Z, r)

-----------------------------------------------------------------------------
(* Restart: the process dies with its connections and loads the RDB file.  *)

loadDataFromDisk(S) ==
  LET info == S.rdb.info
      T == [S EXCEPT !.data = S.rdb.data]
  IN  IF S.rdb = None THEN S
      ELSE IF info = None THEN T
      ELSE IF S.masterhost # None
      THEN LET R == replicationCacheMasterUsingMyself(
                      [T EXCEPT !.replid = info.id, !.master_repl_offset = info.offset])
           IN  [R EXCEPT !.cached_master.db = info.db]
      ELSE createReplicationBacklog(
             [T EXCEPT !.replid2 = info.id, !.second_replid_offset = info.offset + 1,
                       !.master_repl_offset = info.offset])

Reboot(Z, s, host) ==
  LET Y == freeClients(connClose(Z, s), s, Servers)
      S == [Started(host, RandomId(Y)) EXCEPT !.rdb = Z.srv[s].rdb]
  IN  [Y EXCEPT !.srv[s] = loadDataFromDisk(S)]

-----------------------------------------------------------------------------
(* The handlers.                                                           *)

(* The servers are up and every replica has done its first full            *)
(* synchronization with its configured master, which has no data yet.      *)
Init ==
  LET rdb == [data |-> <<>>, info |-> [id |-> 1, offset |-> 0, db |-> 0]]
      Online(r, s) == ConfiguredMaster[r] = s
      Synced(s) == createReplicationBacklog(
        [Started(ConfiguredMaster[s], 1) EXCEPT
           !.slaves = [r \in Servers |-> IF Online(r, s)
                         THEN [createClient(None) EXCEPT !.replstate = "ONLINE"] ELSE None],
           !.rdb = IF s \in DisklessSync /\ ConfiguredMaster[s] = None THEN None ELSE rdb])
  IN  /\ srv = [s \in Servers |->
                  IF ConfiguredMaster[s] = None THEN Synced(s)
                  ELSE [Synced(s) EXCEPT !.repl_state = "CONNECTED", !.conn = ConfiguredMaster[s],
                          !.master = [replid |-> 1, reploff |-> 0, db |-> 0],
                          !.master_replid = 1, !.master_initial_offset = 0]]
      /\ wire = [r \in Servers |-> <<>>]
      /\ used = [writes |-> 0, commands |-> 0, faults |-> 0, restarts |-> 0]

Becomes(Z) == srv' = Z.srv /\ wire' = Z.wire
Uses(bound, max) == used[bound] < max /\ used' = [used EXCEPT ![bound] = @ + 1]
Fault(kind) == kind \in Faults /\ Uses("faults", MaxFaults)

(* A client writes to a master; writes are paused during a failover.  The  *)
(* offset remembered for WAIT is that of the last propagated command.      *)
call(s) ==
  LET S == srv[s]
      n == used.writes + 1
      Y == replicationFeedSlaves([State EXCEPT !.srv[s].data = Append(@, <<n, 1>>),
                                               !.srv[s].wrote = n], s, <<"SET", n>>)
      offset == Y.srv[s].master_repl_offset
  IN  /\ S.masterhost = None /\ S.failover.state = "NO_FAILOVER"
      /\ offset <= MaxOffset
      /\ Uses("writes", MaxWrites)
      /\ Becomes([Y EXCEPT !.srv[s].woff = IF offset # S.master_repl_offset THEN offset ELSE @])

(* The cron pings the replicas through the stream; a failover with a       *)
(* timeout is the only one that holds the pings back.                      *)
PingSlaves(s) ==
  /\ srv[s].masterhost = None /\ SlavesOf(srv[s]) # {}
  /\ srv[s].master_repl_offset < MaxOffset
  /\ Becomes(replicationFeedSlaves(State, s, PING))
  /\ Fault("ping")

(* The masters s reaches through its own.                                  *)
Upstream(s) ==
  LET Masters(R) == R \cup {srv[r].masterhost : r \in R \ {None}}
  IN  FoldFunction(LAMBDA i, R : Masters(R), {s}, [i \in 1 .. Cardinality(Servers) |-> i])

(* Nobody makes servers replicate each other in a circle.                  *)
replicaofCommand(s, m) ==
  /\ srv[s].failover.state = "NO_FAILOVER"
  /\ m # srv[s].masterhost /\ s \notin Upstream(m)
  /\ Uses("commands", MaxCommands)
  /\ Becomes(IF m = None THEN replicationUnsetMaster(State, s) ELSE replicationSetMaster(State, s, m))

failoverCommand(s, target, force) ==
  /\ srv[s].failover.state = "NO_FAILOVER" /\ srv[s].masterhost = None
  /\ SlavesOf(srv[s]) # {}
  /\ force => target # None
  /\ target # None => IsSlave(srv[s].slaves[target]) /\ srv[s].slaves[target].replstate = "ONLINE"
  /\ Uses("commands", MaxCommands)
  /\ srv' = [srv EXCEPT ![s].failover = [state |-> "WAIT_FOR_SYNC", target |-> target, force |-> force]]
  /\ UNCHANGED wire

(* FAILOVER ABORT, or the timeout of a failover that is not forced.        *)
FailoverAbort(s) ==
  /\ srv[s].failover.state # "NO_FAILOVER"
  /\ Uses("commands", MaxCommands)
  /\ Becomes(abortFailover(State, s))

(* The cron demotes the master once a replica acknowledged everything, or  *)
(* when the timeout of a forced failover expires.                          *)
CaughtUp(s, r) ==
  IsSlave(srv[s].slaves[r]) /\ srv[s].slaves[r].repl_ack_off = srv[s].master_repl_offset
FailoverTargets(s) ==
  LET f == srv[s].failover
      wanted == IF f.target = None THEN Servers ELSE {f.target}
  IN  IF f.state # "WAIT_FOR_SYNC" THEN {}
      ELSE {r \in wanted : f.force \/ CaughtUp(s, r)}
CanFailOver(s) == FailoverTargets(s) # {}
updateFailoverStatus(s) ==
  /\ \E r \in FailoverTargets(s) :
       Becomes(replicationSetMaster(
         [State EXCEPT !.srv[s].failover.state = "IN_PROGRESS", !.srv[s].failover.target = r], s, r))
  /\ UNCHANGED used

(* connectWithMaster() and the handshake up to the PSYNC it sends.  The    *)
(* master has let go of the previous connection of this replica.           *)
CanConnect(r) == srv[r].repl_state = "CONNECT" /\ srv[srv[r].masterhost].slaves[r] = None
connectWithMaster(r) ==
  LET m == srv[r].masterhost IN
  /\ CanConnect(r)
  /\ srv' = [srv EXCEPT ![r].repl_state = "RECEIVE_PSYNC_REPLY", ![r].conn = m,
                        ![r].master_initial_offset = -1,
                        ![m].slaves[r] = createClient(slaveTryPartialResynchronization(srv[r]))]
  /\ UNCHANGED <<wire, used>>

Psync(m, r) ==
  /\ srv[m].slaves[r] # None /\ srv[m].slaves[r].request # None
  /\ Becomes(syncCommand(State, m, r))
  /\ UNCHANGED used

WaitsForChild(m) ==
  /\ srv[m].child = None
  /\ \E r \in SlavesOf(srv[m]) : srv[m].slaves[r].replstate = "WAIT_BGSAVE_START"
replicationStartPendingFork(m) ==
  /\ WaitsForChild(m)
  /\ Becomes(startBgsaveForReplication(State, m))
  /\ UNCHANGED used

BgsaveDone(m) ==
  /\ srv[m].child # None
  /\ Becomes(updateSlavesWaitingBgsave(State, m, TRUE))
  /\ UNCHANGED used

BgsaveFailed(m) ==
  /\ srv[m].child # None
  /\ Becomes(updateSlavesWaitingBgsave(State, m, FALSE))
  /\ Fault("bgsave")

SendBulk(m, r) ==
  /\ IsSlave(srv[m].slaves[r]) /\ srv[m].slaves[r].replstate = "SEND_BULK"
  /\ Becomes(sendBulkToSlave(State, m, r))
  /\ UNCHANGED used

CanReadReply(r) == srv[r].repl_state = "RECEIVE_PSYNC_REPLY" /\ wire[r] # <<>>
ReadReply(r) ==
  /\ CanReadReply(r)
  /\ Becomes(syncWithMaster(State, r, Head(wire[r])))
  /\ UNCHANGED used

Receives(r, type) == wire[r] # <<>> /\ Head(wire[r]).type = type

CanLoad(r) == srv[r].repl_state = "TRANSFER" /\ Receives(r, "RDB")
LoadRdb(r) ==
  /\ CanLoad(r)
  /\ Becomes(readSyncBulkPayload(State, r, Head(wire[r]).rdb, "ok"))
  /\ UNCHANGED used

LoadRdbFails(r, outcome) ==
  /\ CanLoad(r)
  /\ Becomes(readSyncBulkPayload(State, r, Head(wire[r]).rdb, outcome))
  /\ Fault(outcome)

CanReadCommand(r) == srv[r].repl_state = "CONNECTED" /\ Receives(r, "UNIT")
ReadCommand(r) ==
  /\ CanReadCommand(r)
  /\ Becomes(commandProcessed(State, r, Head(wire[r]).unit))
  /\ UNCHANGED used

(* REPLCONF ACK.  The first one after a diskless transfer starts the       *)
(* stream.                                                                 *)
CanAck(r) ==
  /\ srv[r].repl_state = "CONNECTED"
  /\ LET c == srv[srv[r].conn].slaves[r]
     IN  c # None /\ (c.repl_ack_off < srv[r].master.reploff \/ c.on_ack)

(* Mutant: it acknowledges what it has received, applied or not.           *)
replconfAckReceived(r) ==
  LET m == srv[r].conn
      c == srv[m].slaves[r]
      received == Len(SelectSeq(wire[r], LAMBDA k : k.type = "UNIT"))
      Y == [State EXCEPT !.srv[m].slaves[r].repl_ack_off = Max({@, srv[r].master.reploff + received})]
  IN  /\ CanAck(r)
      /\ Becomes(IF c.on_ack THEN replicaStartCommandStream(Y, m, r) ELSE Y)
      /\ UNCHANGED used

replconfAck(r) ==
  LET m == srv[r].conn
      c == srv[m].slaves[r]
      Y == [State EXCEPT !.srv[m].slaves[r].repl_ack_off = Max({@, srv[r].master.reploff})]
  IN  /\ CanAck(r)
      /\ Becomes(IF c.on_ack THEN replicaStartCommandStream(Y, m, r) ELSE Y)
      /\ UNCHANGED used

(* The end of the connection, possibly before all it carried is read.      *)
MasterClosed(r) ==
  /\ EOF \in Range(wire[r])
  /\ Becomes(LinkLost(State, r))
  /\ UNCHANGED used

LinkFails(r) ==
  /\ srv[r].conn # None
  /\ Becomes(LinkLost(State, r))
  /\ Fault("link")

SlaveClosed(m, r) ==
  /\ srv[m].slaves[r] # None /\ ~srv[m].slaves[r].open
  /\ Becomes(freeClients(State, m, {r}))
  /\ UNCHANGED used

(* The master drops a replica: a timeout, or its output buffer limit.      *)
SlaveTimesOut(m, r) ==
  /\ IsSlave(srv[m].slaves[r]) /\ srv[m].slaves[r].open
  /\ Becomes(freeClients(State, m, {r}))
  /\ Fault("slave")

(* Mutant: the backlog is freed although replicas are attached.            *)
BacklogExpiresInUse(m) ==
  /\ srv[m].masterhost = None /\ srv[m].repl_backlog # None
  /\ Becomes([changeReplicationId(State, m) EXCEPT
                !.srv[m] = [clearReplicationId2(changeReplicationId(State, m).srv[m])
                              EXCEPT !.repl_backlog = None]])
  /\ Fault("backlog")

(* The backlog of a master that had no replica for a long time is freed.   *)
BacklogExpires(m) ==
  /\ srv[m].masterhost = None /\ SlavesOf(srv[m]) = {} /\ srv[m].repl_backlog # None
  /\ Becomes([changeReplicationId(State, m) EXCEPT
                !.srv[m] = [clearReplicationId2(changeReplicationId(State, m).srv[m])
                              EXCEPT !.repl_backlog = None]])
  /\ Fault("backlog")

saveCommand(s) ==
  /\ srv[s].child = None /\ srv[s].rdb # Snapshot(srv[s])
  /\ srv' = [srv EXCEPT ![s].rdb = Snapshot(srv[s])]
  /\ Fault("save")
  /\ UNCHANGED wire

(* A restart, under the role last set or under the configured one: the     *)
(* configuration file is only rewritten when someone asks for it.          *)
Restart(s) ==
  /\ srv[s].rdb # None => srv[s].rdb.data # None
  /\ \E host \in {srv[s].masterhost, ConfiguredMaster[s]} :
       s \notin Upstream(host) /\ Becomes(Reboot(State, s, host))
  /\ Uses("restarts", MaxRestarts)

Environment ==
  \E s \in Servers :
    \/ call(s) \/ PingSlaves(s) \/ saveCommand(s) \/ Restart(s)
    \/ \E m \in Servers \cup {None} : replicaofCommand(s, m)
    \/ \E t \in Servers \cup {None}, force \in BOOLEAN : failoverCommand(s, t, force)
    \/ FailoverAbort(s)
    \/ BgsaveFailed(s) \/ LinkFails(s) \/ BacklogExpires(s)
    \/ \E outcome \in {"fsync", "dirfsync", "load"} : LoadRdbFails(s, outcome)
    \/ \E r \in Servers : SlaveTimesOut(s, r)

(* The handlers a server runs for the link to its master, for its child,   *)
(* and for the connection of one replica.                                  *)
MasterLink(s) ==
  updateFailoverStatus(s) \/ connectWithMaster(s) \/ ReadReply(s) \/ LoadRdb(s)
  \/ ReadCommand(s) \/ replconfAck(s) \/ MasterClosed(s)
Child(s) == replicationStartPendingFork(s) \/ BgsaveDone(s)
SlaveLink(s, r) == Psync(s, r) \/ SendBulk(s, r) \/ SlaveClosed(s, r)

EventLoop(s) == MasterLink(s) \/ Child(s) \/ \E r \in Servers : SlaveLink(s, r)

Next == Environment \/ \E s \in Servers : EventLoop(s)

Spec == Init /\ [][Next]_vars

(* When each of the three has something to do: they are enabled then.      *)
CanMasterLink(s) ==
  \/ CanFailOver(s) \/ CanConnect(s) \/ CanReadReply(s) \/ CanLoad(s)
  \/ CanReadCommand(s) \/ CanAck(s) \/ EOF \in Range(wire[s])
CanChild(s) == srv[s].child # None \/ WaitsForChild(s)
CanSlaveLink(s, r) ==
  LET c == srv[s].slaves[r] IN
  c # None /\ (c.request # None \/ c.replstate = "SEND_BULK" \/ ~c.open)

(* Weak fairness of the three, with the guards in the place of ENABLED:    *)
(* descriptors are polled, and the cron runs every second.                 *)
Fairness ==
  \A s \in Servers :
    /\ []<>~CanMasterLink(s) \/ []<><<MasterLink(s)>>_vars
    /\ []<>~CanChild(s) \/ []<><<Child(s)>>_vars
    /\ \A r \in Servers : []<>~CanSlaveLink(s, r) \/ []<><<SlaveLink(s, r)>>_vars

FairSpec == Spec /\ Fairness

-----------------------------------------------------------------------------
(* Properties.                                                             *)

Units == {SELECT, PING} \cup ({"SET"} \X (1 .. MaxWrites))
Datasets == Seq((1 .. MaxWrites) \X {0, 1})
MasterClients == [replid : Nat, reploff : Nat, db : {0, 1}]
Infos == [id : Nat, offset : Nat, db : {0, 1}]
RdbFiles == [data : Datasets, info : Infos \cup {None}]

(* The fields of every server have their types: offsets are natural        *)
(* numbers, the backlog, the master and the cached master are there or     *)
(* not, and a server has at most one of master and cached master.          *)
TypeOK ==
  \A s \in Servers :
    LET S == srv[s] IN
    /\ S.data \in Datasets
    /\ S.masterhost \in (Servers \cup {None}) \ {s}
    /\ S.repl_state \in {"NONE", "CONNECT", "RECEIVE_PSYNC_REPLY", "TRANSFER", "CONNECTED"}
    /\ (S.repl_state = "NONE") = (S.masterhost = None)
    /\ (S.repl_state = "CONNECTED") = (S.master # None)
    /\ S.master \in MasterClients \cup {None} /\ S.cached_master \in MasterClients \cup {None}
    /\ S.master = None \/ S.cached_master = None
    /\ S.master_repl_offset \in 0 .. MaxOffset
    /\ S.repl_backlog # None =>
         /\ S.repl_backlog.buf \in Seq(Units)
         /\ S.repl_backlog.offset + histlen(S) = S.master_repl_offset + 1
    /\ SlavesOf(S) # {} => S.repl_backlog # None
    /\ \A r \in SlavesOf(S) : S.slaves[r].buf \in Seq(Units) /\ S.slaves[r].repl_ack_off \in 0 .. MaxOffset
    /\ S.rdb # None => S.rdb.data = None \/ S.rdb \in RdbFiles

(* What is still on its way from m to its replica r.                       *)
Pending(m, r) ==
  LET msgs == SelectSeq(wire[r], LAMBDA k : k.type = "UNIT")
  IN  [i \in DOMAIN msgs |-> msgs[i].unit] \o srv[m].slaves[r].buf

(* A dataset after the commands of a stream are applied to it.             *)
Replay(data, db, units) ==
  FoldLeft(LAMBDA d, u : IF u = SELECT THEN [d EXCEPT !.db = 1]
                         ELSE IF u = PING THEN d
                         ELSE [d EXCEPT !.data = Append(@, <<u[2], d.db>>)],
           [data |-> data, db |-> db], units).data

Linked(r) == srv[r].repl_state = "CONNECTED" /\ EOF \notin Range(wire[r])

(* What PSYNC, the backlog and the accumulated output buffers are for: as  *)
(* long as a replica reads from its master, its dataset and what is still  *)
(* on the way to it make the dataset of its master, every write in the     *)
(* database it was made in, and its offset counts the same commands.       *)
ReplicaMatchesMaster ==
  \A r \in Servers :
    LET m == srv[r].conn IN
    Linked(r) =>
      /\ Replay(srv[r].data, srv[r].master.db, Pending(m, r)) = srv[m].data
      /\ srv[r].master.reploff + Len(Pending(m, r)) = srv[m].master_repl_offset
      /\ srv[r].master.reploff = srv[r].master_repl_offset

(* What partial resynchronization relies on: two servers that show the     *)
(* same replication id and the same offset hold the same dataset.  It is   *)
(* why shiftReplicationId() and the backlog's expiry change the id.        *)
SameIdSameHistory ==
  \A a, b \in Servers :
    /\ srv[a].replid = srv[b].replid
    /\ srv[a].repl_backlog # None /\ srv[b].repl_backlog # None
    /\ srv[a].master_repl_offset = srv[b].master_repl_offset
    => srv[a].data = srv[b].data

(* The replicas replicationCountAcksByOffset() counts for a WAIT.          *)
Counted(m) ==
  {r \in SlavesOf(srv[m]) : /\ srv[m].slaves[r].replstate = "ONLINE"
                            /\ srv[m].slaves[r].repl_ack_off >= srv[m].woff}

Holds(r, n) == \E i \in DOMAIN srv[r].data : srv[r].data[i][1] = n

(* WAIT may be believed: a replica it counts holds the last write the      *)
(* master made in its current term, whatever was resynchronized, restarted *)
(* or accumulated in between.  Two kinds of entries it counts are left     *)
(* out: a replica that never acknowledged, which is counted for the offset *)
(* 0; and one that has closed its end of the connection, which stays in    *)
(* server.slaves with its last offset until the master notices, while the  *)
(* replica may already have loaded another dataset.                        *)
AckedIsHeld ==
  \A m \in Servers : srv[m].masterhost = None /\ srv[m].wrote # 0 =>
    \A r \in Counted(m) :
      srv[m].slaves[r].open /\ srv[m].slaves[r].repl_ack_off > 0 => Holds(r, srv[m].wrote)

(* Whatever happened to the links, the children, the RDB files and the     *)
(* roles, a replica of a top level master ends up linked to it, with its   *)
(* dataset, for good.                                                      *)
Synchronized(r) ==
  LET m == srv[r].masterhost IN
  m # None /\ srv[m].masterhost = None /\ srv[m].failover.state = "NO_FAILOVER" =>
    Linked(r) /\ srv[r].data = srv[m].data

EventuallySynchronized == \A r \in Servers : <>[]Synchronized(r)

=============================================================================
