# A verification project for SexySelfies and the Redis sources beside it

TLA+ models of the parts of this repository whose correctness depends on the order in which things
happen, the TLC runs that check them on small instances, and TLAPS proofs of what matters most.

## The system

The repository holds two programs.

* **The application** (`src/backend`, `src/frontend`): an Express server over MongoDB (Mongoose 8) with a
  Socket.io layer and a React frontend. Members swipe on creators, creators accept or decline, both exchange
  messages, members spend credits, creators ask for payouts which administrators approve and mark as processed.
* **Redis 8.2.1** (`src/redis-stable`): the sources of the database server, of Sentinel and of Redis Cluster. The
  application does not build or call them; they are modelled as a program of their own, and are most of the
  repository's code.

Facts that shape the application's models:

* *Interleaving.* Node runs one handler at a time and switches at every `await`. A handler is a sequence of
  actions, one per database call, and other requests run between them. No handler uses a transaction.
* *Mongoose documents.* A handler loads a document, edits the copy and calls `save()`, which validates the copy and
  writes (`$set`) only the paths that differ from what was loaded, without looking at the stored document again.
* *Two kinds of id.* `req.user` and `socket.user` are `User` documents, while most relations name the `Member` or
  `Creator` profile. Some fields receive one kind and are queried by the other.

Facts that shape the Redis models:

* *One thread runs commands.* A command, a timer tick or a socket event runs to its end before the next one, so
  it is one action, however many functions it calls. What interleaves are events of different clients and
  servers, the background I/O thread, and forked children.
* *Functions on records.* The state a component touches is one record per server. A C function that changes it is
  an operator from record to record with the function's name, and a command is the composition of its calls.

## Modules

Each component has a module (state, actions, specification, properties), a module `MC...` that gives the
constants their values for TLC, and where theorems are proved a module `...Proofs`. Definitions whose comment starts
with "Mutant:" are deliberate faults: each stands for a plausible slip in the code, replaces the definition it
precedes and must break the property it is paired with in `PROJECT.json`. Nothing else uses them.

| Module | Part | State |
|---|---|---|
| `Connections` | swipes, likes, accept, decline, block, unmatch | CreatorConnection documents, Member.likes, creator statistics |
| `Payouts` | payout requests and their settlement | PayoutRequest documents, Transaction.payoutProcessed |
| `Messaging` | conversations and socket rooms | Conversation and Message documents, rooms, what sockets received |
| `Sentinel`, `EpochLeader` | leader election and failover of Redis Sentinel; what an election promises | per Sentinel: epochs, votes, failover state, configuration file; requests, replies and hellos |
| `Keyspace` | blocking list commands and transactions | database, blocked clients and ready keys, watched keys, queued commands |
| `Aof` | append-only file and its background I/O thread | files and their synced part, manifest, buffer, jobs, rewrite child |
| `Replication` | PSYNC replication between servers | per server: ids, offsets, backlog, replicas, link to the master, RDB file |
| `Cluster` | slot ownership, epochs and replica elections of Redis Cluster | per node: its view of roles, configuration epochs and slots, its `nodes.conf`; packets on the bus |

### The application

`Requests` is a set of slots, each holding what one running handler has in memory (`Idle` when free); `At(r, step)`
says where it is. `...Find`, `...Load` and `...Check` are the part of a handler up to its first await with an effect,
`...Save` and the like what follows. `Restart` is a restart of the Node process: handlers are gone, the database stays.

*Connections.* A request in flight holds `old` (as loaded) and `new` (as edited); `SaveDelta` is Mongoose's `$set` of
the differing paths and `SaveSucceeds` validation and the unique index on (creator, member). `Block` and `Unmatch` are
single writes. `keyedBy` records which kind of id the creator path holds: `findOrCreateConnection` writes the
caller's User id, all others the Creator id.

*Payouts.* `completed` and `processed` are the transactions with status completed and with payoutProcessed set; the
payment processor's webhook completes them (`handleNewSale`) and takes them back (`handleRefund`) at any time.
`CreateCheck`, `CreateSum`, `CreateSave` and `CreateNotify` are the four database calls of `createPayoutRequest`. The
four decisions load and check a status and save afterwards; since only edited paths are written, a request in
flight needs to remember only the id. `ProcessMark` and `ProcessSave` are the two writes of `markProcessed`. The batch
endpoint is `BatchFind` and `BatchSave`; the transaction it saves first misses required paths (`BatchValid`).

*Messaging.* `rooms` and `currentChat` belong to the sockets, `viewing` is the chat a user's page shows. `received`
collects the `new_message` events that reached a socket, and `origin`, a history variable, remembers where each message
was created even after `clearConversation`. The two ways to send share their actions; only the socket's handler emits.
A conversation names its opener by User id and its target by profile id, so only the opener passes the participant
checks, exactly as in the code.

### Redis

*Sentinel.* One monitored master. `sentinelTimer` is one tick of one Sentinel: it looks at the master (whether it seems
down is a free choice), asks its peers for votes and takes a step of the failover state machine. Requests
(`asks`) and hellos are sets of what was ever sent, and a reply is any vote ever cast, so messages are lost, delayed,
repeated and reordered. `disk` is what `sentinelFlushConfig` has written, and `Restart` starts from it.
`OtherMasterFailover` is the same Sentinel failing over another master it monitors: `current_epoch` is shared between
masters, which is the point of `sentinel_leader`. `EpochLeader` is the promise: an epoch is won at most once.

*Keyspace.* A value is a string, or a list of some length, with no TTL, a running one or one that has passed.
`Command` is `processCommand` outside a transaction, `execCommand` runs the queued ones; when they end,
`handleClientsBlockedOnKeys` takes over and `handleClientsBlockedOnKey` serves the waiters of one key, each a step so that
"serving ends" can be said. Other clients do not run in between (`Idle`), but time passes: whether the key still holds a
list is asked of the clock as last read (`ServeReceiver`), the client's command is executed by a clock read anew
(`Elapsed` in `unblockClientOnKey`), and a client that finds its key expired blocks again at the tail. `watching`, `changed`
and `earlier` are history.

*Aof.* A file is its bytes and how many of them are on disk; a command is two bytes, enough to be cut in the
middle. `loadAppendOnlyFiles` replays the files a manifest names, so the invariants compare what a start would load
with the dataset. `IO` draws the results of a handler's system calls from the fault kinds the instance allows, at most
`MaxFaults` failing; being killed before the manifest is replaced, before the history files are deleted or before the
manifest is written without them are among these results, so that the end of a rewrite is interrupted between its steps.
The bio thread processes its queue at any moment. `Crash` keeps the page cache, `PowerLoss` only what was synced.
`spoilt`, `missed` and `lost` are history fields that mark the exceptions described under "Observations".

*Replication.* `srv[s]` is the state of a server, with its client for every connected replica in `slaves`; `wire[r]`
is what r's master has sent and r has not read, and it survives the master closing the connection. A write is tagged with
the database it is made in, so that a stream continued without its SELECT shows. A dataset is the sequence of writes that
made it, so two servers are compared by history. A random replication id is one found nowhere in the state.

*Cluster.* `st[n]` is what node n believes of all nodes, `conf[n]` its `nodes.conf`. `Become` is `clusterBeforeSleep`: it
writes the file when something to be saved has changed, before a packet leaves. `Heartbeat` delivers a PING or PONG at
once; `SendPing` puts one on the bus, where it is overtaken, lost or read much later, as are UPDATEs and the requests
and answers of an election. `GrantVote` and `DenyVote` are the two ends of `clusterSendFailoverAuthIfNeeded`: the conditions
on failure detection are a choice. `ScheduleElection`, `RequestVotes` and `WinElection` are the stages of
`clusterHandleSlaveFailover`. `votes`, `won` and `late` are history.

## Runs

| Run | Instance | Shows |
|---|---|---|
| `connections_safety` | 1 member, 1 creator, 2 requests, 4 ids | `UniquePair`, `MutualConsent` |
| `connections_like_recorded` | the same, 3 ids, fair | `LikeRecorded`: a first right swipe leads to a liked document even when its own insert loses the race |
| `payouts_safety` | 2 creators with a transaction each, 3 payouts, 2 requests | `PaidOnlyIfApproved`, `ProcessedIsSettled`, and `PendingWithinOverlap`: a creator has at most as many pending requests as were being served at once |
| `messaging_safety` | a member and a creator, 1 conversation, 2 messages, 2 handlers | `RoomIsolation`, `CountersBounded`, and `OpenedIsJoined`: while its connection lasts a user whose page shows a chat stays in the chat's room |
| `sentinel` | 3 Sentinels, a master and a replica, 1 epoch, 2 restarts or commands | `VotesUnique`, `VotesDurable`, `ElectedByMajority`, and that the elections implement `EpochLeader` |
| `keyspace` | 3 clients, 2 keys, 2 elements, fair | `BlockingTables`, `NoLostWakeup`, `FirstBlockedFirstServed`, `WatchedChangeAborts`, `ServingEnds` |
| `aof` | 2 commands, 1 failing or interrupted call of 7 kinds, 1 crash, fair | `ManifestFilesExist`, `FilesAndBufferAreDataset`, `AckedSurvivePowerLoss`, `FsyncedIsDurable`, `EventuallyFsynced` |
| `replication` | 2 servers, 2 writes, 1 role change, 1 fault of 9 kinds, 1 restart, fair | `ReplicaMatchesMaster`, `SameIdSameHistory`, `AckedIsHeld`, `EventuallySynchronized` |
| `replication_chain` | 3 servers, 2 writes, 2 role changes | `ReplicaMatchesMaster` when replicas have replicas |
| `cluster` | 2 masters and a replica, 2 slots, 2 elections, commands or restarts, 1 packet under way, fair | `CurrentEpochIsMax`, `VotesUnique`, `ReplicaServesNothing`, `WonByVotes`, `EventuallyAgree` |

Two runs show the code doing other than what the repository says (quotes in `PROJECT.json`):

| Run | What happens |
|---|---|
| `payouts_overpay` | one creator, one request at a time: a second payout over the same transactions is created while the first is approved, both are processed, and together they exceed everything the creator's transactions earn |
| `sentinel_leader` | when `current_epoch` moves on during an election, votes of two epochs are added and two Sentinels lead a failover of the same epoch |

**Bounds.** In the application two requests are what the hazards need: one that holds a stale copy and one that changes
the document meanwhile; a third actor is always available through the single-write actions and the restart. Connections
with four ids let the pair's document be deleted and created again while two inserts are under way. `RoomForCreate`,
`RoomForConversation` and `RoomForMessage` are the only bounds in the guards there: a create starts only while every create
under way finds an unused id, so that running out of ids never blocks a handler half-way. With two messages a conversation
has a stale and a fresh counter. With three payout ids a creator can have a decided request and two pending ones;
transactions of two creators keep their requests apart.

*Sentinel*: three voters are the fewest with a majority that is not everyone. One epoch with two restarts or operator
failovers is where the votes collide; later epochs add late messages of earlier ones, which the proof covers for any
number. *Keyspace*: two waiters make an order, two keys let a served BLMOVE refill the key another one waits for, two
elements are one more than a waiter takes. *Aof*: two commands, so that one can be in the snapshot and one behind it;
three INCR files, so that a rewrite can be retried. *Replication*: two writes and a backlog of one or two commands, so
that PSYNC is both accepted and refused; two servers can trade roles, three can form a chain. *Cluster*: a master whose
replica wants its slot and a master that votes; two events, so that an election meets a takeover, another election or a
restart of the voter; `MaxWins` stands for `auth_timeout`, which keeps a candidate from winning its election again and
again with the same votes. One packet under way can be overtaken by any number of heartbeats.

Symmetry is used only where no liveness is checked (`connections_safety`, `payouts_safety`,
`messaging_safety`, `sentinel`, `sentinel_leader`, `replication_chain`).

**Deadlock** is not checked where the system may stop: in Payouts, once all requests are decided and all ids used; in Aof,
where a server whose files cannot be loaded stays down; in Replication, once the bounds are used up and everything is
synchronized.

**Fairness.** In the application weak fairness of `Continue(r)` only: once a handler is running, the driver answers its
database calls and the event loop resumes it. Nothing is assumed about users or administrators. Connections' fair
specification leaves out the restart, which drops requests by definition. In Keyspace the serving loop is a loop inside `processCommand`, so it goes on. In Aof the event loop
turns, time passes, the bio thread runs, and a failing call does not fail for ever. In Replication a server
polls its sockets and runs its cron: `Fairness` is weak fairness of its three groups of handlers, written with their guards
in the place of ENABLED. In Cluster `clusterCron` pings every node again and again, so a heartbeat that would change its
receiver is delivered in the end. Writes, commands of operators and faults are never assumed to happen.

## Proofs

For every value of the constants, from the named assumptions only (finite sets, natural bounds, sentinels outside the
sets they complement, profile ids distinct from each other and from user ids; TLC evaluates each of them on every run):

| Module | Theorems |
|---|---|
| `ConnectionsProofs` | `TypeCorrect`, `PairsAreUnique`, `ConsentInvariant`, `ConsentIsMutual` |
| `PayoutsProofs` | `TypeCorrect`, `SettlementInvariant`, `ApprovalBeforePayout`, `ProcessedSettled`, `PendingBounded` |
| `MessagingProofs` | `TypeCorrect`, `MessagingInvariant`, `RoomsAreIsolated`, `CountersAreBounded`, `OpenedChatsAreJoined` |
| `SentinelProofs` | `SentinelInvariant`, `TypeCorrect`, `VotesAreUnique`, `VotesAreDurable`, `ElectionsHaveMajorities`, `SentinelImplementsEpochLeader` |
| `ClusterProofs` | `ClusterInvariant`, `CurrentEpochsAreMax`, `VotesAreUnique`, `ReplicasServeNothing`, `ElectionsAreWonByVotes` |
| `KeyspaceProofs` | `KeyspaceInvariant`, `TypeCorrect`, `BlockingTablesAgree`, `WakeupsAreNotLost`, `WatchedChangesAbort`, `ServedInTurn`; what one command does is in `KeyspaceTableProofs` |

*Uniqueness* is inductive with the types: an insert passes the index, an update keeps its pair.

*Mutual consent* is not inductive. A save may come from a copy of any age, so `ConsentInv` says of every save still to
come that it keeps consent: its edits only add to the creator's agreement (`EditConsented`), the copy is never ahead of
the collection (`CopyNotAhead`), and an id drawn for an insert is held by nobody else (`InsertIsFresh`). That decline
never takes effect is part of why this holds: a decline that was saved could be followed by a stale accept.

*Payouts.* `SettlementInv` adds that the transactions of a request belong to its creator, that an approved request
carries the approval's mark, and that a handler about to mark or save a request as processed has an approved one in its
hands. The mark survives every later save because no other handler edits that path. `PendingBounded` needs an argument
about counts: `PendingWithinOverlap` bounds the pending requests together with the calls that have passed the check. A call
passes it only when nothing is pending, an insert turns one of these calls into a request, and no save makes a decided
request pending again (`DecidedOverlap`, `CheckOverlap`, `InsertOverlap`).

*Messaging.* `MessagingInv` adds what handlers hold: a send that has not created its message has loaded a total no larger
than the messages created, one that has created it a strictly smaller total; loaded unread counts never exceed loaded
totals; a join under way is a participant's. `CountersBounded` needs the unread count of the opener's role to be zero:
otherwise a stale save that lowers the total could break it. `OpenedChatsAreJoined` is about steps: only a reconnect or
a restart takes a user who is in the chat's room, or whose join is under way, out of it while the page shows the chat.

*Sentinel.* `SentinelInv` joins the types and the three safety properties. A vote is in the voter's file before anyone
can count it, so a restarted Sentinel still knows the epoch of its last vote (`VotesDurable`) and does not vote in it
again (`VotesUnique`). What a Sentinel counts for its current epoch are votes that were cast, so an election decided in its
epoch has a majority of cast votes (`ElectedByMajority`). Two majorities share a voter, who voted once, so an epoch is won
once: the refinement of `EpochLeader`, with `won` mapped to the unforced elections whose `failover_epoch` was the
`current_epoch` when they were decided. Elections decided after `current_epoch` had moved on are outside of it:
for them the promise does not hold, which is what `sentinel_leader` shows.

*Cluster.* `ClusterInv` holds for any number of nodes and slots. Of a view it says that no epoch in it is ahead of its
`currentEpoch`, and that a node which is a replica for itself owns nothing for itself; of a file the same, and that it
knows the node's last vote; of a packet that its epochs were not ahead of its sender's. An ACK under way is a vote that was
cast, and the only ACK for it, so what a candidate has counted are different votes, cast for it in the epoch of its
request or later, none of which is still under way (`CountOK`). Each function of the chain from header to view has its
lemma, and steps that touch neither votes nor counts share one (`QuietStep`).

*Keyspace.* For any keys, clients, commands and transaction bodies. `KeyspaceInv` says of the queues that they hold
exactly the clients that wait, of a client that waits for a key with a list that the key is ready or being served with the
client still to come (`WakeOK`; `NoLostWakeup` is what is left of it when no key is ready), and of a client that is not
marked dirty that its watches are in the tables and that a change of a watched key will be found by `isWatchedKeyExpired`
(`WatchOK`). A command breaks this between two of its calls: a value is written first and its watchers are touched
later. `Pending(S, T, K)` is what holds there, with K the keys written and not yet touched. Each function of `db.c` is shown
to add to K or to take from it, and each command to end with K empty (`Runs`), which is also what lets the commands of
a transaction be run one after the other by induction on their number (`QueuedRuns`). `ServedInTurn` is about steps and
needs `OrderInv` as well: the queue of a key has its clients in the order in which they began to wait, and so has what is
left of the queue being served, as long as the key holds a list. Commands join queues at the end or leave them
(`QueueKeeps`). A client that is served leaves its queues and, when the clock has passed the TTL of its key, joins them
again at the end; what is remembered of it starts anew then (`Receivers`), so the order is that of unbroken waits.

The proofs are laid out alike: facts about shapes and types, one lemma per function or kind of step, one case per
action, and a temporal step.

**Only model-checked:** the liveness properties (fairness is outside the prover's reach); everything about Aof and
Replication, whose operators are folds over files and servers; and the two violations.

## Observations

Behaviours seen in the models, some of them with TLC, that have no run of their own. Each is a disagreement between the
code and what a comment or document nearby says, or an exception a property above has to make.

In the application:

* A swipe or accept saved after a block writes its own status over `blocked` (`connections.service.js:184`); the FAQ says
  blocks are permanent.
* Decline sets the status `rejected`, which the schema's enum lacks, so the save throws and the request stays pending
  (`connections.service.js:180`).
* An accept updates the creator's statistic before it saves the connection the statistic should count.
* An approval loaded while a request was pending is saved over a rejection or cancellation (`PayoutRequest.js:136`).
* Two concurrent payout requests of a creator both become pending. The batch payout never settles anything.
* Two concurrent sends save the same unread count (`message.controller.js:265`); two concurrent calls of
  `conversations/init` create two conversations; marking as read matches no message.
* A `leave_chat` that arrives while `join_chat` awaits the database is ignored and the socket stays in the room
  (`messaging.socket.js:121`). After a reconnect the open chat's room is not joined again (`socket.service.js:115`).

In Redis:

* *Keyspace.* Overwriting a value in place signals that the old one is gone, not that there is a new one (`db.c:495`): a
  BLPOP on a key that held a string is not woken when SORT ... STORE makes it a list. `NoLostWakeup` excepts such keys
  (`silent`). A waiter whose turn has come loses its place when its key expires between the look at the key and the
  execution of its command (`blocked.c:598`, `:686`): it blocks again behind clients that came after it, and
  `FirstBlockedFirstServed` counts its wait from then on. On a replica a watch taken on a key past its TTL is skipped when the master's PERSIST or SET brings the key
  back (`multi.c:392`), so the EXEC runs.
* *Aof, exceptions by `spoilt`.* A rewrite started although the flush failed carries the rest of the buffer to the new INCR
  file while the BASE has it too (`aof.c:2559`). CONFIG SET appendonly inside a transaction lets a rewrite that was started
  with the AOF off turn it on, with a temporary INCR file that lacks what was executed meanwhile (`aof.c:1042`).
* *Aof, exceptions of `FsyncedIsDurable` and `AckedSurvivePowerLoss`.* An idle flush right after a rewrite was started
  reports everything as synced while the job that syncs and closes the old file is still queued (`aof.c:1153`). A failed
  background fsync is not retried for the bytes it covered (`aof.c:1350`). A restart takes what it loaded from the page
  cache for synced (`aof.c:774`).
* *Aof, exceptions by `lost`.* History lines do not advance the sequence numbers when a manifest is loaded (`aof.c:358`).
  A rewrite with the AOF off leaves a manifest without INCR files; when the deletion of the history files is then
  interrupted, or its manifest fails, the next start opens an INCR file under the name of a history file and deletes it
  (`aof.c:698`), although a comment says that "the history deletion failure will not cause any problems" (`aof.c:2808`).
  When the directory's fsync fails after the manifest was renamed, the handler deletes the new files although the
  manifest on disk names them (`aof.c:2785`), and a restart before the next rewrite cannot load. `ManifestFilesExist`
  excepts exactly these files, and the properties on what is loaded the states in which the manifest needs one of them.
* *Aof.* A failed fork while turning the AOF on leaves the file open in state OFF.
* *Replication.* PSYNC FAILOVER promotes its receiver when the ids match, without looking at the offset
  (`replication.c:1041`): if the target has restarted from an older RDB, or has been resynchronized from a lagging server
  since its ACK, FAILOVER without FORCE gives up acknowledged writes. WAIT counts an online replica that has acknowledged
  nothing when the last write was made without a backlog (`replication.c:4405`), and one that has closed its connection
  until the master notices; `AckedIsHeld` excepts both.
* *Cluster.* A stale PING makes a view take a master for a replica but leaves it its slots ("Ignore stale message",
  `cluster_legacy.c:3040`); when the node has no slot to announce any more, such a slot may stay at a replica for good, which
  `EventuallyAgree` excepts. A vote of an attempt that timed out, arriving after the next one was scheduled and before it
  was sent, is counted for the next (`cluster_legacy.c:3246`), since `failover_auth_epoch` is still the old one; `WonByVotes`
  leaves such elections out (`late`). `currentEpoch` is increased without being saved when `clusterBeforeSleep` itself calls
  `clusterHandleSlaveFailover`.
* *Sentinel.* `sentinelFlushConfig` only logs a failed write, and the vote is given all the same; the model assumes
  that the write succeeds.

## What is not modelled

`PROJECT.json` lists every component with its sources and the reason, and at their lines the hazards the properties are
about; hazards that no property covers are in the observations above and in the list of unmodelled parts below. The share
of the repository's C code that is modelled is small, far below a third: the C code is the whole of Redis, 205 files, and most of it is sequential work on bytes (encodings, parsers, data types,
tools, scripting, allocation), in which nothing interleaves and TLC has nothing to explore. What is modelled is where
several clients, servers, threads or crashes meet.

* *Application, with hazards of its own:* a purchase and a top-up both read, change and save the member's credits
  (`member.controller.js:135`, `:228`), and a purchase writes four documents one after the other; a repeated confirmation
  of the payment processor adds credits again (`ccbill.payment.controller.js:796`), and its events overwrite a
  subscription's status in any order (`ccbill.webhook.controller.js:445`); a session is saved from a copy loaded before
  it was ended (`session.service.js:131`); an instant payout checks a loaded balance (`creator.earnings.controller.js:294`).
* *Application, the rest:* the chat client's optimistic list, gifts
  and offers; response bodies, logging, notifications, and failures of the database other than validation, the unique index
  and missing documents. In Messaging: typing and presence, edits, pins, archive and mute, attachments, e-mail, the order
  of delivery, `PATCH /messages/:id/read`, and the tip, paid-message and reply handlers.
* *Sentinel:* TILT, SENTINEL RESET, MONITOR, REMOVE and SET, discovery, scripts, the reconfiguration of the remaining
  replicas; subjective and objective down are a choice.
* *Keyspace:* one database of a master with strings and lists; no sorted sets, streams, modules, SWAPDB, MOVE or FLUSHALL.
* *Aof:* `no-appendfsync-on-rewrite`, SHUTDOWN, the upgrade of a single-file AOF, timestamps, SELECT and MULTI in the file,
  failing renames, children of other kinds; a replication backlog is assumed, so that `master_repl_offset` advances.
* *Replication:* the RDB channel, diskless load, SYNC, a replica with the AOF on, children of a user's BGSAVE, failing
  forks, output buffer limits, min-replicas, several written databases; save points are assumed to be configured, a server
  remembers one stale connection per replica, and REPLICAOF in a circle is left out, in which servers refuse or
  resynchronize each other without end.
* *Cluster:* the shard of a node (a master that says it is a replica now is taken for one of its new master's shard; of
  one that comes from another shard the code removes the slots, `cluster_legacy.c:3065`); `cluster-allow-replica-migration no` and the module flag that switches redirection off
  (`:2417`, `:2428`); failure detection and gossip, handshakes and FORGET, slot migration and SETSLOT, replica migration, the pause
  of a manual failover, CLUSTER REPLICATE and RESET, the redirection of clients, slot statistics.
