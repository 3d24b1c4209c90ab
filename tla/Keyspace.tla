------------------------------ MODULE Keyspace ------------------------------
(***************************************************************************)
(* Blocking list commands (blocked.c, t_list.c) and optimistic             *)
(* transactions (multi.c) over one database of a Redis server (db.c).      *)
(*                                                                         *)
(* The server runs one command at a time.  `server' holds the tables the   *)
(* commands share; every C function that changes them is an operator from  *)
(* a server record to a server record, so that a command is the            *)
(* composition of the calls it makes.  An element of a list is not         *)
(* distinguished from another: a list is its length.  The server is a      *)
(* master.                                                                 *)
(***************************************************************************)
EXTENDS Naturals, Sequences, FiniteSets, FiniteSetsExt

CONSTANTS
  Keys,         \* the keys of the database
  Clients,      \* the connections of normal clients
  Commands,     \* Commands[c]: the data commands client c may send (bound)
  Bodies,       \* Bodies[c]: the transactions client c may queue (bound)
  Watchers,     \* the clients that use transactions (bound)
  MaxElements,  \* how many list elements commands may create (bound)
  None          \* no value, no command, no key

VARIABLES
  server,    \* the tables of struct redisServer and struct redisDb
  client,    \* per client: CLIENT_MULTI, CLIENT_DIRTY_EXEC and mstate
  serving,   \* where handleClientsBlockedOnKeys is, None between commands
  watching,  \* history: the keys each client asked to watch
  changed,   \* history: clients one of whose watched keys has since changed
  earlier    \* history: the pairs of blocked clients, the first of which blocked first
             \* (a client that was executed again and blocked again, from then on)

vars == <<server, client, serving, watching, changed, earlier>>

-----------------------------------------------------------------------------
(* Values: a string, or a list of a length, with or without a TTL. *)

List(n) == [type |-> "list", len |-> n, ttl |-> "none"]
String  == [type |-> "string", len |-> 0, ttl |-> "none"]

Values == {v \in [type : {"list", "string"}, len : Nat, ttl : {"none", "live", "expired"}] :
             v.type = "list" <=> v.len > 0}

\* Commands with their arguments.
Cmds == [name : {"push", "set", "del", "expire", "expired", "persist"}, key : Keys] \cup
        [name : {"sort", "rename", "blmove"}, src : Keys, dst : Keys] \cup
        [name : {"blpop"}, keys : Seq(Keys)]

\* What a blocked client waits for, and the waiters still to be served for a key.
Waiting == [cmd : Cmds, keys : SUBSET Keys]
Serving == [key : Keys, clients : Seq(Clients)]

ASSUME KeyspaceAssumption ==
  /\ MaxElements \in Nat
  /\ Watchers \subseteq Clients
  /\ \A c \in Clients : Commands[c] \subseteq Cmds /\ Bodies[c] \subseteq Seq(Cmds)
  /\ None \notin Values \cup Waiting \cup Serving

\* keyIsExpired(): the key is still stored but its time has passed
keyIsExpired(S, k) == S.db[k] # None /\ S.db[k].ttl = "expired"

\* The clock has passed the TTLs of the keys K
Elapsed(S, K) ==
  [S EXCEPT !.db = [k \in Keys |-> IF k \in K THEN [S.db[k] EXCEPT !.ttl = "expired"] ELSE S.db[k]]]

\* The keys whose TTL the clock may pass
Mortal(S) == {k \in Keys : S.db[k] # None /\ S.db[k].ttl = "live"}

\* What a client may observe of a key: an expired key is a missing key
Logical(S, k) ==
  IF S.db[k] = None \/ keyIsExpired(S, k)
    THEN None
    ELSE [type |-> S.db[k].type, len |-> S.db[k].len]

HoldsList(S, k) == S.db[k] # None /\ ~keyIsExpired(S, k) /\ S.db[k].type = "list"

Elements(S) == SumFunction([k \in Keys |-> IF S.db[k] = None THEN 0 ELSE S.db[k].len])

-----------------------------------------------------------------------------
(* WATCH: multi.c *)

\* The list W without the entries of the clients C
Without(W, C) ==
  LET kept[i \in 0..Len(W)] ==
        IF i = 0 THEN <<>>
        ELSE IF W[i].client \in C THEN kept[i - 1] ELSE Append(kept[i - 1], W[i])
  IN  kept[Len(W)]

UnwatchClients(S, C) ==
  [S EXCEPT !.watched_keys = [k \in Keys |-> Without(@[k], C)]]

unwatchAllKeys(S, c) == UnwatchClients(S, {c})

watchForKey(S, c, k) ==
  IF \E wk \in Range(S.watched_keys[k]) : wk.client = c
    THEN S
    ELSE [S EXCEPT !.watched_keys[k] =
            Append(@, [client |-> c, expired |-> keyIsExpired(S, k)])]

\* Mutant of isWatchedKeyExpired: only commands count as changes
NeverExpired(S, c) == FALSE

isWatchedKeyExpired(S, c) ==
  \E k \in Keys : \E wk \in Range(S.watched_keys[k]) :
    wk.client = c /\ ~wk.expired /\ keyIsExpired(S, k)

\* The loop stops at the first watch taken on an expired key if the key is
\* still stored; if it is not, such watches lose their flag.
touchWatchedKey(S, k) ==
  LET W       == S.watched_keys[k]
      stops   == {i \in DOMAIN W : W[i].expired /\ S.db[k] # None}
      reached == {i \in DOMAIN W : \A j \in stops : i < j}
      hit     == {W[i].client : i \in {j \in reached : ~W[j].expired}}
      kept    == [i \in DOMAIN W |->
                   IF i \in reached THEN [W[i] EXCEPT !.expired = FALSE] ELSE W[i]]
  IN  UnwatchClients([S EXCEPT !.watched_keys[k] = kept,
                               !.dirty_cas = @ \cup hit], hit)

-----------------------------------------------------------------------------
(* The keyspace: db.c.  `silent' marks the lists that came into being       *)
(* without a signal: no function of the server reads it.                    *)

signalModifiedKey(S, k) == touchWatchedKey(S, k)

signalKeyAsReady(S, k, type) ==
  IF /\ type = "list"
     /\ S.blocking_keys[k] # <<>>
     /\ \A i \in DOMAIN S.ready_keys : S.ready_keys[i] # k
    THEN [S EXCEPT !.ready_keys = Append(@, k)]
    ELSE S

dbAdd(S, k, v) ==
  signalKeyAsReady([S EXCEPT !.db[k] = v, !.silent = @ \ {k}], k, v.type)

dbDelete(S, k) == [S EXCEPT !.db[k] = None, !.silent = @ \ {k}]

\* Overwriting a value signals that the old one is gone, not the new one.
dbSetValue(S, k, v) ==
  [S EXCEPT !.db[k] = v,
            !.silent = IF v.type = "list" /\ S.db[k].type # "list"
                         THEN @ \cup {k} ELSE @]

deleteExpiredKeyAndPropagate(S, k) == signalModifiedKey(dbDelete(S, k), k)

\* On a master; a replica would leave the deletion to its master
expireIfNeeded(S, k) ==
  IF keyIsExpired(S, k) THEN deleteExpiredKeyAndPropagate(S, k) ELSE S

lookupKeyWrite(S, k) == expireIfNeeded(S, k)

setKey(S, k, v) ==
  LET T == lookupKeyWrite(S, k)
  IN  signalModifiedKey(IF T.db[k] # None THEN dbSetValue(T, k, v)
                                          ELSE dbAdd(T, k, v), k)

-----------------------------------------------------------------------------
(* Blocking: blocked.c *)

\* Mutant of blockForKeys: a new waiter joins at the head of the queue
BlockAtHead(S, c, cmd, keys) ==
  [S EXCEPT !.blocking_keys =
              [k \in Keys |-> IF k \in Range(keys) THEN <<c>> \o @[k] ELSE @[k]],
            !.blocked[c] = [cmd |-> cmd, keys |-> Range(keys)]]

blockForKeys(S, c, cmd, keys) ==
  [S EXCEPT !.blocking_keys =
              [k \in Keys |-> IF k \in Range(keys) THEN Append(@[k], c) ELSE @[k]],
            !.blocked[c] = [cmd |-> cmd, keys |-> Range(keys)]]

\* The queue q once the node of c is unlinked
releaseBlockedEntry(q, c) ==
  LET i == Min({j \in 1..Len(q) : q[j] = c})
  IN  IF c \in Range(q) THEN SubSeq(q, 1, i - 1) \o SubSeq(q, i + 1, Len(q)) ELSE q

\* Mutant of unblockClient: the client stays in the queue of one of its keys
UnblockKeepsEntry(S, c) ==
  LET kept == CHOOSE k \in Keys : S.blocked[c] = None \/ k \in S.blocked[c].keys
  IN  [S EXCEPT !.blocking_keys =
                  [k \in Keys |-> IF k = kept THEN @[k] ELSE releaseBlockedEntry(@[k], c)],
                !.blocked[c] = None]

unblockClient(S, c) ==
  [S EXCEPT !.blocking_keys =
              [k \in Keys |-> releaseBlockedEntry(@[k], c)],
            !.blocked[c] = None]

-----------------------------------------------------------------------------
(* The commands.  `deny' is CLIENT_DENY_BLOCKING, set while EXEC runs. *)

pushGenericCommand(S, k) ==
  LET T == lookupKeyWrite(S, k)
      v == T.db[k]
  IN  CASE v = None          -> signalModifiedKey(dbAdd(T, k, List(1)), k)
        [] v # None /\ v.type = "list" ->
             signalModifiedKey([T EXCEPT !.db[k].len = @ + 1], k)
        [] OTHER             -> T

\* Mutant of PopElement: an emptied list stays in the database
PopKeepsEmptyList(S, k) == signalModifiedKey([S EXCEPT !.db[k].len = @ - 1], k)

\* listTypePop() followed by listElementsRemoved()
PopElement(S, k) ==
  signalModifiedKey(IF S.db[k].len = 1 THEN dbDelete(S, k)
                                       ELSE [S EXCEPT !.db[k].len = @ - 1], k)

lmoveHandlePush(S, dst) ==
  signalModifiedKey(IF S.db[dst] = None THEN dbAdd(S, dst, List(1))
                                        ELSE [S EXCEPT !.db[dst].len = @ + 1], dst)

lmoveGenericCommand(S, src, dst) ==
  LET T == lookupKeyWrite(S, dst)
  IN  IF T.db[dst] # None /\ T.db[dst].type # "list"
        THEN T
        ELSE PopElement(lmoveHandlePush(T, dst), src)

blmoveGenericCommand(S, c, cmd, deny) ==
  LET T == lookupKeyWrite(S, cmd.src)
      v == T.db[cmd.src]
  IN  CASE v = None /\ deny  -> T
        [] v = None /\ ~deny -> blockForKeys(T, c, cmd, <<cmd.src>>)
        [] v # None /\ v.type = "list" -> lmoveGenericCommand(T, cmd.src, cmd.dst)
        [] OTHER             -> T

\* The keys are looked up in their order; only the first one that exists is
\* considered.
blockingPopGenericCommand(S, c, cmd, deny) ==
  LET look[i \in 0..Len(cmd.keys)] ==
        IF i = 0 THEN S ELSE lookupKeyWrite(look[i - 1], cmd.keys[i])
      live == {i \in DOMAIN cmd.keys : look[i].db[cmd.keys[i]] # None}
      T    == look[IF live = {} THEN Len(cmd.keys) ELSE Min(live)]
      k    == cmd.keys[Min(live)]
  IN  CASE live # {} /\ T.db[k].type = "list" -> PopElement(T, k)
        [] live # {} /\ T.db[k].type # "list" -> T
        [] live = {} /\ deny  -> T
        [] live = {} /\ ~deny -> blockForKeys(T, c, cmd, cmd.keys)

delGenericCommand(S, k) ==
  IF keyIsExpired(S, k) THEN expireIfNeeded(S, k)
  ELSE IF S.db[k] # None THEN signalModifiedKey(dbDelete(S, k), k)
  ELSE S

\* SORT src STORE dst; lookupKeyRead also deletes an expired source
sortCommandGeneric(S, src, dst) ==
  LET T == expireIfNeeded(S, src)
  IN  CASE T.db[src] # None /\ T.db[src].type = "list" ->
             setKey(T, dst, List(T.db[src].len))
        [] T.db[src] # None /\ T.db[src].type # "list" -> T
        [] T.db[src] = None /\ T.db[dst] # None ->
             signalModifiedKey(dbDelete(T, dst), dst)
        [] OTHER -> T

renameGenericCommand(S, src, dst) ==
  LET T == lookupKeyWrite(S, src)
      U == dbDelete(dbDelete(lookupKeyWrite(T, dst), dst), src)
  IN  IF src = dst \/ T.db[src] = None
        THEN T
        ELSE signalModifiedKey(signalModifiedKey(dbAdd(U, dst, T.db[src]), src), dst)

\* EXPIRE sets the TTL of an existing key, PERSIST removes it; a time that has
\* already passed deletes the key at once
expireGenericCommand(S, k, past) ==
  LET T == lookupKeyWrite(S, k)
  IN  IF T.db[k] = None THEN T
      ELSE signalModifiedKey(IF past THEN dbDelete(T, k)
                             ELSE [T EXCEPT !.db[k].ttl = "live"], k)

persistCommand(S, k) ==
  LET T == lookupKeyWrite(S, k)
  IN  IF T.db[k] = None \/ T.db[k].ttl = "none" THEN T
      ELSE signalModifiedKey([T EXCEPT !.db[k].ttl = "none"], k)

-----------------------------------------------------------------------------
\* c->cmd->proc(c)
call(S, c, cmd, deny) ==
  CASE cmd.name = "push"    -> pushGenericCommand(S, cmd.key)
    [] cmd.name = "set"     -> setKey(S, cmd.key, String)
    [] cmd.name = "del"     -> delGenericCommand(S, cmd.key)
    [] cmd.name = "sort"    -> sortCommandGeneric(S, cmd.src, cmd.dst)
    [] cmd.name = "rename"  -> renameGenericCommand(S, cmd.src, cmd.dst)
    [] cmd.name = "expire"  -> expireGenericCommand(S, cmd.key, FALSE)
    [] cmd.name = "expired" -> expireGenericCommand(S, cmd.key, TRUE)
    [] cmd.name = "persist" -> persistCommand(S, cmd.key)
    [] cmd.name = "blpop"   -> blockingPopGenericCommand(S, c, cmd, deny)
    [] cmd.name = "blmove"  -> blmoveGenericCommand(S, c, cmd, deny)

NoTransaction == [multi |-> FALSE, dirty_exec |-> FALSE, mstate |-> <<>>]

Init ==
  /\ server = [db            |-> [k \in Keys |-> None],
               watched_keys  |-> [k \in Keys |-> <<>>],
               blocking_keys |-> [k \in Keys |-> <<>>],
               ready_keys    |-> <<>>,
               blocked       |-> [c \in Clients |-> None],
               dirty_cas     |-> {},
               silent        |-> {}]
  /\ client = [c \in Clients |-> NoTransaction]
  /\ serving = None
  /\ watching = [c \in Clients |-> {}]
  /\ changed = {}
  /\ earlier = {}

\* No command is running and no ready key is left to handle
Idle == serving = None /\ server.ready_keys = <<>>

\* A command of c is read: the query buffer of a blocked client is not processed
MayCommand(c) == Idle /\ server.blocked[c] = None

\* The blocked client that the next step executes again, if there is one
Receivers ==
  IF serving # None /\ serving.clients # <<>> /\ HoldsList(server, serving.key)
    THEN {Head(serving.clients)} ELSE {}

\* The history variables follow what clients asked for and what they can observe
Observe(w) ==
  /\ watching' = w
  /\ changed' = {c \in Clients : /\ w[c] # {}
                                 /\ \/ c \in changed
                                    \/ \E k \in watching[c] :
                                         Logical(server, k) # Logical(server', k)}
  /\ earlier' = {p \in Clients \X Clients :
                   /\ server'.blocked[p[1]] # None /\ server'.blocked[p[2]] # None
                   /\ server.blocked[p[1]] # None /\ p[1] \notin Receivers
                   /\ p \in earlier \/ server.blocked[p[2]] = None \/ p[2] \in Receivers}

Forget(c) == [watching EXCEPT ![c] = {}]

-----------------------------------------------------------------------------
(* What a client may do *)

\* processCommand() outside MULTI
Command(c, cmd) ==
  /\ MayCommand(c) /\ ~client[c].multi
  /\ server' = call(server, c, cmd, FALSE)
  /\ Elements(server') <= MaxElements
  /\ UNCHANGED <<client, serving>>
  /\ Observe(watching)

multiCommand(c) ==
  /\ MayCommand(c) /\ ~client[c].multi
  /\ client' = [client EXCEPT ![c].multi = TRUE]
  /\ UNCHANGED <<server, serving>>
  /\ Observe(watching)

\* A transaction known to fail is not queued any further
queueMultiCommand(c, cmd) ==
  /\ MayCommand(c) /\ client[c].multi
  /\ c \notin server.dirty_cas /\ ~client[c].dirty_exec
  /\ \E b \in Bodies[c] : \E n \in 1..Len(b) : Append(client[c].mstate, cmd) = SubSeq(b, 1, n)
  /\ client' = [client EXCEPT ![c].mstate = Append(@, cmd)]
  /\ UNCHANGED <<server, serving>>
  /\ Observe(watching)

\* A command refused while queueing
flagTransaction(c) ==
  /\ MayCommand(c) /\ client[c].multi
  /\ client' = [client EXCEPT ![c].dirty_exec = TRUE]
  /\ UNCHANGED <<server, serving>>
  /\ Observe(watching)

watchCommand(c, k) ==
  /\ MayCommand(c) /\ ~client[c].multi
  /\ server' = IF c \in server.dirty_cas THEN server ELSE watchForKey(server, c, k)
  /\ UNCHANGED <<client, serving>>
  /\ Observe([watching EXCEPT ![c] = @ \cup {k}])

unwatchCommand(c) ==
  /\ MayCommand(c) /\ ~client[c].multi
  /\ server' = [unwatchAllKeys(server, c) EXCEPT !.dirty_cas = @ \ {c}]
  /\ UNCHANGED <<client, serving>>
  /\ Observe(Forget(c))

\* The tables after discardTransaction(); the client record becomes NoTransaction
discardTransaction(S, c) == [unwatchAllKeys(S, c) EXCEPT !.dirty_cas = @ \ {c}]

discardCommand(c) ==
  /\ MayCommand(c) /\ client[c].multi
  /\ server' = discardTransaction(server, c)
  /\ client' = [client EXCEPT ![c] = NoTransaction]
  /\ UNCHANGED serving
  /\ Observe(Forget(c))

\* Would EXEC refuse to run the queued commands?
ExecAborts(c) ==
  c \in server.dirty_cas \/ client[c].dirty_exec \/ isWatchedKeyExpired(server, c)

\* The queued commands, one after the other
RunQueued(S, c, mstate) ==
  LET run[i \in 0..Len(mstate)] ==
        IF i = 0 THEN S ELSE call(run[i - 1], c, mstate[i], TRUE)
  IN  run[Len(mstate)]

execCommand(c) ==
  /\ MayCommand(c) /\ client[c].multi
  /\ server' = IF ExecAborts(c)
                 THEN discardTransaction(server, c)
                 ELSE discardTransaction(
                        RunQueued(unwatchAllKeys(server, c), c, client[c].mstate), c)
  /\ Elements(server') <= MaxElements
  /\ client' = [client EXCEPT ![c] = NoTransaction]
  /\ UNCHANGED serving
  /\ Observe(Forget(c))

\* freeClient(); the client then connects again
freeClient(c) ==
  /\ Idle
  /\ server' = discardTransaction(unblockClient(server, c), c)
  /\ client' = [client EXCEPT ![c] = NoTransaction]
  /\ UNCHANGED serving
  /\ Observe(Forget(c))

-----------------------------------------------------------------------------
(* What the server does by itself *)

\* The next ready key: its waiters are visited in the order they blocked,
\* and those that block on it meanwhile are not.
handleClientsBlockedOnKeys ==
  /\ serving = None /\ server.ready_keys # <<>>
  /\ LET k == Head(server.ready_keys)
     IN  /\ serving' = [key |-> k, clients |-> server.blocking_keys[k]]
         /\ server' = [server EXCEPT !.ready_keys = Tail(@)]
  /\ UNCHANGED client
  /\ Observe(watching)

\* The blocking command is executed again from scratch. The execution unit it
\* runs in reads the clock anew, so that keys K may have expired since the
\* caller looked; the client may then block again, behind the others.
unblockClientOnKey(S, c, K) ==
  call(unblockClient(Elapsed(S, K), c), c, S.blocked[c].cmd, FALSE)

\* Is the value of the key still what the client waits for? By the clock as it
\* was read for the last command.
ServeReceiver(k, c) ==
  IF HoldsList(server, k)
    THEN \E K \in SUBSET Mortal(server) : server' = unblockClientOnKey(server, c, K)
    ELSE UNCHANGED server

\* Mutant of handleClientsBlockedOnKey: only the first waiter is visited
ServesOnlyFirst ==
  /\ serving # None
  /\ IF serving.clients = <<>>
       THEN UNCHANGED server
       ELSE ServeReceiver(serving.key, Head(serving.clients))
  /\ serving' = None
  /\ UNCHANGED client
  /\ Observe(watching)

\* Mutant of handleClientsBlockedOnKey: a key stays ready while clients wait for it
KeyStaysReady ==
  /\ serving # None
  /\ IF serving.clients = <<>>
       THEN /\ serving' = None
            /\ server' = IF server.blocking_keys[serving.key] = <<>> THEN server
                         ELSE [server EXCEPT !.ready_keys = Append(@, serving.key)]
       ELSE /\ serving' = [serving EXCEPT !.clients = Tail(@)]
            /\ ServeReceiver(serving.key, Head(serving.clients))
  /\ UNCHANGED client
  /\ Observe(watching)

handleClientsBlockedOnKey ==
  /\ serving # None
  /\ IF serving.clients = <<>>
       THEN serving' = None /\ UNCHANGED server
       ELSE /\ serving' = [serving EXCEPT !.clients = Tail(@)]
            /\ ServeReceiver(serving.key, Head(serving.clients))
  /\ UNCHANGED client
  /\ Observe(watching)

\* handleBlockedClientsTimeout(): a null reply
unblockClientOnTimeout(c) ==
  /\ Idle /\ server.blocked[c] # None
  /\ server' = unblockClient(server, c)
  /\ UNCHANGED <<client, serving>>
  /\ Observe(watching)

\* The clock passes a TTL between two commands
Expire(k) ==
  /\ Idle /\ k \in Mortal(server)
  /\ server' = Elapsed(server, {k})
  /\ UNCHANGED <<client, serving>>
  /\ Observe(watching)

activeExpireCycleTryExpire(k) ==
  /\ Idle /\ keyIsExpired(server, k)
  /\ server' = deleteExpiredKeyAndPropagate(server, k)
  /\ UNCHANGED <<client, serving>>
  /\ Observe(watching)

Next ==
  \/ \E c \in Clients : \/ freeClient(c) \/ unblockClientOnTimeout(c)
                         \/ \E cmd \in Commands[c] : Command(c, cmd)
  \/ \E c \in Watchers : \/ multiCommand(c) \/ flagTransaction(c)
                          \/ discardCommand(c) \/ execCommand(c)
                          \/ unwatchCommand(c)
                          \/ \E k \in Keys : watchCommand(c, k)
                          \/ \E b \in Bodies[c] : \E cmd \in Range(b) : queueMultiCommand(c, cmd)
  \/ handleClientsBlockedOnKeys
  \/ handleClientsBlockedOnKey
  \/ \E k \in Keys : Expire(k) \/ activeExpireCycleTryExpire(k)

Spec == Init /\ [][Next]_vars

\* handleClientsBlockedOnKeys() is a loop inside processCommand(): once the
\* server is in it nothing else runs, so its steps are taken.
FairSpec == Spec /\ WF_serving(handleClientsBlockedOnKeys) /\ WF_serving(handleClientsBlockedOnKey)

-----------------------------------------------------------------------------
(* Properties *)

Tables ==
  [ db : [Keys -> Values \cup {None}],
    watched_keys : [Keys -> Seq([client : Clients, expired : BOOLEAN])],
    blocking_keys : [Keys -> Seq(Clients)], ready_keys : Seq(Keys),
    blocked : [Clients -> Waiting \cup {None}],
    dirty_cas : SUBSET Clients, silent : SUBSET Keys ]

\* Type invariant of the tables and of the clients' transaction state.
TypeOK ==
  /\ server \in Tables
  /\ client \in [Clients -> [multi : BOOLEAN, dirty_exec : BOOLEAN, mstate : Seq(Cmds)]]
  /\ serving \in Serving \cup {None}
  /\ watching \in [Clients -> SUBSET Keys] /\ changed \subseteq Clients

\* The two sides of the blocking tables agree (c->bstate.keys and
\* db->blocking_keys, blocked.c), a client waits in the queue of a key once,
\* and a client that waits is not inside MULTI: EXEC never blocks.
BlockingTables ==
  /\ \A k \in Keys :
       /\ IsInjective(server.blocking_keys[k])
       /\ \A c \in Clients :
            c \in Range(server.blocking_keys[k])
              <=> server.blocked[c] # None /\ k \in server.blocked[c].keys
  /\ \A c \in Clients : server.blocked[c] # None => ~client[c].multi

\* No wake-up is lost (signalKeyAsReady, handleClientsBlockedOnKeys): between
\* two commands no client waits for a key that holds a list, unless that list
\* replaced a value of another type in place.
NoLostWakeup ==
  Idle => \A c \in Clients : server.blocked[c] # None =>
            \A k \in server.blocked[c].keys : HoldsList(server, k) => k \in server.silent

\* Client c, which waited, has just taken an element of k
TakesFrom(c, k) ==
  /\ server.blocked[c] # None /\ server'.blocked[c] = None
  /\ k \in server.blocked[c].keys
  /\ HoldsList(server, k)
  /\ server'.db[k] = None \/ server'.db[k].len < server.db[k].len

Overtakes(c, k) ==
  /\ TakesFrom(c, k)
  /\ \E d \in Clients : /\ <<d, c>> \in earlier
                         /\ k \in server.blocked[d].keys
                         /\ server'.blocked[d] # None

\* Waiters are served in the order they blocked (handleClientsBlockedOnKey):
\* a client that waits for one key never overtakes an earlier waiter for that
\* key.  One that waits for several may: the whole command is executed again,
\* and takes from the first of its keys, not from the one being served.  A
\* waiter whose turn came, and whose command found its key expired by the time
\* enterExecutionUnit had just read, blocks again at the tail of its queues: it
\* has waited since then, and clients that blocked after it the first time may
\* be served before it.
FirstBlockedFirstServed ==
  [][\A c \in Clients, k \in Keys :
       Overtakes(c, k) => \E i, j \in server.blocked[c].keys : i # j]_vars

\* WATCH (touchWatchedKey, isWatchedKeyExpired): if a key a client watches has
\* changed for its observers since WATCH, by a command or by the passing of
\* time, EXEC of that client aborts.
WatchedChangeAborts == \A c \in changed : ExecAborts(c)

\* Serving ends (handleClientsBlockedOnKeys): although serving BLMOVE makes
\* further keys ready, the loop over the ready keys terminates.
ServingEnds == (server.ready_keys # <<>>) ~> Idle
=============================================================================
