--------------------------- MODULE KeyspaceProofs ---------------------------
(***************************************************************************)
(* Proofs about Keyspace: the types, the blocking tables, that no wake-up  *)
(* is lost, that a change of a watched key aborts the transaction, and     *)
(* that clients are served in the order in which they began to wait.       *)
(* What a single command does to the tables is in KeyspaceTableProofs.     *)
(***************************************************************************)
EXTENDS KeyspaceTableProofs

-----------------------------------------------------------------------------
(* The invariant.                                                          *)

\* The queues agree with the clients that wait, those that wait for a list are
\* going to be visited, watches are where their clients believe them to be, and
\* a client whose watched key has changed is marked or will be found by EXEC.
KeyspaceInv ==
  /\ TypeOK /\ FlagsOK(server) /\ BlockOK(server, serving)
  /\ \A c \in Clients : server.blocked[c] # None => ~client[c].multi
  /\ WatchOK(server, watching, changed)

\* What observers and watchers make of a step.
LEMMA ObserveWatch ==
  ASSUME WatchOK(server, watching, changed), changed \subseteq Clients,
         NEW C, WatchStep(server, server', C),
         NEW w \in [Clients -> SUBSET Keys], watching \in [Clients -> SUBSET Keys], Observe(w),
         \A c \in C : w[c] = {},
         \A c \in Clients \ (C \cup server'.dirty_cas) : \A k \in w[c] :
           k \in watching[c] \/ Watched(server', c, k)
  PROVE  /\ WatchOK(server', watching', changed')
         /\ watching' \in [Clients -> SUBSET Keys] /\ changed' \subseteq Clients
<1>1. /\ watching' = w
      /\ changed' = {c \in Clients : /\ w[c] # {}
                                     /\ \/ c \in changed
                                        \/ \E k \in watching[c] :
                                             Logical(server, k) # Logical(server', k)}
  BY DEF Observe
<1>2. WatchOK(server', w, changed')
  <2> SUFFICES ASSUME NEW c \in Clients \ server'.dirty_cas
               PROVE  /\ \A k \in w[c] : Watched(server', c, k)
                      /\ c \in changed' => isWatchedKeyExpired(server', c)
    BY DEF WatchOK
  <2>1. CASE c \in C
    BY <1>1, <2>1
  <2>2. CASE c \notin C
    <3>1. /\ c \notin server.dirty_cas
          /\ \A k \in Keys : Watched(server, c, k) =>
            /\ Watched(server', c, k)
            /\ Logical(server', k) = Logical(server, k) \/ StaleAt(server', c, k)
            /\ StaleAt(server, c, k) => StaleAt(server', c, k)
      BY <2>2 DEF WatchStep
    <3>2. /\ \A k \in watching[c] : k \in Keys /\ Watched(server, c, k)
          /\ c \in changed => isWatchedKeyExpired(server, c)
      BY <3>1 DEF WatchOK
    <3>3. \A k \in w[c] : Watched(server', c, k)
      BY <2>2, <3>1, <3>2
    <3>4. CASE c \in changed
      <4>1. PICK k \in Keys : StaleAt(server, c, k)
        BY <3>2, <3>4, StaleFound
      <4>2. Watched(server, c, k)
        BY <4>1 DEF StaleAt, Watched
      <4>3. StaleAt(server', c, k)
        BY <3>1, <4>1, <4>2
      <4> QED
        BY <3>3, <4>3, StaleFound
    <3>5. CASE c \notin changed
      <4> SUFFICES ASSUME c \in changed' PROVE isWatchedKeyExpired(server', c)
        BY <3>3
      <4>1. PICK k \in watching[c] : Logical(server, k) # Logical(server', k)
        BY <1>1, <3>5
      <4>2. StaleAt(server', c, k) /\ k \in Keys
        BY <3>1, <3>2, <4>1
      <4> QED
        BY <4>2, StaleFound
    <3> QED
      BY <3>4, <3>5
  <2> QED
    BY <2>1, <2>2
<1> QED
  BY <1>1, <1>2

\* Nobody watches more.
LEMMA ObserveSame ==
  ASSUME KeyspaceInv, WatchStep(server, server', {}), Observe(watching)
  PROVE  /\ WatchOK(server', watching', changed')
         /\ watching' \in [Clients -> SUBSET Keys] /\ changed' \subseteq Clients
<1> DEFINE C == {}
<1>1. /\ WatchOK(server, watching, changed) /\ changed \subseteq Clients
      /\ watching \in [Clients -> SUBSET Keys] /\ WatchStep(server, server', C)
      /\ \A c \in C : watching[c] = {}
  BY DEF KeyspaceInv, TypeOK
<1> HIDE DEF C
<1> QED
  BY <1>1, ObserveWatch

\* Client c forgets its watches.
LEMMA ObserveForget ==
  ASSUME KeyspaceInv, NEW c \in Clients, WatchStep(server, server', {c}), Observe(Forget(c))
  PROVE  /\ WatchOK(server', watching', changed')
         /\ watching' \in [Clients -> SUBSET Keys] /\ changed' \subseteq Clients
<1> DEFINE C == {c}
           w == Forget(c)
<1>1. /\ WatchOK(server, watching, changed) /\ changed \subseteq Clients
      /\ watching \in [Clients -> SUBSET Keys] /\ WatchStep(server, server', C) /\ Observe(w)
  BY DEF KeyspaceInv, TypeOK
<1>2. w \in [Clients -> SUBSET Keys] /\ w[c] = {} /\ \A d \in Clients \ {c} : w[d] = watching[d]
  BY <1>1 DEF Forget
<1>3. /\ \A d \in C : w[d] = {}
      /\ \A d \in Clients \ (C \cup server'.dirty_cas) : \A k \in w[d] :
           k \in watching[d] \/ Watched(server', d, k)
  BY <1>2
<1> HIDE DEF C, w
<1> QED
  BY <1>1, <1>2, <1>3, ObserveWatch

\* The first of a queue, and the others.
LEMMA HeadTailSet ==
  ASSUME NEW X, NEW q \in Seq(X), q # <<>>
  PROVE  /\ Head(q) \in X /\ Tail(q) \in Seq(X) /\ Range(q) = Range(Tail(q)) \cup {Head(q)}
         /\ IsInjective(q) => IsInjective(Tail(q)) /\ Head(q) \notin Range(Tail(q))
<1>1. /\ Len(q) \in Nat /\ Len(q) > 0 /\ Tail(q) \in Seq(X) /\ Len(Tail(q)) = Len(q) - 1
      /\ Head(q) = q[1] /\ \A i \in 1..(Len(q) - 1) : Tail(q)[i] = q[i + 1]
      /\ DOMAIN q = 1..Len(q) /\ DOMAIN Tail(q) = 1..(Len(q) - 1)
  OBVIOUS
<1>2. Head(q) \in X
  BY <1>1
<1> DEFINE t == Tail(q)
           h == Head(q)
<1> HIDE DEF t, h
<1>3. /\ Len(q) \in Nat /\ Len(q) > 0 /\ h = q[1] /\ \A i \in 1..(Len(q) - 1) : t[i] = q[i + 1]
      /\ DOMAIN q = 1..Len(q) /\ DOMAIN t = 1..(Len(q) - 1)
  BY <1>1 DEF t, h
<1>4. Range(q) = {q[i] : i \in 1..Len(q)} /\ Range(t) = {t[i] : i \in 1..(Len(q) - 1)}
  BY <1>3 DEF Range
<1>5. \A x \in Range(q) : x \in Range(t) \/ x = h
  <2> SUFFICES ASSUME NEW i \in 1..Len(q), i # 1 PROVE q[i] \in Range(t)
    BY <1>3, <1>4
  <2>1. i - 1 \in 1..(Len(q) - 1) /\ (i - 1) + 1 = i
    BY <1>3
  <2>2. t[i - 1] = q[i]
    BY <1>3, <2>1
  <2> QED
    BY <1>4, <2>1, <2>2
<1>6. \A x \in Range(t) : x \in Range(q)
  BY <1>3, <1>4
<1>7. h \in Range(q)
  BY <1>3, <1>4
<1>8. IsInjective(q) => IsInjective(t) /\ h \notin Range(t)
  <2> SUFFICES ASSUME \A i, j \in 1..Len(q) : q[i] = q[j] => i = j
               PROVE  /\ \A i, j \in 1..(Len(q) - 1) : t[i] = t[j] => i = j
                      /\ \A i \in 1..(Len(q) - 1) : t[i] # h
    BY <1>3, <1>4, Zenon DEF IsInjective
  <2> QED
    BY <1>3
<1> QED
  BY <1>1, <1>2, <1>5, <1>6, <1>7, <1>8 DEF t, h

\* The parts of the invariant after a step.
LEMMA KeyspaceStep ==
  ASSUME server' \in Tables, FlagsOK(server'), BlockOK(server', serving'),
         \A c \in Clients : server'.blocked[c] # None => ~client'[c].multi,
         WatchOK(server', watching', changed'),
         client' \in [Clients -> [multi : BOOLEAN, dirty_exec : BOOLEAN, mstate : Seq(Cmds)]],
         serving' \in Serving \cup {None},
         watching' \in [Clients -> SUBSET Keys], changed' \subseteq Clients
  PROVE  KeyspaceInv'
BY DEF KeyspaceInv, TypeOK

\* What holds before a step.
LEMMA KeyspaceBefore ==
  ASSUME KeyspaceInv
  PROVE  /\ server \in Tables /\ Good(server) /\ BlockOK(server, serving)
         /\ \A c \in Clients : server.blocked[c] # None => ~client[c].multi
         /\ client \in [Clients -> [multi : BOOLEAN, dirty_exec : BOOLEAN, mstate : Seq(Cmds)]]
         /\ serving \in Serving \cup {None}
         /\ watching \in [Clients -> SUBSET Keys]
BY DEF KeyspaceInv, TypeOK, Good

\* A command a client sends outside a transaction (processCommand) keeps the invariant.
LEMMA CommandStep ==
  ASSUME KeyspaceInv, NEW c \in Clients, NEW cmd \in Commands[c], Command(c, cmd)
  PROVE  KeyspaceInv'
<1>1. /\ server.blocked[c] = None /\ ~client[c].multi /\ server' = call(server, c, cmd, FALSE)
      /\ client' = client /\ serving' = serving /\ Observe(watching)
  BY DEF Command, MayCommand
<1>2. cmd \in Cmds /\ Good(server) /\ BlockOK(server, serving)
  BY KeyspaceAssumption, KeyspaceBefore
<1>3. /\ server' \in Tables /\ BlockOK(server', serving) /\ WatchStep(server, server', {})
      /\ \A d \in Clients \ {c} : server'.blocked[d] = server.blocked[d]
  <2> DEFINE deny == FALSE
             R == call(server, c, cmd, deny)
  <2>1. deny \in BOOLEAN /\ server' = R
    BY <1>1
  <2> HIDE DEF deny
  <2>2. /\ R \in Tables /\ BlockOK(R, serving) /\ WatchStep(server, R, {})
        /\ \A d \in Clients \ {c} : R.blocked[d] = server.blocked[d]
    BY <1>1, <1>2, <2>1, CallStep
  <2> HIDE DEF R
  <2> QED
    BY <2>1, <2>2
<1>4. FlagsOK(server')
  BY <1>3 DEF WatchStep, Good
<1>5. \A d \in Clients : server'.blocked[d] # None => ~client'[d].multi
  BY <1>1, <1>3, KeyspaceBefore, Zenon
<1>6. /\ WatchOK(server', watching', changed')
      /\ watching' \in [Clients -> SUBSET Keys] /\ changed' \subseteq Clients
  BY <1>1, <1>3, ObserveSame, Zenon
<1> QED
  BY <1>1, <1>3, <1>4, <1>5, <1>6, KeyspaceBefore, KeyspaceStep, Zenon

\* MULTI, a queued command, and a refused one leave the tables alone.
LEMMA QueueStep ==
  ASSUME KeyspaceInv, NEW c \in Clients, server.blocked[c] = None,
         server' = server, serving' = serving, Observe(watching),
         client' \in [Clients -> [multi : BOOLEAN, dirty_exec : BOOLEAN, mstate : Seq(Cmds)]],
         \A d \in Clients \ {c} : client'[d] = client[d]
  PROVE  KeyspaceInv'
<1>1. WatchStep(server, server', {})
  BY KeyspaceBefore, SameWatch
<1>2. /\ WatchOK(server', watching', changed')
      /\ watching' \in [Clients -> SUBSET Keys] /\ changed' \subseteq Clients
  BY <1>1, ObserveSame
<1>3. FlagsOK(server') /\ server' \in Tables /\ BlockOK(server', serving')
  BY KeyspaceBefore DEF Good
<1>4. \A d \in Clients : server'.blocked[d] # None => ~client'[d].multi
  BY KeyspaceBefore, Zenon
<1> QED
  BY <1>2, <1>3, <1>4, KeyspaceBefore, KeyspaceStep

\* MULTI, and a command queued or refused after it, keep the invariant: they
\* change the client's transaction and no table.
LEMMA MultiStep ==
  ASSUME KeyspaceInv, NEW c \in Clients,
         multiCommand(c) \/ flagTransaction(c) \/ \E cmd \in Cmds : queueMultiCommand(c, cmd)
  PROVE  KeyspaceInv'
<1> DEFINE Type == [multi : BOOLEAN, dirty_exec : BOOLEAN, mstate : Seq(Cmds)]
<1>1. client \in [Clients -> Type]
  BY KeyspaceBefore
<1>2. server.blocked[c] = None /\ server' = server /\ serving' = serving /\ Observe(watching)
  BY DEF multiCommand, flagTransaction, queueMultiCommand, MayCommand
<1>3. \E x \in Type : client' = [client EXCEPT ![c] = x]
  <2>1. CASE multiCommand(c)
    <3>1. client' = [client EXCEPT ![c] = [client[c] EXCEPT !.multi = TRUE]]
      BY <1>1, <2>1 DEF multiCommand
    <3>2. [client[c] EXCEPT !.multi = TRUE] \in Type
      BY <1>1, Zenon
    <3> QED
      BY <3>1, <3>2, Zenon
  <2>2. CASE flagTransaction(c)
    <3>1. client' = [client EXCEPT ![c] = [client[c] EXCEPT !.dirty_exec = TRUE]]
      BY <1>1, <2>2 DEF flagTransaction
    <3>2. [client[c] EXCEPT !.dirty_exec = TRUE] \in Type
      BY <1>1, Zenon
    <3> QED
      BY <3>1, <3>2, Zenon
  <2>3. CASE \E cmd \in Cmds : queueMultiCommand(c, cmd)
    <3>1. PICK cmd \in Cmds : queueMultiCommand(c, cmd)
      BY <2>3
    <3> DEFINE m == Append(client[c].mstate, cmd)
    <3>2. client' = [client EXCEPT ![c] = [client[c] EXCEPT !.mstate = m]]
      BY <1>1, <3>1 DEF queueMultiCommand
    <3>3. m \in Seq(Cmds)
      BY <1>1
    <3> HIDE DEF m
    <3>4. [client[c] EXCEPT !.mstate = m] \in Type
      BY <1>1, <3>3, Zenon
    <3> QED
      BY <3>2, <3>4, Zenon
  <2> QED
    BY <2>1, <2>2, <2>3
<1>4. client' \in [Clients -> Type] /\ \A d \in Clients \ {c} : client'[d] = client[d]
  BY <1>1, <1>3
<1> QED
  BY <1>2, <1>4, QueueStep

\* WATCH keeps the invariant: the keys it adds are watched from now on, and
\* nothing the client watched before is forgotten.
LEMMA WatchStepInv ==
  ASSUME KeyspaceInv, NEW c \in Clients, NEW k \in Keys, watchCommand(c, k)
  PROVE  KeyspaceInv'
<1> DEFINE w == [watching EXCEPT ![c] = @ \cup {k}]
           C == {}
<1>1. /\ server' = IF c \in server.dirty_cas THEN server ELSE watchForKey(server, c, k)
      /\ client' = client /\ serving' = serving /\ Observe(w)
  BY DEF watchCommand
<1>2. /\ WatchStep(server, server', C) /\ (c \in server.dirty_cas \/ Watched(server', c, k))
      /\ server'.db = server.db /\ server'.blocked = server.blocked
      /\ server'.ready_keys = server.ready_keys
      /\ server'.blocking_keys = server.blocking_keys /\ server'.silent = server.silent
  <2>1. CASE c \in server.dirty_cas
    BY <1>1, <2>1, KeyspaceBefore, SameWatch
  <2>2. CASE c \notin server.dirty_cas
    BY <1>1, <2>2, KeyspaceBefore, WatchForKeyWatch
  <2> QED
    BY <2>1, <2>2
<1>3. FlagsOK(server') /\ server' \in Tables
  BY <1>2 DEF WatchStep, Good
<1>4. BlockOK(server', serving')
  <2>1. \A j \in Keys : HoldsList(server', j) => HoldsList(server, j)
    BY <1>2 DEF HoldsList, keyIsExpired
  <2> QED
    BY <1>1, <1>2, <2>1, KeyspaceBefore, SameBlock
<1>5. \A d \in Clients : server'.blocked[d] # None => ~client'[d].multi
  BY <1>1, <1>2, KeyspaceBefore
<1>6. /\ watching \in [Clients -> SUBSET Keys] /\ w \in [Clients -> SUBSET Keys]
      /\ w[c] = watching[c] \cup {k} /\ \A d \in Clients \ {c} : w[d] = watching[d]
  BY KeyspaceBefore
<1>7. \A d \in C : w[d] = {}
  OBVIOUS
<1>8. \A d \in Clients \ (C \cup server'.dirty_cas) : \A j \in w[d] :
        j \in watching[d] \/ Watched(server', d, j)
  <2>1. \A d \in Clients \ (C \cup server'.dirty_cas) : d \notin server.dirty_cas
    BY <1>2 DEF WatchStep
  <2> QED
    BY <1>2, <1>6, <2>1
<1>9. WatchOK(server, watching, changed) /\ changed \subseteq Clients
  BY DEF KeyspaceInv, TypeOK
<1> HIDE DEF w, C
<1>10. /\ WatchOK(server', watching', changed')
       /\ watching' \in [Clients -> SUBSET Keys] /\ changed' \subseteq Clients
  BY <1>1, <1>2, <1>6, <1>7, <1>8, <1>9, ObserveWatch
<1> QED
  BY <1>1, <1>3, <1>4, <1>5, <1>10, KeyspaceBefore, KeyspaceStep

\* A client that forgets its watches and, perhaps, its transaction.
LEMMA ForgetStep ==
  ASSUME KeyspaceInv, NEW c \in Clients, WatchStep(server, server', {c}), Observe(Forget(c)),
         BlockOK(server', serving'), serving' = serving,
         \A d \in Clients : server'.blocked[d] \in {server.blocked[d], None},
         client' = client \/ client' = [client EXCEPT ![c] = NoTransaction]
  PROVE  KeyspaceInv'
<1>1. /\ WatchOK(server', watching', changed')
      /\ watching' \in [Clients -> SUBSET Keys] /\ changed' \subseteq Clients
  BY ObserveForget
<1>2. FlagsOK(server') /\ server' \in Tables
  BY DEF WatchStep, Good
<1>3. /\ client' \in [Clients -> [multi : BOOLEAN, dirty_exec : BOOLEAN, mstate : Seq(Cmds)]]
      /\ \A d \in Clients : client'[d] = client[d] \/ ~client'[d].multi
  <2>1. /\ NoTransaction \in [multi : BOOLEAN, dirty_exec : BOOLEAN, mstate : Seq(Cmds)]
        /\ ~NoTransaction.multi
    BY DEF NoTransaction
  <2> QED
    BY <2>1, KeyspaceBefore
<1>4. \A d \in Clients : server'.blocked[d] # None => ~client'[d].multi
  BY <1>3, KeyspaceBefore, Zenon
<1> QED
  BY <1>1, <1>2, <1>3, <1>4, KeyspaceBefore, KeyspaceStep, Zenon

\* The tables without the watches of one client have the same queues.
LEMMA UnwatchedBlock ==
  ASSUME NEW S, NEW T, NEW c, NEW D, NEW sv, Unwatched(S, T, c, D), BlockOK(S, sv)
  PROVE  BlockOK(T, sv) /\ T.blocked = S.blocked
<1>1. /\ T.blocked = S.blocked /\ T.blocking_keys = S.blocking_keys
      /\ T.ready_keys = S.ready_keys /\ T.silent = S.silent
      /\ \A k \in Keys : HoldsList(T, k) => HoldsList(S, k)
  BY DEF Unwatched, HoldsList, keyIsExpired
<1> QED
  BY <1>1, SameBlock

\* DISCARD and UNWATCH
LEMMA DiscardStep ==
  ASSUME KeyspaceInv, NEW c \in Clients, discardCommand(c) \/ unwatchCommand(c)
  PROVE  KeyspaceInv'
<1>1. /\ server' = discardTransaction(server, c) /\ serving' = serving /\ Observe(Forget(c))
      /\ client' = client \/ client' = [client EXCEPT ![c] = NoTransaction]
  BY DEF discardCommand, unwatchCommand, discardTransaction
<1>2. /\ WatchStep(server, server', {c})
      /\ Unwatched(server, server', c, server.dirty_cas \ {c})
  BY <1>1, KeyspaceBefore, DiscardWatch, Zenon
<1>3. BlockOK(server', serving') /\ server'.blocked = server.blocked
  <2>1. Unwatched(server, server', c, server.dirty_cas \ {c}) /\ BlockOK(server, serving)
    BY <1>2, KeyspaceBefore
  <2>2. BlockOK(server', serving) /\ server'.blocked = server.blocked
    BY ONLY <2>1, UnwatchedBlock
  <2> QED
    BY <1>1, <2>2
<1> QED
  BY <1>1, <1>2, <1>3, ForgetStep

\* EXEC
LEMMA ExecStep ==
  ASSUME KeyspaceInv, NEW c \in Clients, execCommand(c)
  PROVE  KeyspaceInv'
<1> DEFINE S == unwatchAllKeys(server, c)
           R == RunQueued(S, c, client[c].mstate)
           C == {c}
<1>1. /\ server' = IF ExecAborts(c) THEN discardTransaction(server, c) ELSE discardTransaction(R, c)
      /\ serving' = serving /\ Observe(Forget(c))
      /\ client' = [client EXCEPT ![c] = NoTransaction]
  BY DEF execCommand
<1>2. Good(server) /\ BlockOK(server, serving) /\ client[c].mstate \in Seq(Cmds)
  BY KeyspaceBefore
<1>3. CASE ExecAborts(c)
  <2>1. /\ WatchStep(server, server', {c})
        /\ Unwatched(server, server', c, server.dirty_cas \ {c})
    BY <1>1, <1>2, <1>3, DiscardWatch, Zenon
  <2>2. BlockOK(server', serving') /\ server'.blocked = server.blocked
    <3>1. Unwatched(server, server', c, server.dirty_cas \ {c}) /\ BlockOK(server, serving)
      BY <1>2, <2>1
    <3>2. BlockOK(server', serving) /\ server'.blocked = server.blocked
      BY ONLY <3>1, UnwatchedBlock
    <3> QED
      BY <1>1, <3>2
  <2> QED
    BY <1>1, <2>1, <2>2, ForgetStep, Zenon
<1>4. CASE ~ExecAborts(c)
  <2>1. WatchStep(server, S, {c}) /\ Unwatched(server, S, c, server.dirty_cas)
    BY <1>2, UnwatchWatch
  <2>2. Good(S) /\ S \in Tables /\ BlockOK(S, serving) /\ S.blocked = server.blocked
    BY <1>2, <2>1, UnwatchedBlock DEF WatchStep, Good
  <2> HIDE DEF S
  <2>3. Runs(S, R)
    BY <1>2, <2>2, QueuedRuns, SMTT(30)
  <2> HIDE DEF R
  <2>4. BlockOK(R, serving) /\ Good(R) /\ R.blocked = S.blocked
    BY <2>2, <2>3, RunsBlock, RunsGood DEF Runs, Pending
  <2>5. server' = discardTransaction(R, c)
    BY <1>1, <1>4
  <2>6. WatchStep(R, server', {c}) /\ Unwatched(R, server', c, R.dirty_cas \ {c})
    BY <2>4, <2>5, DiscardWatch, Zenon
  <2>7. BlockOK(server', serving) /\ server'.blocked = R.blocked
    BY <2>4, <2>6, UnwatchedBlock
  <2>8. WatchStep(server, S, C) /\ WatchStep(R, server', C)
    BY <2>1, <2>6
  <2> HIDE DEF C
  <2>9. WatchStep(S, R, C)
    BY <2>3, RunsWatch
  <2>10. WatchStep(server, R, C)
    BY <2>8, <2>9, WatchTrans
  <2>11. WatchStep(server, server', C)
    BY <2>8, <2>10, WatchTrans
  <2>12. \A d \in Clients : server'.blocked[d] \in {server.blocked[d], None}
    BY <2>2, <2>4, <2>7
  <2> QED
    BY <1>1, <2>7, <2>11, <2>12, ForgetStep, Zenon DEF C
<1> QED
  BY <1>3, <1>4

\* A client is unblocked while nobody is being served.
LEMMA UnblockIdle ==
  ASSUME KeyspaceInv, Idle, NEW c \in Clients
  PROVE  LET T == unblockClient(server, c)
         IN /\ T \in Tables /\ BlockOK(T, None) /\ WatchStep(server, T, {c})
            /\ WatchStep(server, T, {})
            /\ \A d \in Clients : T.blocked[d] \in {server.blocked[d], None}
<1> DEFINE T == unblockClient(server, c)
           sv == None
<1>1. server \in Tables /\ BlockOK(server, sv) /\ sv = None /\ Good(server)
      /\ server.blocked \in [Clients -> Waiting \cup {None}]
  BY KeyspaceBefore, TablesTypes DEF Idle
<1> HIDE DEF sv
<1>2. ServingOK(server, sv)
  BY <1>1 DEF ServingOK
<1>3. /\ T \in Tables /\ BlockOK(T, sv) /\ T.blocked = [server.blocked EXCEPT ![c] = None]
      /\ T.db = server.db /\ T.watched_keys = server.watched_keys
      /\ T.dirty_cas = server.dirty_cas
      /\ T.ready_keys = server.ready_keys /\ T.silent = server.silent
  BY <1>1, <1>2, UnblockBlock
<1> HIDE DEF T
<1>4. \A C : WatchStep(server, T, C)
  BY <1>1, <1>3, SameWatch
<1>5. \A d \in Clients : T.blocked[d] \in {server.blocked[d], None}
  BY <1>1, <1>3
<1> QED
  BY <1>1, <1>3, <1>4, <1>5 DEF T

\* freeClient keeps the invariant: a client leaves every queue and every list of
\* watchers it stands in.
LEMMA FreeStep ==
  ASSUME KeyspaceInv, NEW c \in Clients, freeClient(c)
  PROVE  KeyspaceInv'
<1> DEFINE T == unblockClient(server, c)
           C == {c}
<1>1. /\ Idle /\ server' = discardTransaction(T, c) /\ serving' = serving /\ Observe(Forget(c))
      /\ client' = [client EXCEPT ![c] = NoTransaction] /\ serving = None
  BY DEF freeClient, Idle
<1>2. /\ T \in Tables /\ BlockOK(T, None) /\ WatchStep(server, T, {c})
      /\ WatchStep(server, T, {})
      /\ \A d \in Clients : T.blocked[d] \in {server.blocked[d], None}
  BY <1>1, UnblockIdle
<1> HIDE DEF T
<1>3. Good(T)
  BY <1>2 DEF WatchStep
<1>4. WatchStep(T, server', {c}) /\ Unwatched(T, server', c, T.dirty_cas \ {c})
  BY <1>1, <1>3, DiscardWatch
<1>5. BlockOK(server', None) /\ server'.blocked = T.blocked
  BY <1>2, <1>4, UnwatchedBlock
<1>6. WatchStep(server, T, C) /\ WatchStep(T, server', C)
  BY <1>2, <1>4
<1> HIDE DEF C
<1>7. WatchStep(server, server', C)
  BY <1>6, WatchTrans
<1>8. \A d \in Clients : server'.blocked[d] \in {server.blocked[d], None}
  BY <1>2, <1>5
<1> QED
  BY <1>1, <1>5, <1>7, <1>8, ForgetStep, Zenon DEF C

\* A step of the server that leaves the clients' transactions alone.
LEMMA ServerStep ==
  ASSUME KeyspaceInv, WatchStep(server, server', {}), Observe(watching),
         BlockOK(server', serving'), serving' \in Serving \cup {None}, client' = client,
         \A d \in Clients : server'.blocked[d] \in {server.blocked[d], None}
  PROVE  KeyspaceInv'
<1>1. /\ WatchOK(server', watching', changed')
      /\ watching' \in [Clients -> SUBSET Keys] /\ changed' \subseteq Clients
  BY ObserveSame
<1>2. FlagsOK(server') /\ server' \in Tables
  BY DEF WatchStep, Good
<1>3. \A d \in Clients : server'.blocked[d] # None => ~client'[d].multi
  BY KeyspaceBefore, ZenonT(30)
<1> QED
  BY <1>1, <1>2, <1>3, KeyspaceBefore, KeyspaceStep

\* unblockClientOnTimeout keeps the invariant: the waiter leaves every queue.
LEMMA TimeoutStep ==
  ASSUME KeyspaceInv, NEW c \in Clients, unblockClientOnTimeout(c)
  PROVE  KeyspaceInv'
<1> DEFINE T == unblockClient(server, c)
<1>1. /\ Idle /\ server' = T /\ serving' = serving /\ Observe(watching)
      /\ client' = client /\ serving = None
  BY DEF unblockClientOnTimeout, Idle
<1>2. /\ T \in Tables /\ BlockOK(T, None) /\ WatchStep(server, T, {c})
      /\ WatchStep(server, T, {})
      /\ \A d \in Clients : T.blocked[d] \in {server.blocked[d], None}
  BY <1>1, UnblockIdle
<1> HIDE DEF T
<1> QED
  BY <1>1, <1>2, ServerStep

\* Keys passing their TTL keep the invariant: who watched them alive is noticed by
\* isWatchedKeyExpired, and an expired list wakes nobody.
LEMMA ElapsedInv ==
  ASSUME KeyspaceInv, NEW K \in SUBSET Mortal(server)
  PROVE  LET E == Elapsed(server, K)
         IN /\ Good(E) /\ BlockOK(E, serving) /\ WatchStep(server, E, {})
            /\ E.blocked = server.blocked /\ E.blocking_keys = server.blocking_keys
<1> DEFINE E == Elapsed(server, K)
<1>1. Good(server) /\ BlockOK(server, serving)
  BY KeyspaceBefore
<1>2. /\ WatchStep(server, E, {}) /\ E.blocked = server.blocked
      /\ E.ready_keys = server.ready_keys
      /\ E.blocking_keys = server.blocking_keys /\ E.silent = server.silent
      /\ \A j \in Keys : HoldsList(E, j) => HoldsList(server, j)
  BY <1>1, ElapsedWatch
<1> HIDE DEF E
<1>3. BlockOK(E, serving)
  BY <1>1, <1>2, SameBlock, Zenon
<1> QED
  BY <1>2, <1>3 DEF E, WatchStep

\* The clock between two commands.
LEMMA ClockStep ==
  ASSUME KeyspaceInv, NEW k \in Keys, Expire(k)
  PROVE  KeyspaceInv'
<1> DEFINE E == Elapsed(server, {k})
<1>1. /\ {k} \in SUBSET Mortal(server) /\ server' = E
      /\ client' = client /\ serving' = serving /\ Observe(watching)
  BY DEF Expire
<1>2. /\ Good(E) /\ BlockOK(E, serving) /\ WatchStep(server, E, {})
      /\ E.blocked = server.blocked /\ E.blocking_keys = server.blocking_keys
  BY <1>1, ElapsedInv
<1> HIDE DEF E
<1> QED
  BY <1>1, <1>2, KeyspaceBefore, ServerStep

\* activeExpireCycleTryExpire keeps the invariant.
LEMMA ExpireCycleStep ==
  ASSUME KeyspaceInv, NEW k \in Keys, activeExpireCycleTryExpire(k)
  PROVE  KeyspaceInv'
<1>1. /\ server' = signalModifiedKey(dbDelete(server, k), k)
      /\ client' = client /\ serving' = serving /\ Observe(watching)
  BY DEF activeExpireCycleTryExpire, deleteExpiredKeyAndPropagate
<1>2. /\ Good(server) /\ BlockOK(server, serving) /\ serving \in Serving \cup {None}
      /\ server \in Tables
  BY KeyspaceBefore
<1>3. Runs(server, server') /\ server'.db = [server.db EXCEPT ![k] = None]
  BY <1>1, <1>2, DeleteRuns
<1>4. WatchStep(server, server', {}) /\ BlockOK(server', serving)
  BY <1>2, <1>3, RunsWatch, RunsBlock
<1>5. server'.blocked = server.blocked
  BY <1>3 DEF Runs, Pending
<1> QED
  BY <1>1, <1>2, <1>4, <1>5, ServerStep

\* Taking the next key off ready_keys (handleClientsBlockedOnKeys) keeps the
\* invariant: the key is remembered by serving until its waiters were seen.
LEMMA NextKeyStep ==
  ASSUME KeyspaceInv, handleClientsBlockedOnKeys
  PROVE  KeyspaceInv'
<1> DEFINE k == Head(server.ready_keys)
           q == server.blocking_keys[k]
           t == Tail(server.ready_keys)
           T == [server EXCEPT !.ready_keys = t]
           sv == [key |-> k, clients |-> q]
<1>1. /\ serving = None /\ server.ready_keys # <<>>
      /\ serving' = sv /\ server' = T /\ client' = client /\ Observe(watching)
  BY SMTT(30) DEF handleClientsBlockedOnKeys
<1>2. /\ Good(server) /\ BlockOK(server, serving) /\ server \in Tables
      /\ server.ready_keys \in Seq(Keys) /\ server.blocking_keys \in [Keys -> Seq(Clients)]
  BY KeyspaceBefore, TablesTypes
<1>3. k \in Keys /\ t \in Seq(Keys) /\ Range(server.ready_keys) = Range(t) \cup {k}
  BY <1>1, <1>2, HeadTailSet
<1>4. q \in Seq(Clients) /\ Range(q) \subseteq Clients
  BY <1>2, <1>3 DEF Range
<1> HIDE DEF k, t
<1>5. /\ T \in Tables /\ T.db = server.db /\ T.blocked = server.blocked /\ T.ready_keys = t
      /\ T.blocking_keys = server.blocking_keys /\ T.silent = server.silent
      /\ T.dirty_cas = server.dirty_cas /\ T.watched_keys = server.watched_keys
  BY <1>2, <1>3, Zenon DEF Tables
<1> HIDE DEF T, q
<1>6. sv \in Serving /\ sv.key = k /\ sv.clients = q /\ sv # None
  BY <1>3, <1>4, KeyspaceAssumption DEF Serving
<1> HIDE DEF sv
<1>7. BlockOK(T, sv)
  <2>1. \A c \in Clients, j \in Keys : Waits(T, c, j) <=> Waits(server, c, j)
    BY <1>5 DEF Waits
  <2>2. QueuesOK(T)
    BY <1>2, <1>5, <2>1 DEF BlockOK, QueuesOK
  <2>3. IsInjective(q) /\ \A c \in Clients : c \in Range(q) <=> Waits(T, c, k)
    BY <1>2, <1>3, <2>1 DEF BlockOK, QueuesOK, q
  <2>4. ServingOK(T, sv)
    BY <1>4, <1>6, <2>3 DEF ServingOK
  <2>5. WakeOK(T, sv)
    <3> SUFFICES ASSUME NEW c \in Clients, NEW j \in Keys, Waits(T, c, j), HoldsList(T, j)
                 PROVE  \/ j \in T.silent \/ j \in Range(T.ready_keys)
                        \/ sv # None /\ sv.key = j /\ c \in Range(sv.clients)
      BY DEF WakeOK
    <3>1. HoldsList(server, j) /\ Waits(server, c, j)
      BY <1>5, <2>1 DEF HoldsList, keyIsExpired
    <3>2. j \in server.silent \/ j \in Range(server.ready_keys)
      BY <1>1, <1>2, <3>1 DEF BlockOK, WakeOK
    <3> QED
      BY <1>3, <1>5, <1>6, <2>3, <3>2
  <2> QED
    BY <2>2, <2>4, <2>5 DEF BlockOK
<1>8. WatchStep(server, T, {})
  BY <1>2, <1>5, SameWatch
<1> QED
  BY <1>1, <1>5, <1>6, <1>7, <1>8, ServerStep

\* The next client that waits for the key being served.
LEMMA ServeStep ==
  ASSUME KeyspaceInv, handleClientsBlockedOnKey
  PROVE  KeyspaceInv'
<1>1. /\ Good(server) /\ BlockOK(server, serving) /\ server \in Tables
      /\ serving \in Serving /\ serving # None /\ client' = client /\ Observe(watching)
      /\ server.blocked \in [Clients -> Waiting \cup {None}]
  BY KeyspaceBefore, TablesTypes DEF handleClientsBlockedOnKey
<1>2. CASE serving.clients = <<>>
  <2>1. serving' = None /\ server' = server
    BY <1>2 DEF handleClientsBlockedOnKey
  <2>2. Range(serving.clients) = {}
    BY <1>2 DEF Range
  <2>3. BlockOK(server', serving')
    BY <1>1, <2>1, <2>2 DEF BlockOK, ServingOK, WakeOK
  <2>4. WatchStep(server, server', {})
    BY <1>1, <2>1, SameWatch
  <2> QED
    BY <1>1, <2>1, <2>3, <2>4, ServerStep
<1>3. CASE serving.clients # <<>>
  <2> DEFINE q == serving.clients
             c == Head(q)
             t == Tail(q)
             sw == [serving EXCEPT !.clients = t]
  <2>1. /\ serving' = sw
        /\ HoldsList(server, serving.key) =>
             \E K \in SUBSET Mortal(server) : server' = unblockClientOnKey(server, c, K)
        /\ ~HoldsList(server, serving.key) => server' = server
    BY <1>3 DEF handleClientsBlockedOnKey, ServeReceiver
  <2>2. q \in Seq(Clients) /\ serving.key \in Keys /\ IsInjective(q)
        /\ \A d \in Range(q) : Waits(server, d, serving.key)
    BY <1>1 DEF Serving, BlockOK, ServingOK
  <2>3. /\ c \in Clients /\ t \in Seq(Clients) /\ Range(q) = Range(t) \cup {c}
        /\ IsInjective(t) /\ c \notin Range(t)
    BY <1>3, <2>2, HeadTailSet
  <2> HIDE DEF c, t
  <2>4. sw \in Serving /\ sw.key = serving.key /\ sw.clients = t /\ sw # None
    BY <1>1, <2>3, KeyspaceAssumption DEF Serving
  <2> HIDE DEF sw
  <2>5. ServingOK(server, sw)
    BY <2>2, <2>3, <2>4 DEF ServingOK
  <2>6. CASE HoldsList(server, serving.key)
    <3>0. PICK K \in SUBSET Mortal(server) : server' = unblockClientOnKey(server, c, K)
      BY <2>1, <2>6
    <3> DEFINE E == Elapsed(server, K)
               S == unblockClient(E, c)
               cmd == server.blocked[c].cmd
               deny == FALSE
               R == call(S, c, cmd, deny)
    <3>1. server' = R /\ deny \in BOOLEAN
      BY <3>0 DEF unblockClientOnKey
    <3>e. /\ Good(E) /\ BlockOK(E, serving) /\ WatchStep(server, E, {})
          /\ E.blocked = server.blocked /\ E.blocking_keys = server.blocking_keys
      BY ElapsedInv
    <3> HIDE DEF E
    <3>t. E \in Tables /\ ServingOK(E, sw)
      BY <2>5, <3>e DEF Good, ServingOK, Waits
    <3>2. server.blocked[c] # None /\ cmd \in Cmds
      <4>1. server.blocked[c] # None
        BY <2>2, <2>3 DEF Waits
      <4>2. server.blocked[c] \in Waiting
        BY <1>1, <2>3, <4>1
      <4> QED
        BY <4>1, <4>2 DEF Waiting
    <3> HIDE DEF cmd, deny
    <3>3. \A d \in Clients \ {c}, k \in Keys :
            serving # None /\ serving.key = k /\ d \in Range(serving.clients) =>
              sw # None /\ sw.key = k /\ d \in Range(sw.clients)
      BY <2>3, <2>4
    <3>4. sw # None => serving # None /\ c \notin Range(sw.clients)
      BY <1>1, <2>3, <2>4
    <3>5. /\ S \in Tables /\ BlockOK(S, sw) /\ S.blocked = [E.blocked EXCEPT ![c] = None]
          /\ S.db = E.db /\ S.watched_keys = E.watched_keys
          /\ S.dirty_cas = E.dirty_cas
          /\ S.ready_keys = E.ready_keys /\ S.silent = E.silent
      BY <2>3, <3>e, <3>t, <3>3, <3>4, UnblockBlock, Zenon
    <3> HIDE DEF S
    <3> DEFINE C == {}
    <3>w. WatchStep(server, E, C)
      BY <3>e
    <3> HIDE DEF C
    <3>s. WatchStep(E, S, C)
      BY <3>e, <3>5, SameWatch
    <3>6. WatchStep(server, S, C)
      BY <3>w, <3>s, WatchTrans
    <3>7. Good(S) /\ S.blocked[c] = None
          /\ \A d \in Clients \ {c} : S.blocked[d] = server.blocked[d]
      BY <1>1, <2>3, <3>e, <3>5, <3>6, Zenon DEF WatchStep
    <3>8. /\ R \in Tables /\ BlockOK(R, sw) /\ WatchStep(S, R, {})
          /\ \A d \in Clients \ {c} : R.blocked[d] = S.blocked[d]
      <4>1. /\ Good(S) /\ BlockOK(S, sw) /\ c \in Clients /\ S.blocked[c] = None
            /\ cmd \in Cmds /\ deny \in BOOLEAN
        BY <2>3, <3>1, <3>2, <3>5, <3>7
      <4> QED
        BY <4>1, CallStep
    <3> HIDE DEF R
    <3>9. WatchStep(S, R, C)
      BY <3>8 DEF C
    <3>10. WatchStep(server, R, C)
      BY <3>6, <3>9, WatchTrans
    <3>11. WatchStep(server, server', {})
      BY <3>1, <3>10 DEF C
    <3>12. /\ WatchOK(server', watching', changed')
           /\ watching' \in [Clients -> SUBSET Keys] /\ changed' \subseteq Clients
      BY <1>1, <3>11, ObserveSame
    <3>13. FlagsOK(server') /\ server' \in Tables
      BY <3>11 DEF WatchStep, Good
    <3>14. \A d \in Clients : server'.blocked[d] # None => ~client'[d].multi
      BY <1>1, <2>3, <3>1, <3>2, <3>7, <3>8, KeyspaceBefore, Zenon
    <3>15. BlockOK(server', serving') /\ serving' \in Serving \cup {None}
      BY <2>1, <2>4, <3>1, <3>8
    <3> QED
      BY <1>1, <3>12, <3>13, <3>14, <3>15, KeyspaceBefore, KeyspaceStep
  <2>7. CASE ~HoldsList(server, serving.key)
    <3>1. server' = server
      BY <2>1, <2>7
    <3>2. WakeOK(server, sw)
      <4> SUFFICES ASSUME NEW d \in Clients, NEW k \in Keys, Waits(server, d, k),
                          HoldsList(server, k)
                   PROVE  k \in server.silent \/ k \in Range(server.ready_keys)
        BY DEF WakeOK
      <4> QED
        BY <1>1, <2>7 DEF BlockOK, WakeOK
    <3>3. BlockOK(server', serving')
      BY <1>1, <2>1, <2>5, <3>1, <3>2 DEF BlockOK
    <3>4. WatchStep(server, server', {})
      BY <1>1, <3>1, SameWatch, SMTT(30)
    <3> QED
      BY <1>1, <2>1, <2>4, <3>1, <3>3, <3>4, ServerStep
  <2> QED
    BY <2>6, <2>7
<1> QED
  BY <1>2, <1>3

-----------------------------------------------------------------------------
(* The theorems.                                                           *)

\* At the start nobody waits and nobody watches.
LEMMA KeyspaceInit ==
  ASSUME Init
  PROVE  KeyspaceInv
<1> DEFINE W == [k \in Keys |-> <<>>]
           d == [k \in Keys |-> None]
           b == [c \in Clients |-> None]
           e == <<>>
           T == [db |-> d, watched_keys |-> W, blocking_keys |-> W, ready_keys |-> e,
                 blocked |-> b, dirty_cas |-> {}, silent |-> {}]
<1>1. /\ server = T /\ client = [c \in Clients |-> NoTransaction] /\ serving = None
      /\ watching = [c \in Clients |-> {}] /\ changed = {}
  BY SMTT(30) DEF Init
<1>2. /\ d \in [Keys -> Values \cup {None}] /\ W \in [Keys -> Seq(Watch)]
      /\ W \in [Keys -> Seq(Clients)] /\ e \in Seq(Keys)
      /\ b \in [Clients -> Waiting \cup {None}]
      /\ {} \in SUBSET Clients /\ {} \in SUBSET Keys
  OBVIOUS
<1>3. /\ \A k \in Keys : d[k] = None /\ W[k] = <<>> /\ Range(W[k]) = {} /\ IsInjective(W[k])
      /\ \A c \in Clients : b[c] = None
  BY DEF Range, IsInjective
<1> HIDE DEF W, d, b, e
<1>4. /\ T \in Tables /\ T.db = d /\ T.watched_keys = W /\ T.blocking_keys = W /\ T.blocked = b
  BY <1>2, Zenon DEF Tables, Watch
<1> HIDE DEF T
<1>5. NoTransaction \in [multi : BOOLEAN, dirty_exec : BOOLEAN, mstate : Seq(Cmds)]
  BY DEF NoTransaction
<1>6. TypeOK
  BY <1>1, <1>4, <1>5 DEF TypeOK
<1>7. FlagsOK(server)
  BY <1>1, <1>3, <1>4 DEF FlagsOK
<1>8. QueuesOK(server) /\ ServingOK(server, serving) /\ WakeOK(server, serving)
  BY <1>1, <1>3, <1>4, Zenon DEF QueuesOK, ServingOK, WakeOK, Waits
<1>9. WatchOK(server, watching, changed)
  BY <1>1 DEF WatchOK
<1> QED
  BY <1>1, <1>3, <1>4, <1>6, <1>7, <1>8, <1>9 DEF KeyspaceInv, BlockOK

\* Every step keeps the inductive invariant.
LEMMA KeyspaceNext ==
  ASSUME KeyspaceInv, [Next]_vars
  PROVE  KeyspaceInv'
<1>1. CASE UNCHANGED vars
  <2>1. /\ server' = server /\ client' = client /\ serving' = serving
        /\ watching' = watching /\ changed' = changed
    BY <1>1 DEF vars
  <2>2. WatchOK(server, watching, changed) /\ changed \subseteq Clients /\ FlagsOK(server)
    BY DEF KeyspaceInv, TypeOK
  <2> QED
    BY <2>1, <2>2, KeyspaceBefore, KeyspaceStep
<1>2. CASE \E c \in Clients : \/ freeClient(c) \/ unblockClientOnTimeout(c)
                              \/ \E cmd \in Commands[c] : Command(c, cmd)
  BY <1>2, FreeStep, TimeoutStep, CommandStep
<1>3. CASE \E c \in Watchers :
             \/ multiCommand(c) \/ flagTransaction(c)
             \/ discardCommand(c) \/ execCommand(c)
             \/ unwatchCommand(c)
             \/ \E k \in Keys : watchCommand(c, k)
             \/ \E b \in Bodies[c] : \E cmd \in Range(b) : queueMultiCommand(c, cmd)
  <2>1. PICK c \in Clients :
             \/ multiCommand(c) \/ flagTransaction(c)
             \/ discardCommand(c) \/ execCommand(c)
             \/ unwatchCommand(c)
             \/ \E k \in Keys : watchCommand(c, k)
             \/ \E b \in Bodies[c] : \E cmd \in Range(b) : queueMultiCommand(c, cmd)
    BY <1>3, KeyspaceAssumption
  <2>2. \A b \in Bodies[c] : Range(b) \subseteq Cmds
    BY KeyspaceAssumption DEF Range
  <2>3. \/ multiCommand(c) \/ flagTransaction(c) \/ \E cmd \in Cmds : queueMultiCommand(c, cmd)
        \/ discardCommand(c) \/ unwatchCommand(c) \/ execCommand(c)
        \/ \E k \in Keys : watchCommand(c, k)
    BY <2>1, <2>2
  <2> QED
    BY <2>3, MultiStep, DiscardStep, ExecStep, WatchStepInv
<1>4. CASE handleClientsBlockedOnKeys \/ handleClientsBlockedOnKey
  BY <1>4, NextKeyStep, ServeStep
<1>5. CASE \E k \in Keys : Expire(k) \/ activeExpireCycleTryExpire(k)
  BY <1>5, ClockStep, ExpireCycleStep
<1> QED
  BY <1>1, <1>2, <1>3, <1>4, <1>5 DEF Next

\* KeyspaceInv is an invariant, whatever the keys, the clients and their commands.
THEOREM KeyspaceInvariant == Spec => []KeyspaceInv
<1>1. Init => KeyspaceInv
  BY KeyspaceInit
<1>2. KeyspaceInv /\ [Next]_vars => KeyspaceInv'
  BY KeyspaceNext
<1> QED
  BY <1>1, <1>2, PTL DEF Spec

\* Types: the tables stay tables through every composition of calls.
THEOREM TypeCorrect == Spec => []TypeOK
<1>1. KeyspaceInv => TypeOK
  BY DEF KeyspaceInv
<1> QED
  BY <1>1, KeyspaceInvariant, PTL

\* blocked.c: the queues of the keys and the clients' own lists of keys agree, no
\* client is twice in a queue, and no client waits inside MULTI.
THEOREM BlockingTablesAgree == Spec => []BlockingTables
<1>1. KeyspaceInv => BlockingTables
  BY DEF KeyspaceInv, BlockOK, QueuesOK, Waits, BlockingTables
<1> QED
  BY <1>1, KeyspaceInvariant, PTL

\* signalKeyAsReady, handleClientsBlockedOnKeys: between two commands no client
\* waits for a list, except for one that replaced another value in place.
THEOREM WakeupsAreNotLost == Spec => []NoLostWakeup
<1>1. KeyspaceInv => NoLostWakeup
  <2> SUFFICES ASSUME KeyspaceInv, Idle, NEW c \in Clients, server.blocked[c] # None,
                      NEW k \in server.blocked[c].keys, HoldsList(server, k)
               PROVE  k \in server.silent
    BY DEF NoLostWakeup
  <2>1. server.blocked[c] \in Waiting
    BY KeyspaceBefore, TablesTypes
  <2>2. k \in Keys
    BY <2>1 DEF Waiting
  <2>3. serving = None /\ Range(server.ready_keys) = {}
    BY DEF Idle, Range
  <2> QED
    BY <2>2, <2>3 DEF KeyspaceInv, BlockOK, WakeOK, Waits
<1> QED
  BY <1>1, KeyspaceInvariant, PTL

\* touchWatchedKey, isWatchedKeyExpired: EXEC aborts if a watched key has changed
\* since WATCH, by a command, by its expiry or by its deletion.
THEOREM WatchedChangesAbort == Spec => []WatchedChangeAborts
<1>1. KeyspaceInv => WatchedChangeAborts
  BY DEF KeyspaceInv, TypeOK, WatchOK, WatchedChangeAborts, ExecAborts
<1> QED
  BY <1>1, KeyspaceInvariant, PTL

-----------------------------------------------------------------------------
(* The order in which clients are served.                                  *)

\* Clients wait for the keys of their commands, and stand in the queues in the
\* order in which they began to wait.
OrderOK(S, e) ==
  /\ \A d, c \in Clients : <<d, c>> \in e => S.blocked[d] # None /\ S.blocked[c] # None
  /\ \A c \in Clients : S.blocked[c] # None => OwnKeys(S.blocked[c])
  /\ \A d, c \in Clients, k \in Keys :
       <<d, c>> \in e /\ Waits(S, d, k) /\ Waits(S, c, k) => Before(S.blocking_keys[k], d, c)

\* While the key being served holds a list, whoever waits for it since before a
\* client still to be visited is visited before that client.
TurnOK(S, sv, e) ==
  sv # None /\ HoldsList(S, sv.key) =>
    \A d \in Clients, c \in Range(sv.clients) :
      <<d, c>> \in e /\ Waits(S, d, sv.key) => Before(sv.clients, d, c)

OrderInv == OrderOK(server, earlier) /\ TurnOK(server, serving, earlier)

\* A step in which nobody is overtaken.
InTurn ==
  \A c \in Clients, k \in Keys : Overtakes(c, k) => \E i, j \in server.blocked[c].keys : i # j

\* The pairs that are remembered after a step from S to T.
Later(S, T, e) ==
  {p \in Clients \X Clients :
     /\ T.blocked[p[1]] # None /\ T.blocked[p[2]] # None
     /\ p \in e \/ (S.blocked[p[1]] # None /\ S.blocked[p[2]] = None)}

\* Queues that keep their order agree with what is remembered.
LEMMA OrderStep ==
  ASSUME NEW S, NEW T, NEW e, OrderOK(S, e), QueueKeeps(S, T)
  PROVE  OrderOK(T, Later(S, T, e))
<1>1. \A d, c \in Clients : <<d, c>> \in Later(S, T, e) <=>
        /\ T.blocked[d] # None /\ T.blocked[c] # None
        /\ <<d, c>> \in e \/ (S.blocked[d] # None /\ S.blocked[c] = None)
  BY DEF Later
<1>2. \A c \in Clients : T.blocked[c] # None => OwnKeys(T.blocked[c])
  BY DEF OrderOK, QueueKeeps
<1>3. ASSUME NEW d \in Clients, NEW c \in Clients, NEW k \in Keys, <<d, c>> \in Later(S, T, e),
             Waits(T, d, k), Waits(T, c, k)
      PROVE  Before(T.blocking_keys[k], d, c)
  <2>1. CASE <<d, c>> \in e
    <3>1. S.blocked[d] # None /\ S.blocked[c] # None
      BY <2>1, SMTT(30) DEF OrderOK
    <3>2. T.blocked[d] = S.blocked[d] /\ T.blocked[c] = S.blocked[c]
      BY <1>3, <3>1, SMTT(30) DEF QueueKeeps, Waits
    <3>3. Before(S.blocking_keys[k], d, c)
      BY <1>3, <2>1, <3>2, SMTT(30) DEF OrderOK, Waits
    <3> QED
      BY <1>3, <3>1, <3>3 DEF QueueKeeps
  <2>2. CASE S.blocked[d] # None /\ S.blocked[c] = None
    BY <1>3, <2>2 DEF QueueKeeps
  <2> QED
    BY <1>1, <1>3, <2>1, <2>2, SMTT(30)
<1> QED
  BY <1>1, <1>2, <1>3, Zenon DEF OrderOK

\* What agrees with the queues goes on doing so if less is remembered.
LEMMA OrderFewer ==
  ASSUME NEW S, NEW e, NEW f, OrderOK(S, e), f \subseteq e
  PROVE  OrderOK(S, f)
BY Zenon DEF OrderOK

\* A step in which no client is executed again.
LEMMA OrderObserved ==
  ASSUME OrderInv, NEW w, Observe(w), Receivers = {}, QueueKeeps(server, server')
  PROVE  earlier' \subseteq Later(server, server', earlier) /\ OrderOK(server', earlier')
<1>1. earlier' \subseteq Later(server, server', earlier)
  BY DEF Observe, Later
<1>2. OrderOK(server', Later(server, server', earlier))
  BY OrderStep DEF OrderInv
<1> QED
  BY <1>1, <1>2, OrderFewer

\* A step after which no key is being served, and in which nobody takes anything
\* or nobody stops waiting.
LEMMA OrderCase ==
  ASSUME KeyspaceInv, OrderInv, NEW w, Observe(w), Receivers = {},
         QueueKeeps(server, server'), serving' = None,
         \/ \A c \in Clients : server.blocked[c] # None => server'.blocked[c] # None
         \/ server'.db = server.db
  PROVE  OrderInv' /\ InTurn
<1>2. OrderOK(server', earlier')
  BY OrderObserved
<1>3. InTurn
  <2> SUFFICES ASSUME NEW c \in Clients, NEW k \in Keys, Overtakes(c, k) PROVE FALSE
    BY DEF InTurn
  <2>1. /\ server.blocked[c] # None /\ server'.blocked[c] = None /\ HoldsList(server, k)
        /\ server'.db[k] = None \/ server'.db[k].len < server.db[k].len
    BY SMTT(30) DEF Overtakes, TakesFrom
  <2>2. server.db[k] # None /\ server.db[k] \in Values
    BY <2>1, KeyspaceBefore, StoredValue DEF HoldsList
  <2>3. server.db[k].len \in Nat
    BY <2>2 DEF Values
  <2> QED
    BY <2>1, <2>2, <2>3
<1> QED
  BY <1>2, <1>3 DEF OrderInv, TurnOK

\* A step that leaves the queues alone, while no key is being served.
LEMMA OrderQuiet ==
  ASSUME KeyspaceInv, OrderInv, NEW w, Observe(w), Receivers = {}, Quiet(server, server'),
         serving' = None
  PROVE  OrderInv' /\ InTurn
<1>1. QueueKeeps(server, server')
  BY QuietKeeps
<1>2. \A c \in Clients : server.blocked[c] # None => server'.blocked[c] # None
  BY DEF Quiet
<1> QED
  BY <1>1, <1>2, OrderCase

\* Between two commands no client is executed again.
LEMMA IdleReceivers ==
  ASSUME serving = None PROVE Receivers = {}
BY DEF Receivers

\* Commands outside transactions.
LEMMA CommandOrder ==
  ASSUME KeyspaceInv, OrderInv, NEW c \in Clients, NEW cmd \in Commands[c], Command(c, cmd)
  PROVE  OrderInv' /\ InTurn
<1> DEFINE deny == FALSE
           R == call(server, c, cmd, deny)
<1>1. /\ server.blocked[c] = None /\ server' = R /\ serving' = None /\ Observe(watching)
      /\ deny \in BOOLEAN /\ Receivers = {}
  BY IdleReceivers DEF Command, MayCommand, Idle
<1>2. cmd \in Cmds /\ Good(server) /\ QueuesOK(server)
  BY KeyspaceAssumption, KeyspaceBefore DEF BlockOK
<1> HIDE DEF deny
<1>3. QueueKeeps(server, R) /\ \A d \in Clients \ {c} : R.blocked[d] = server.blocked[d]
  BY <1>1, <1>2, CallKeeps, Zenon
<1> HIDE DEF R
<1> QED
  BY <1>1, <1>3, OrderCase

\* Transactions: the queued commands never block.
LEMMA TransactionOrder ==
  ASSUME KeyspaceInv, OrderInv, NEW c \in Clients,
         \/ multiCommand(c) \/ flagTransaction(c) \/ discardCommand(c) \/ unwatchCommand(c)
         \/ execCommand(c) \/ (\E k \in Keys : watchCommand(c, k))
         \/ (\E cmd \in Cmds : queueMultiCommand(c, cmd))
  PROVE  OrderInv' /\ InTurn
<1>1. Good(server) /\ client[c].mstate \in Seq(Cmds)
  BY KeyspaceBefore
<1>2. serving = None /\ serving' = None /\ \E w : Observe(w)
  BY Zenon DEF multiCommand, flagTransaction, discardCommand, unwatchCommand, execCommand,
         watchCommand, queueMultiCommand, MayCommand, Idle
<1>3. Quiet(server, discardTransaction(server, c))
  <2>1. Unwatched(server, discardTransaction(server, c), c, server.dirty_cas \ {c})
    BY <1>1, DiscardWatch, Zenon
  <2> QED
    BY <2>1, Zenon DEF Unwatched, Quiet
<1>4. Quiet(server, server')
  <2>1. CASE multiCommand(c) \/ flagTransaction(c) \/ \E cmd \in Cmds : queueMultiCommand(c, cmd)
    BY <2>1 DEF multiCommand, flagTransaction, queueMultiCommand, Quiet
  <2>2. CASE discardCommand(c) \/ unwatchCommand(c)
    <3>1. server' = discardTransaction(server, c)
      BY <2>2 DEF discardCommand, unwatchCommand, discardTransaction
    <3> QED
      BY <1>3, <3>1
  <2>3. CASE \E k \in Keys : watchCommand(c, k)
    <3>1. PICK k \in Keys : watchCommand(c, k)
      BY <2>3
    <3> DEFINE T == watchForKey(server, c, k)
    <3>2. T.blocked = server.blocked /\ T.blocking_keys = server.blocking_keys
      BY <1>1, WatchForKeyWatch, ZenonT(30)
    <3>3. server' = server \/ server' = T
      BY <3>1 DEF watchCommand
    <3> QED
      BY <3>2, <3>3 DEF Quiet
  <2>4. CASE execCommand(c)
    <3> DEFINE S == unwatchAllKeys(server, c)
               R == RunQueued(S, c, client[c].mstate)
               T == discardTransaction(R, c)
    <3>1. server' = discardTransaction(server, c) \/ server' = T
      BY <2>4 DEF execCommand
    <3>2. WatchStep(server, S, {c}) /\ Unwatched(server, S, c, server.dirty_cas)
      BY <1>1, UnwatchWatch
    <3>3. Good(S) /\ Quiet(server, S)
      BY <3>2, Zenon DEF WatchStep, Unwatched, Quiet
    <3> HIDE DEF S
    <3>4. Runs(S, R)
      BY <1>1, <3>3, QueuedRuns
    <3> HIDE DEF R
    <3>5. Good(R) /\ Quiet(S, R)
      BY <3>3, <3>4, RunsGood, Zenon DEF Runs, Pending, Quiet
    <3>6. Unwatched(R, T, c, R.dirty_cas \ {c})
      BY <3>5, DiscardWatch, ZenonT(30)
    <3> HIDE DEF T
    <3>7. Quiet(server, T)
      BY <3>3, <3>5, <3>6 DEF Unwatched, Quiet
    <3> QED
      BY <1>3, <3>1, <3>7
  <2> QED
    BY <2>1, <2>2, <2>3, <2>4, SMTT(30)
<1> QED
  BY <1>2, <1>4, IdleReceivers, OrderQuiet

\* Clients leave: by themselves, or when the time they wait is over.
LEMMA LeaveOrder ==
  ASSUME KeyspaceInv, OrderInv, NEW c \in Clients, freeClient(c) \/ unblockClientOnTimeout(c)
  PROVE  OrderInv' /\ InTurn
<1> DEFINE T == unblockClient(server, c)
<1>1. /\ serving' = None /\ Idle /\ Receivers = {} /\ \E w : Observe(w)
      /\ server' = T \/ server' = discardTransaction(T, c)
  BY IdleReceivers DEF freeClient, unblockClientOnTimeout, Idle
<1>2. QueueKeeps(server, T) /\ T.db = server.db
  BY KeyspaceBefore, UnblockKeeps, Zenon DEF BlockOK
<1>3. WatchStep(server, T, {})
  BY <1>1, UnblockIdle, Zenon
<1>4. Good(T)
  BY <1>3 DEF WatchStep
<1> HIDE DEF T
<1>5. Unwatched(T, discardTransaction(T, c), c, T.dirty_cas \ {c})
  BY <1>4, DiscardWatch, ZenonT(30)
<1>6. Quiet(T, server') /\ server'.db = T.db
  BY <1>1, <1>5 DEF Unwatched, Quiet
<1>7. QueueKeeps(server, server') /\ server'.db = server.db
  BY <1>2, <1>6, KeepsQuiet
<1> QED
  BY <1>1, <1>7, OrderCase, ZenonT(30)

\* The clock and the expire cycle leave the queues alone.
LEMMA ExpireOrder ==
  ASSUME KeyspaceInv, OrderInv, NEW k \in Keys, Expire(k) \/ activeExpireCycleTryExpire(k)
  PROVE  OrderInv' /\ InTurn
<1>1. CASE activeExpireCycleTryExpire(k)
  <2>1. /\ server' = signalModifiedKey(dbDelete(server, k), k)
        /\ serving' = None /\ Observe(watching) /\ Receivers = {}
    BY <1>1, IdleReceivers DEF activeExpireCycleTryExpire, deleteExpiredKeyAndPropagate, Idle
  <2>2. Runs(server, server')
    BY <2>1, KeyspaceBefore, DeleteRuns, ZenonT(30)
  <2>3. Quiet(server, server')
    BY <2>2 DEF Runs, Pending, Quiet
  <2> QED
    BY <2>1, <2>3, OrderQuiet
<1>2. CASE Expire(k)
  <2>1. /\ {k} \in SUBSET Mortal(server) /\ server' = Elapsed(server, {k})
        /\ serving' = None /\ Observe(watching) /\ Receivers = {}
    BY <1>2, IdleReceivers, SMTT(30) DEF Expire, Idle
  <2>2. Quiet(server, server')
    BY <2>1, ElapsedInv DEF Quiet
  <2> QED
    BY <2>1, <2>2, OrderQuiet
<1> QED
  BY <1>1, <1>2

\* The waiters of the next key are visited in the order of its queue.
LEMMA NextKeyOrder ==
  ASSUME KeyspaceInv, OrderInv, handleClientsBlockedOnKeys
  PROVE  OrderInv' /\ InTurn
<1> DEFINE k == Head(server.ready_keys)
           q == server.blocking_keys[k]
           t == Tail(server.ready_keys)
<1>1. /\ serving' = [key |-> k, clients |-> q] /\ server.ready_keys # <<>> /\ Observe(watching)
      /\ server' = [server EXCEPT !.ready_keys = t] /\ Receivers = {}
  BY IdleReceivers, SMTT(30) DEF handleClientsBlockedOnKeys
<1>2. /\ server.ready_keys \in Seq(Keys) /\ server \in Tables /\ QueuesOK(server)
      /\ server.blocking_keys \in [Keys -> Seq(Clients)]
  BY KeyspaceBefore, TablesTypes DEF BlockOK
<1>3. k \in Keys
  BY <1>1, <1>2, HeadTailSet
<1>4. q \in Seq(Clients) /\ Range(q) \subseteq Clients
  BY <1>2, <1>3 DEF Range
<1> HIDE DEF k, t
<1>5. server'.blocked = server.blocked /\ server'.blocking_keys = server.blocking_keys
  BY <1>1, <1>2 DEF Tables
<1>6. QueueKeeps(server, server')
  BY <1>5, QuietKeeps, Zenon DEF Quiet
<1>7. OrderOK(server', earlier')
  BY <1>1, <1>6, OrderObserved
<1>8. \A c \in Range(q) : Waits(server', c, k)
  BY <1>2, <1>3, <1>4, <1>5, SMTT(30) DEF QueuesOK, Waits
<1>9. \A d \in Clients, c \in Range(q) : <<d, c>> \in earlier' /\ Waits(server', d, k) =>
        Before(q, d, c)
  BY <1>3, <1>4, <1>5, <1>7, <1>8 DEF OrderOK
<1>10. TurnOK(server', serving', earlier')
  BY <1>1, <1>9 DEF TurnOK
<1>11. InTurn
  BY <1>5 DEF InTurn, Overtakes, TakesFrom
<1> QED
  BY <1>7, <1>10, <1>11 DEF OrderInv

\* Behind the first of a queue the order is kept, and nobody is before the first.
LEMMA TailBefore ==
  ASSUME NEW q \in Seq(Clients), q # <<>>, IsInjective(q), NEW d
  PROVE  /\ ~Before(q, d, Head(q))
         /\ \A x : Before(q, d, x) /\ d # Head(q) => Before(Tail(q), d, x)
<1> DEFINE t == Tail(q)
           h == Head(q)
           n == Len(q)
<1>1. /\ n \in Nat /\ n > 0 /\ h = q[1] /\ \A i \in 1..(n - 1) : t[i] = q[i + 1]
      /\ DOMAIN q = 1..n /\ DOMAIN t = 1..(n - 1)
  OBVIOUS
<1>2. \A i, j \in 1..n : q[i] = q[j] => i = j
  BY <1>1 DEF IsInjective
<1> HIDE DEF t, h, n
<1>3. ~Before(q, d, h)
  BY <1>1, <1>2 DEF Before
<1>4. ASSUME NEW x, Before(q, d, x), d # h PROVE Before(t, d, x)
  <2>1. PICK i, j \in 1..n : i < j /\ q[i] = d /\ q[j] = x
    BY <1>1, <1>4 DEF Before
  <2>2. i # 1
    BY <1>1, <1>4, <2>1
  <2>3. /\ i - 1 \in 1..(n - 1) /\ j - 1 \in 1..(n - 1) /\ i - 1 < j - 1
        /\ (i - 1) + 1 = i /\ (j - 1) + 1 = j
    BY <1>1, <2>1, <2>2
  <2>4. t[i - 1] = d /\ t[j - 1] = x
    BY <1>1, <2>1, <2>3
  <2> QED
    BY <1>1, <2>3, <2>4, Zenon DEF Before
<1> QED
  BY <1>3, <1>4 DEF t, h

\* The client visited next is the first of those that remain.
LEMMA ServeOrder ==
  ASSUME KeyspaceInv, OrderInv, handleClientsBlockedOnKey
  PROVE  OrderInv' /\ InTurn
<1>1. /\ Good(server) /\ BlockOK(server, serving) /\ server \in Tables
      /\ serving \in Serving /\ serving # None /\ Observe(watching)
      /\ server.blocked \in [Clients -> Waiting \cup {None}]
  BY KeyspaceBefore, TablesTypes DEF handleClientsBlockedOnKey
<1> DEFINE q == serving.clients
           k == serving.key
           c == Head(q)
           t == Tail(q)
<1>2. CASE q = <<>>
  <2>1. serving' = None /\ Quiet(server, server') /\ Receivers = {}
    BY <1>2 DEF handleClientsBlockedOnKey, Quiet, Receivers
  <2> QED
    BY <1>1, <2>1, OrderQuiet
<1>3. CASE q # <<>>
  <2>1. /\ serving' = [serving EXCEPT !.clients = t]
        /\ HoldsList(server, k) =>
             \E K \in SUBSET Mortal(server) : server' = unblockClientOnKey(server, c, K)
        /\ ~HoldsList(server, k) => server' = server
    BY <1>3, SMTT(30) DEF handleClientsBlockedOnKey, ServeReceiver
  <2>2. q \in Seq(Clients) /\ k \in Keys /\ IsInjective(q) /\ \A d \in Range(q) : Waits(server, d, k)
    BY <1>1 DEF Serving, BlockOK, ServingOK
  <2>3. /\ c \in Clients /\ t \in Seq(Clients) /\ Range(q) = Range(t) \cup {c}
        /\ IsInjective(t) /\ c \notin Range(t)
    BY <1>3, <2>2, HeadTailSet, SMTT(30)
  <2>4. \A d : ~Before(q, d, c) /\ \A x : Before(q, d, x) /\ d # c => Before(t, d, x)
    BY <1>3, <2>2, TailBefore
  <2>5. serving'.key = k /\ serving'.clients = t /\ serving' # None
    BY <1>1, <2>1, <2>3, KeyspaceAssumption DEF Serving
  <2>6. Receivers = IF HoldsList(server, k) THEN {c} ELSE {}
    BY <1>1, <1>3 DEF Receivers
  <2> HIDE DEF c, t, q, k
  <2>7. CASE ~HoldsList(server, k)
    <3>1. server' = server /\ Quiet(server, server') /\ Receivers = {}
      BY <2>1, <2>6, <2>7, SMTT(30) DEF Quiet
    <3>2. OrderOK(server', earlier')
      BY <1>1, <3>1, QuietKeeps, OrderObserved
    <3>3. TurnOK(server', serving', earlier') /\ InTurn
      BY <2>5, <2>7, <3>1, Zenon DEF TurnOK, InTurn, Overtakes, TakesFrom
    <3> QED
      BY <3>2, <3>3 DEF OrderInv
  <2>8. CASE HoldsList(server, k)
    <3>1. PICK K \in SUBSET Mortal(server) : server' = unblockClientOnKey(server, c, K)
      BY <2>1, <2>8
    <3> DEFINE E == Elapsed(server, K)
               S == unblockClient(E, c)
               cmd == server.blocked[c].cmd
               deny == FALSE
               R == call(S, c, cmd, deny)
    <3>2. server' = R /\ deny \in BOOLEAN
      BY <3>1, SMTT(30) DEF unblockClientOnKey
    <3>3. /\ Good(E) /\ BlockOK(E, serving) /\ Quiet(server, E) /\ E \in Tables
      BY ElapsedInv DEF Quiet, Good
    <3> HIDE DEF E
    <3>4. server.blocked[c] # None /\ cmd \in Cmds /\ k \in server.blocked[c].keys
      <4>1. server.blocked[c] # None /\ k \in server.blocked[c].keys
        BY <2>2, <2>3 DEF Waits
      <4>2. server.blocked[c] \in Waiting
        BY <1>1, <2>3, <4>1
      <4> QED
        BY <4>1, <4>2 DEF Waiting
    <3> HIDE DEF cmd, deny
    <3>5. QueueKeeps(E, S) /\ S.blocked = [E.blocked EXCEPT ![c] = None]
      <4>1. E \in Tables /\ c \in Clients /\ QueuesOK(E)
        BY <2>3, <3>3, Zenon DEF BlockOK
      <4> QED
        BY ONLY <4>1, UnblockKeeps, Zenon
    <3>6. Good(S) /\ QueuesOK(S)
      <4> DEFINE sw == [serving EXCEPT !.clients = t]
      <4>1. sw.key = k /\ sw.clients = t /\ sw # None
        BY <2>1, <2>5, SMTT(30)
      <4> HIDE DEF sw
      <4>2. ServingOK(E, sw)
        BY <2>2, <2>3, <3>3, <4>1 DEF ServingOK, Waits, Quiet
      <4>3. \A d \in Clients \ {c}, j \in Keys :
              serving # None /\ serving.key = j /\ d \in Range(serving.clients) =>
                sw # None /\ sw.key = j /\ d \in Range(sw.clients)
        BY <2>3, <4>1 DEF q, k
      <4>4. sw # None => serving # None /\ c \notin Range(sw.clients)
        BY <1>1, <2>3, <4>1
      <4>5. /\ S \in Tables /\ BlockOK(S, sw) /\ S.blocked = [E.blocked EXCEPT ![c] = None]
            /\ S.db = E.db /\ S.watched_keys = E.watched_keys
            /\ S.dirty_cas = E.dirty_cas
            /\ S.ready_keys = E.ready_keys /\ S.silent = E.silent
        BY <2>3, <3>3, <4>2, <4>3, <4>4, UnblockBlock, Zenon
      <4> HIDE DEF S
      <4>6. WatchStep(E, S, {})
        BY <3>3, <4>5, SameWatch, SMTT(30)
      <4> QED
        BY <4>5, <4>6, Zenon DEF WatchStep, BlockOK
    <3> HIDE DEF S
    <3>7. S.blocked[c] = None /\ \A d \in Clients \ {c} : S.blocked[d] = server.blocked[d]
      BY <1>1, <2>3, <3>3, <3>5, SMTT(30) DEF Quiet
    <3>8. QueueKeeps(S, R) /\ \A d \in Clients \ {c} : R.blocked[d] = S.blocked[d]
      <4>1. /\ Good(S) /\ QueuesOK(S) /\ S.blocked[c] = None /\ c \in Clients
            /\ cmd \in Cmds /\ deny \in BOOLEAN
        BY <2>3, <3>2, <3>4, <3>6, <3>7
      <4> QED
        BY ONLY <4>1, CallKeeps, SMTT(30)
    <3> HIDE DEF R
    <3>9. \A d \in Clients \ {c} : server'.blocked[d] = server.blocked[d]
      BY <3>2, <3>7, <3>8
    <3>10. \A p \in earlier' :
             /\ p \in Clients \X Clients /\ p[1] # c
             /\ server'.blocked[p[1]] # None /\ server'.blocked[p[2]] # None
             /\ server.blocked[p[1]] # None
             /\ p \in earlier \/ server.blocked[p[2]] = None \/ p[2] = c
      BY <1>1, <2>6, <2>8, Zenon DEF Observe
    <3>11. OrderOK(server', earlier')
      <4> DEFINE e == Later(server, S, earlier)
                 f == Later(S, R, e)
      <4>1. QueueKeeps(server, S)
        BY <3>3, <3>5, Zenon DEF Quiet, QueueKeeps
      <4>2. OrderOK(S, e)
        BY <4>1, OrderStep DEF OrderInv
      <4> HIDE DEF e
      <4>3. OrderOK(R, f)
        BY <3>8, <4>2, OrderStep
      <4>4. earlier' \subseteq f
        <5> SUFFICES ASSUME NEW p \in earlier' PROVE p \in f
          BY SMTT(30)
        <5>1. /\ p \in Clients \X Clients /\ p[1] \in Clients /\ p[2] \in Clients
              /\ R.blocked[p[1]] # None /\ R.blocked[p[2]] # None /\ S.blocked[p[1]] # None
          BY <3>2, <3>7, <3>10
        <5>2. S.blocked[p[2]] # None => p \in earlier
          BY <3>7, <3>10, <5>1
        <5>3. S.blocked[p[2]] # None => p \in e
          BY <5>1, <5>2, SMTT(30) DEF e, Later
        <5> QED
          BY <5>1, <5>3 DEF Later
      <4> HIDE DEF f
      <4> QED
        BY <3>2, <4>3, <4>4, OrderFewer
    <3>12. TurnOK(server', serving', earlier')
      <4> SUFFICES ASSUME NEW d \in Clients, NEW x \in Range(t), <<d, x>> \in earlier',
                          Waits(server', d, k)
                   PROVE  Before(t, d, x)
        BY <2>5 DEF TurnOK
      <4>1. x \in Range(q) /\ x \in Clients /\ x # c
        <5>1. x \in Clients
          BY <2>3, SMTT(30) DEF Range
        <5> QED
          BY <2>3, <5>1
      <4>2. d # c /\ server'.blocked[d] = server.blocked[d] /\ server.blocked[x] # None
        BY <2>2, <3>9, <3>10, <4>1 DEF Waits
      <4>3. <<d, x>> \in earlier /\ Waits(server, d, k)
        BY <3>10, <4>1, <4>2, SMTT(30) DEF Waits
      <4>4. Before(q, d, x)
        BY <1>1, <2>8, <4>1, <4>3 DEF OrderInv, TurnOK, q, k
      <4> QED
        BY <2>4, <4>2, <4>4
    <3>13. InTurn
      <4> SUFFICES ASSUME NEW b \in Clients, NEW j \in Keys, Overtakes(b, j)
                   PROVE  \E i, l \in server.blocked[b].keys : i # l
        BY DEF InTurn
      <4>1. PICK d \in Clients : /\ <<d, b>> \in earlier /\ j \in server.blocked[d].keys
                                 /\ server'.blocked[d] # None
        BY SMTT(30) DEF Overtakes
      <4>2. b = c /\ j \in server.blocked[c].keys /\ server'.blocked[c] = None
        BY <3>9, SMTT(30) DEF Overtakes, TakesFrom
      <4>3. d # c /\ server.blocked[d] # None
        BY <3>9, <4>1, <4>2
      <4>4. j # k
        <5> SUFFICES ASSUME j = k PROVE FALSE
          BY SMTT(30)
        <5>1. Waits(server, d, k) /\ c \in Range(q)
          BY <2>3, <4>1, <4>3, SMTT(30) DEF Waits
        <5>2. Before(q, d, c)
          BY <1>1, <2>8, <4>1, <4>2, <5>1, Zenon DEF OrderInv, TurnOK, q, k
        <5> QED
          BY <2>4, <5>2
      <4> QED
        BY <3>4, <4>2, <4>4
    <3> QED
      BY <3>11, <3>12, <3>13 DEF OrderInv
  <2> QED
    BY <2>7, <2>8
<1> QED
  BY <1>2, <1>3

\* At the start nobody waits.
LEMMA OrderInit ==
  ASSUME Init
  PROVE  OrderInv
<1> DEFINE b == [c \in Clients |-> None]
<1>1. earlier = {} /\ serving = None /\ server.blocked = b
  BY DEF Init
<1>2. \A c \in Clients : b[c] = None
  OBVIOUS
<1> HIDE DEF b
<1> QED
  BY <1>1, <1>2, SMTT(30) DEF OrderInv, OrderOK, TurnOK

\* Every step keeps the order, and in none is a client overtaken.
LEMMA OrderNext ==
  ASSUME KeyspaceInv, OrderInv, [Next]_vars
  PROVE  OrderInv' /\ (UNCHANGED vars \/ InTurn)
<1>1. CASE UNCHANGED vars
  <2>1. server' = server /\ serving' = serving /\ earlier' = earlier
    BY <1>1 DEF vars
  <2> QED
    BY <1>1, <2>1 DEF OrderInv
<1>2. CASE \E c \in Clients : \/ freeClient(c) \/ unblockClientOnTimeout(c)
                              \/ \E cmd \in Commands[c] : Command(c, cmd)
  BY <1>2, LeaveOrder, CommandOrder
<1>3. CASE \E c \in Watchers : \/ multiCommand(c) \/ flagTransaction(c)
                               \/ discardCommand(c) \/ execCommand(c)
                               \/ unwatchCommand(c)
                               \/ \E k \in Keys : watchCommand(c, k)
                               \/ \E b \in Bodies[c] : \E cmd \in Range(b) :
                                    queueMultiCommand(c, cmd)
  <2>1. PICK c \in Clients :
             \/ multiCommand(c) \/ flagTransaction(c) \/ discardCommand(c) \/ execCommand(c)
             \/ unwatchCommand(c)
             \/ \E k \in Keys : watchCommand(c, k)
             \/ \E b \in Bodies[c] : \E cmd \in Range(b) : queueMultiCommand(c, cmd)
    BY <1>3, KeyspaceAssumption, Zenon
  <2>2. \A b \in Bodies[c] : Range(b) \subseteq Cmds
    BY KeyspaceAssumption, SMTT(30) DEF Range
  <2>3. \/ multiCommand(c) \/ flagTransaction(c) \/ discardCommand(c) \/ unwatchCommand(c)
        \/ execCommand(c) \/ (\E k \in Keys : watchCommand(c, k))
        \/ (\E cmd \in Cmds : queueMultiCommand(c, cmd))
    BY <2>1, <2>2
  <2> QED
    BY <2>3, TransactionOrder
<1>4. CASE handleClientsBlockedOnKeys \/ handleClientsBlockedOnKey
  BY <1>4, NextKeyOrder, ServeOrder
<1>5. CASE \E k \in Keys : Expire(k) \/ activeExpireCycleTryExpire(k)
  BY <1>5, ExpireOrder
<1> QED
  BY <1>1, <1>2, <1>3, <1>4, <1>5, Zenon DEF Next

\* FirstBlockedFirstServed, the order in which handleClientsBlockedOnKey serves the
\* clients that wait for a key: one that waits for that key only never overtakes
\* one that has waited without a break since before it began to.
THEOREM ServedInTurn == Spec => FirstBlockedFirstServed
<1>1. Init => KeyspaceInv /\ OrderInv
  BY KeyspaceInit, OrderInit
<1>2. KeyspaceInv /\ OrderInv /\ [Next]_vars => KeyspaceInv' /\ OrderInv'
  BY KeyspaceNext, OrderNext
<1>3. KeyspaceInv /\ OrderInv /\ [Next]_vars => [InTurn]_vars
  BY OrderNext
<1>4. Spec => [][InTurn]_vars
  BY <1>1, <1>2, <1>3, PTL DEF Spec
<1> QED
  BY <1>4 DEF FirstBlockedFirstServed, InTurn
=============================================================================
