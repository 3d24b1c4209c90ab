------------------------ MODULE KeyspaceTableProofs ------------------------
(***************************************************************************)
(* What the functions of Keyspace do to the tables of the server.  A       *)
(* command is a composition of them.  Pending says what such a composition *)
(* may have done so far; every command is shown to end with nothing        *)
(* pending.                                                                *)
(***************************************************************************)
EXTENDS Keyspace, WellFoundedInduction, TLAPS

-----------------------------------------------------------------------------
(* Natural numbers and sequences.                                          *)

\* A set of naturals has a least element.
LEMMA NatMin ==
  ASSUME NEW T \in SUBSET Nat, T # {}
  PROVE  Min(T) \in T /\ \A y \in T : Min(T) <= y
<1>1. IsWellFoundedOn(OpToRel(<, Nat), Nat)
  BY NatLessThanWellFounded, Zenon
<1>2. PICK x \in T : \A y \in T : ~(<<y, x>> \in OpToRel(<, Nat))
  BY <1>1, WFMin, Zenon
<1>3. \A y \in T : <<y, x>> \in OpToRel(<, Nat) <=> y < x
  BY DEF OpToRel
<1>4. \A y \in T : ~(y < x)
  BY <1>2, <1>3, Zenon
<1> HIDE DEF OpToRel
<1>5. \A y \in T : x <= y
  BY ONLY <1>4, T \in SUBSET Nat, x \in T
<1> QED
  BY <1>5, Zenon DEF Min

\* Induction, for a set instead of a predicate.
LEMMA SetInduction ==
  ASSUME NEW P \in SUBSET Nat, 0 \in P, \A n \in P : n + 1 \in P
  PROVE  P = Nat
<1> SUFFICES ASSUME P # Nat PROVE FALSE
  OBVIOUS
<1> DEFINE T == Nat \ P
<1>1. T \in SUBSET Nat /\ T # {}
  BY Zenon
<1>2. Min(T) \in T /\ \A y \in T : Min(T) <= y
  BY <1>1, NatMin
<1> DEFINE x == Min(T)
<1> HIDE DEF x
<1>3. x \in T /\ \A y \in T : x <= y
  BY <1>2 DEF x
<1>4. x - 1 \in Nat /\ x - 1 \notin T
  BY <1>3
<1> QED
  BY <1>3, <1>4

Watch == [client : Clients, expired : BOOLEAN]

\* A watch that loses its mark.
LEMMA PlainWatch ==
  ASSUME NEW w \in Watch
  PROVE  /\ w.client \in Clients
         /\ [w EXCEPT !.expired = FALSE] = [client |-> w.client, expired |-> FALSE]
         /\ [client |-> w.client, expired |-> FALSE] \in Watch
<1> DEFINE v == [w EXCEPT !.expired = FALSE]
<1>1. w.client \in Clients /\ v \in Watch /\ v.client = w.client /\ v.expired = FALSE
  BY Zenon DEF Watch
<1> HIDE DEF v
<1>2. v = [client |-> w.client, expired |-> FALSE]
  BY <1>1 DEF Watch
<1>3. [client |-> w.client, expired |-> FALSE] \in Watch
  BY <1>1 DEF Watch
<1> QED
  BY <1>1, <1>2, <1>3 DEF v

\* The elements of a longer sequence.
LEMMA AppendSet ==
  ASSUME NEW E, NEW s \in Seq(E), NEW e \in E
  PROVE  Append(s, e) \in Seq(E) /\ Range(Append(s, e)) = Range(s) \cup {e}
<1>1. /\ Append(s, e) \in Seq(E) /\ Len(Append(s, e)) = Len(s) + 1
      /\ DOMAIN Append(s, e) = 1..(Len(s) + 1) /\ DOMAIN s = 1..Len(s)
      /\ Append(s, e)[Len(s) + 1] = e
      /\ \A i \in 1..Len(s) : Append(s, e)[i] = s[i]
  OBVIOUS
<1>2. Range(Append(s, e)) \subseteq Range(s) \cup {e}
  BY <1>1 DEF Range
<1>3. \A i \in 1..Len(s) : s[i] \in Range(Append(s, e))
  <2> TAKE i \in 1..Len(s)
  <2>1. i \in DOMAIN Append(s, e) /\ Append(s, e)[i] = s[i]
    BY <1>1
  <2> QED
    BY <2>1 DEF Range
<1>4. e \in Range(Append(s, e))
  <2>1. Len(s) + 1 \in DOMAIN Append(s, e)
    BY <1>1
  <2> QED
    BY <1>1, <2>1 DEF Range
<1> QED
  BY <1>1, <1>2, <1>3, <1>4 DEF Range

\* What the list of watches is without those of some clients.
LEMMA WithoutSet ==
  ASSUME NEW W \in Seq(Watch), NEW C
  PROVE  /\ Without(W, C) \in Seq(Watch)
         /\ Range(Without(W, C)) = {w \in Range(W) : w.client \notin C}
<1> DEFINE n == Len(W)
           Step(x, i) == IF W[i].client \in C THEN x ELSE Append(x, W[i])
           Body(h, m) == [i \in 0..m |-> IF i = 0 THEN <<>> ELSE Step(h[i - 1], i)]
           f == CHOOSE f : f = Body(f, n)
           P == {m \in Nat : \E h : h = Body(h, m)}
           Upto(m) == {W[i] : i \in {j \in 1..m : W[j].client \notin C}}
           Q == {m \in Nat : m <= n => f[m] \in Seq(Watch) /\ Range(f[m]) = Upto(m)}
<1>1. Without(W, C) = f[n]
  BY DEF Without
<1>2. n \in Nat /\ \A i \in 1..n : W[i] \in Watch
  OBVIOUS
<1> HIDE DEF Step, n
<1>3. 0 \in P
  <2> DEFINE h == [i \in 0..0 |-> <<>>]
  <2>1. h = Body(h, 0)
    OBVIOUS
  <2> QED
    BY <2>1, Zenon
<1>4. \A m \in P : m + 1 \in P
  <2> SUFFICES ASSUME NEW m \in P PROVE m + 1 \in P
    BY Zenon
  <2>0. m \in Nat /\ m + 1 \in Nat
    OBVIOUS
  <2> PICK h : h = Body(h, m)
    BY Zenon
  <2> DEFINE last == Step(h[m], m + 1)
             g == [i \in 0..(m + 1) |-> IF i = m + 1 THEN last ELSE h[i]]
  <2>1. \A i \in 0..m : h[i] = IF i = 0 THEN <<>> ELSE Step(h[i - 1], i)
    BY Zenon
  <2>2. \A i \in 0..(m + 1) : g[i] = IF i = 0 THEN <<>> ELSE Step(g[i - 1], i)
    <3> SUFFICES ASSUME NEW i \in 0..(m + 1)
                 PROVE  g[i] = IF i = 0 THEN <<>> ELSE Step(g[i - 1], i)
      OBVIOUS
    <3> HIDE DEF P, Body
    <3>1. CASE i = m + 1
      <4>1. g[m] = h[m] /\ g[m + 1] = last
        BY <2>0
      <4>2. i # 0 /\ i - 1 = m
        BY <2>0, <3>1
      <4> QED
        BY <3>1, <4>1, <4>2
    <3>2. CASE i \in 0..m
      <4>1. g[i] = h[i] /\ (i # 0 => g[i - 1] = h[i - 1])
        BY <2>0, <3>2
      <4> QED
        BY <2>1, <3>2, <4>1
    <3> QED
      BY <2>0, <3>1, <3>2
  <2>3. g = Body(g, m + 1)
    BY ONLY <2>2
  <2> QED
    BY Zenon, <2>0, <2>3
<1>5. \E h : h = Body(h, n)
  <2>1. P = Nat
    <3> HIDE DEF P
    <3>1. P \in SUBSET Nat
      BY DEF P
    <3> QED
      BY <1>3, <1>4, <3>1, SetInduction
  <2> QED
    BY <1>2, <2>1, Zenon
<1>6. f = Body(f, n)
  BY <1>5, Zenon
<1> HIDE DEF f, P
<1>7. \A i \in 0..n : f[i] = IF i = 0 THEN <<>> ELSE Step(f[i - 1], i)
  BY <1>6, Zenon
<1> HIDE DEF Body
<1>8. f[0] = <<>> /\ \A m \in Nat : m + 1 <= n => f[m + 1] = Step(f[m], m + 1)
  BY ONLY <1>2, <1>7
<1>9. 0 \in Q
  <2>1. Range(<<>>) = {} /\ Upto(0) = {} /\ <<>> \in Seq(Watch)
    BY DEF Range
  <2> HIDE DEF Upto
  <2> QED
    BY <1>8, <2>1, Zenon
<1>10. \A m \in Q : m + 1 \in Q
  <2> SUFFICES ASSUME NEW m \in Nat, m + 1 <= n, f[m] \in Seq(Watch), Range(f[m]) = Upto(m)
               PROVE  f[m + 1] \in Seq(Watch) /\ Range(f[m + 1]) = Upto(m + 1)
    <3> HIDE DEF Upto
    <3> QED
      BY <1>2
  <2>1. f[m + 1] = IF W[m + 1].client \in C THEN f[m] ELSE Append(f[m], W[m + 1])
    BY <1>8 DEF Step
  <2>2. W[m + 1] \in Watch
    BY <1>2
  <2>3. 1..(m + 1) = (1..m) \cup {m + 1}
    OBVIOUS
  <2>4. CASE W[m + 1].client \in C
    <3>1. Upto(m + 1) = Upto(m)
      BY <2>3, <2>4
    <3> QED
      BY <2>1, <2>4, <3>1
  <2>5. CASE W[m + 1].client \notin C
    <3>1. f[m + 1] \in Seq(Watch) /\ Range(f[m + 1]) = Range(f[m]) \cup {W[m + 1]}
      BY <2>1, <2>2, <2>5, AppendSet
    <3>2. Upto(m + 1) = Upto(m) \cup {W[m + 1]}
      BY <2>3, <2>5
    <3> QED
      BY <3>1, <3>2, Zenon
  <2> QED
    BY <2>4, <2>5
<1>11. n \in Q
  <2> HIDE DEF Q
  <2>1. Q \in SUBSET Nat
    BY DEF Q
  <2> QED
    BY <1>2, <1>9, <1>10, <2>1, SetInduction, Zenon
<1>12. f[n] \in Seq(Watch) /\ Range(f[n]) = Upto(n)
  BY <1>2, <1>11
<1>13. Upto(n) = {w \in Range(W) : w.client \notin C}
  BY DEF Range, n
<1> QED
  BY <1>1, <1>12, <1>13

\* x stands before y in s.
Before(s, x, y) == \E i, j \in DOMAIN s : i < j /\ s[i] = x /\ s[j] = y

\* The queue of a key without one of its clients; the others keep their order.
LEMMA ReleasedSet ==
  ASSUME NEW q \in Seq(Clients), IsInjective(q), NEW c
  PROVE  /\ releaseBlockedEntry(q, c) \in Seq(Clients) /\ IsInjective(releaseBlockedEntry(q, c))
         /\ Range(releaseBlockedEntry(q, c)) = Range(q) \ {c}
         /\ \A x, y : x # c /\ y # c /\ Before(q, x, y) => Before(releaseBlockedEntry(q, c), x, y)
<1>1. CASE c \notin Range(q)
  BY <1>1 DEF releaseBlockedEntry
<1>2. CASE c \in Range(q)
  <2> DEFINE I == {i \in 1..Len(q) : q[i] = c}
             m == Min(I)
             s == SubSeq(q, 1, m - 1) \o SubSeq(q, m + 1, Len(q))
  <2>1. I \in SUBSET Nat /\ I # {}
    BY <1>2 DEF Range
  <2>2. m \in 1..Len(q) /\ q[m] = c
    BY <2>1, NatMin, Zenon
  <2>3. releaseBlockedEntry(q, c) = s
    BY <1>2, Zenon DEF releaseBlockedEntry
  <2> HIDE DEF m
  <2>4. /\ s \in Seq(Clients) /\ Len(s) = Len(q) - 1
        /\ \A i \in 1..(Len(q) - 1) : s[i] = IF i < m THEN q[i] ELSE q[i + 1]
    <3> DEFINE u == SubSeq(q, 1, m - 1)
               v == SubSeq(q, m + 1, Len(q))
    <3>1. /\ u \in Seq(Clients) /\ Len(u) = m - 1 /\ \A i \in 1..(m - 1) : u[i] = q[i]
      BY <2>2
    <3>2. /\ v \in Seq(Clients) /\ Len(v) = Len(q) - m
          /\ \A i \in 1..(Len(q) - m) : v[i] = q[m + i]
      BY <2>2
    <3> HIDE DEF u, v
    <3>3. /\ u \o v \in Seq(Clients) /\ Len(u \o v) = Len(u) + Len(v)
          /\ \A i \in 1..(Len(u) + Len(v)) : (u \o v)[i] = IF i <= Len(u) THEN u[i] ELSE v[i - Len(u)]
      <4>1. u \in Seq(Clients) /\ v \in Seq(Clients)
        BY <3>1, <3>2
      <4> QED
        BY ONLY <4>1
    <3>4. Len(u) + Len(v) = Len(q) - 1
      BY <2>2, <3>1, <3>2
    <3>5. \A i \in 1..(Len(q) - 1) : (u \o v)[i] = IF i < m THEN q[i] ELSE q[i + 1]
      <4> TAKE i \in 1..(Len(q) - 1)
      <4>1. CASE i < m
        BY <2>2, <3>1, <3>3, <3>4, <4>1
      <4>2. CASE ~(i < m)
        <5>1. i - (m - 1) \in 1..(Len(q) - m) /\ m + (i - (m - 1)) = i + 1 /\ ~(i <= m - 1)
          BY <2>2, <4>2
        <5>2. (u \o v)[i] = v[i - (m - 1)]
          BY <3>1, <3>3, <3>4, <5>1
        <5>3. v[i - (m - 1)] = q[m + (i - (m - 1))]
          BY <3>2, <5>1
        <5> QED
          BY <4>2, <5>1, <5>2, <5>3
      <4> QED
        BY <4>1, <4>2, Zenon
    <3> QED
      BY <3>3, <3>4, <3>5, Zenon DEF u, v
  <2> HIDE DEF s
  <2>5. DOMAIN s = 1..(Len(q) - 1) /\ DOMAIN q = 1..Len(q)
    BY <2>4
  <2>6. IsInjective(s)
    <3> SUFFICES ASSUME NEW i \in DOMAIN s, NEW j \in DOMAIN s, s[i] = s[j] PROVE i = j
      BY DEF IsInjective
    <3> DEFINE at(x) == IF x < m THEN x ELSE x + 1
    <3>1. /\ at(i) \in DOMAIN q /\ at(j) \in DOMAIN q /\ q[at(i)] = s[i] /\ q[at(j)] = s[j]
      BY <2>2, <2>4, <2>5
    <3>2. at(i) = at(j)
      BY <3>1 DEF IsInjective
    <3> QED
      BY <2>2, <2>5, <3>2
  <2>7. \A x, y : x # c /\ y # c /\ Before(q, x, y) => Before(s, x, y)
    <3> SUFFICES ASSUME NEW i \in DOMAIN q, NEW j \in DOMAIN q, i < j, q[i] # c, q[j] # c
                 PROVE  Before(s, q[i], q[j])
      BY DEF Before
    <3> DEFINE at(x) == IF x < m THEN x ELSE x - 1
    <3>1. i # m /\ j # m /\ i \in 1..Len(q) /\ j \in 1..Len(q) /\ m \in 1..Len(q) /\ Len(q) \in Nat
      BY <2>2, <2>5
    <3>2. at(i) \in 1..(Len(q) - 1) /\ at(j) \in 1..(Len(q) - 1) /\ at(i) < at(j)
      BY <3>1
    <3>3. \A x \in 1..Len(q) : x # m /\ at(x) \in 1..(Len(q) - 1) => s[at(x)] = q[x]
      <4> SUFFICES ASSUME NEW x \in 1..Len(q), x # m, at(x) \in 1..(Len(q) - 1)
                   PROVE  s[at(x)] = q[x]
        OBVIOUS
      <4>1. s[at(x)] = IF at(x) < m THEN q[at(x)] ELSE q[at(x) + 1]
        BY <2>4
      <4>2. IF x < m THEN at(x) = x ELSE ~(at(x) < m) /\ at(x) + 1 = x
        BY <3>1
      <4> HIDE DEF at
      <4> QED
        BY <4>1, <4>2
    <3> HIDE DEF at
    <3> QED
      BY <2>5, <3>1, <3>2, <3>3 DEF Before
  <2>8. Range(s) \subseteq Range(q) \ {c}
    <3> SUFFICES ASSUME NEW i \in DOMAIN s PROVE s[i] \in Range(q) \ {c}
      BY DEF Range
    <3> DEFINE x == IF i < m THEN i ELSE i + 1
    <3>1. x \in DOMAIN q /\ x # m /\ q[x] = s[i] /\ m \in DOMAIN q
      BY <2>2, <2>4, <2>5
    <3> QED
      BY <2>2, <3>1 DEF IsInjective, Range
  <2>9. Range(q) \ {c} \subseteq Range(s)
    <3> SUFFICES ASSUME NEW i \in DOMAIN q, q[i] # c PROVE q[i] \in Range(s)
      BY DEF Range
    <3> DEFINE x == IF i < m THEN i ELSE i - 1
    <3>1. x \in DOMAIN s /\ s[x] = q[i]
      BY <2>2, <2>4, <2>5
    <3> QED
      BY <3>1 DEF Range
  <2> QED
    BY <2>3, <2>4, <2>6, <2>7, <2>8, <2>9
<1> QED
  BY <1>1, <1>2

-----------------------------------------------------------------------------
(* What a command may have done to the tables.                             *)

Watched(S, c, k) == \E w \in Range(S.watched_keys[k]) : w.client = c

\* A watch of c that EXEC would find expired at k.
StaleAt(S, c, k) ==
  /\ keyIsExpired(S, k)
  /\ \E w \in Range(S.watched_keys[k]) : w.client = c /\ ~w.expired

\* A watch is marked as taken on an expired key only while that key is stored.
FlagsOK(S) ==
  \A k \in Keys : \A w \in Range(S.watched_keys[k]) : w.expired => keyIsExpired(S, k)

\* If the clients that wait for k were told of a list there, or were in S.
Told(S, T, k) ==
  HoldsList(T, k) /\ S.blocking_keys[k] # <<>> =>
    k \in T.silent \/ k \in Range(T.ready_keys) \/ (HoldsList(S, k) /\ k \notin S.silent)

\* From S the functions called so far have made T, and the watchers of the keys
\* in K have not been touched since these were changed.
Pending(S, T, K) ==
  /\ T \in Tables
  /\ T.blocked = S.blocked /\ T.blocking_keys = S.blocking_keys
  /\ Range(S.ready_keys) \subseteq Range(T.ready_keys)
  /\ S.dirty_cas \subseteq T.dirty_cas
  /\ \A k \in Keys : \A w \in Range(T.watched_keys[k]) :
       w.expired => IF k \in K THEN keyIsExpired(S, k) ELSE keyIsExpired(T, k)
  /\ \A c \in Clients \ T.dirty_cas : \A k \in Keys : Watched(S, c, k) =>
       /\ Watched(T, c, k)
       /\ k \notin K => Logical(T, k) = Logical(S, k)
       /\ StaleAt(S, c, k) => /\ \E w \in Range(T.watched_keys[k]) : w.client = c /\ ~w.expired
                              /\ k \notin K => keyIsExpired(T, k)
  /\ \A k \in Keys : Told(S, T, k)

Good(S) == S \in Tables /\ FlagsOK(S)

Runs(S, T) == Pending(S, T, {})

\* The fields of the tables.
LEMMA TablesTypes ==
  ASSUME NEW S \in Tables
  PROVE  /\ S.db \in [Keys -> Values \cup {None}]
         /\ S.watched_keys \in [Keys -> Seq(Watch)]
         /\ S.blocking_keys \in [Keys -> Seq(Clients)] /\ S.ready_keys \in Seq(Keys)
         /\ S.blocked \in [Clients -> Waiting \cup {None}]
         /\ S.dirty_cas \in SUBSET Clients /\ S.silent \in SUBSET Keys
BY Zenon DEF Tables, Watch

\* Doing nothing.
LEMMA RunsSelf ==
  ASSUME NEW S, Good(S)
  PROVE  Runs(S, S)
BY DEF Good, FlagsOK, Runs, Pending, Told, StaleAt, Watched

\* The end of a run is a place to start another.
LEMMA RunsGood ==
  ASSUME NEW S, NEW T, Runs(S, T)
  PROVE  Good(T)
BY DEF Good, FlagsOK, Runs, Pending

\* One after the other.
LEMMA RunsTrans ==
  ASSUME NEW S, NEW T, NEW U, Runs(S, T), Runs(T, U)
  PROVE  Runs(S, U)
<1>1. /\ U \in Tables /\ U.blocked = S.blocked /\ U.blocking_keys = S.blocking_keys
      /\ Range(S.ready_keys) \subseteq Range(U.ready_keys)
      /\ S.dirty_cas \subseteq U.dirty_cas /\ T.dirty_cas \subseteq U.dirty_cas
      /\ \A k \in Keys : \A w \in Range(U.watched_keys[k]) : w.expired => keyIsExpired(U, k)
  BY DEF Runs, Pending
<1>2. \A c \in Clients \ U.dirty_cas : \A k \in Keys : Watched(S, c, k) =>
        /\ Watched(U, c, k) /\ Logical(U, k) = Logical(S, k)
        /\ StaleAt(S, c, k) => /\ \E w \in Range(U.watched_keys[k]) : w.client = c /\ ~w.expired
                               /\ keyIsExpired(U, k)
  <2> SUFFICES ASSUME NEW c \in Clients \ U.dirty_cas, NEW k \in Keys, Watched(S, c, k)
               PROVE  /\ Watched(U, c, k) /\ Logical(U, k) = Logical(S, k)
                      /\ StaleAt(S, c, k) =>
                           /\ \E w \in Range(U.watched_keys[k]) : w.client = c /\ ~w.expired
                           /\ keyIsExpired(U, k)
    OBVIOUS
  <2>1. c \in Clients \ T.dirty_cas
    BY <1>1
  <2>2. /\ Watched(T, c, k) /\ Logical(T, k) = Logical(S, k)
        /\ StaleAt(S, c, k) => StaleAt(T, c, k)
    BY <2>1 DEF Runs, Pending, StaleAt
  <2>3. /\ Watched(U, c, k) /\ Logical(U, k) = Logical(T, k)
        /\ StaleAt(T, c, k) => /\ \E w \in Range(U.watched_keys[k]) : w.client = c /\ ~w.expired
                               /\ keyIsExpired(U, k)
    BY <2>2 DEF Runs, Pending
  <2> QED
    BY <2>2, <2>3
<1>3. \A k \in Keys : Told(S, U, k)
  BY DEF Runs, Pending, Told
<1> QED
  BY <1>1, <1>2, <1>3 DEF Runs, Pending

\* T is S but for the value of k and for who has been told of it.
Write(S, T, k, v) ==
  /\ T \in Tables
  /\ T.watched_keys = S.watched_keys /\ T.dirty_cas = S.dirty_cas
  /\ T.blocked = S.blocked /\ T.blocking_keys = S.blocking_keys
  /\ Range(S.ready_keys) \subseteq Range(T.ready_keys)
  /\ T.db = [S.db EXCEPT ![k] = v]
  /\ \A j \in Keys \ {k} : j \in S.silent => j \in T.silent

\* A write whose watchers have not been touched yet.
LEMMA WritePending ==
  ASSUME NEW S, NEW T, NEW K, NEW k \in Keys, NEW v, NEW U,
         S \in Tables, Pending(S, T, K), Write(T, U, k, v),
         k \in K \/ T.db[k] = S.db[k], Told(S, U, k)
  PROVE  Pending(S, U, K \cup {k})
<1>1. T \in Tables /\ U \in Tables /\ T.db \in [Keys -> Values \cup {None}]
      /\ U.db = [T.db EXCEPT ![k] = v] /\ U.watched_keys = T.watched_keys
      /\ U.dirty_cas = T.dirty_cas
  BY TablesTypes DEF Pending, Write
<1>2. \A j \in Keys \ {k} : U.db[j] = T.db[j]
  BY <1>1
<1>3. \A j \in Keys \ {k} : /\ keyIsExpired(U, j) <=> keyIsExpired(T, j)
                            /\ Logical(U, j) = Logical(T, j)
                            /\ HoldsList(U, j) <=> HoldsList(T, j)
  BY <1>2 DEF keyIsExpired, Logical, HoldsList
<1>4. \A j \in Keys : \A w \in Range(U.watched_keys[j]) :
        w.expired => IF j \in K \cup {k} THEN keyIsExpired(S, j) ELSE keyIsExpired(U, j)
  <2>1. T.db[k] = S.db[k] => (keyIsExpired(T, k) <=> keyIsExpired(S, k))
    BY DEF keyIsExpired
  <2> QED
    BY <1>1, <1>3, <2>1 DEF Pending
<1>5. \A c \in Clients \ U.dirty_cas : \A j \in Keys : Watched(S, c, j) =>
       /\ Watched(U, c, j)
       /\ j \notin K \cup {k} => Logical(U, j) = Logical(S, j)
       /\ StaleAt(S, c, j) => /\ \E w \in Range(U.watched_keys[j]) : w.client = c /\ ~w.expired
                              /\ j \notin K \cup {k} => keyIsExpired(U, j)
  BY <1>1, <1>3 DEF Pending, Watched
<1>6. \A j \in Keys : Told(S, U, j)
  <2> SUFFICES ASSUME NEW j \in Keys \ {k} PROVE Told(S, U, j)
    OBVIOUS
  <2>1. Told(S, T, j)
    BY DEF Pending
  <2> QED
    BY <1>3, <2>1 DEF Told, Write
<1> QED
  BY <1>1, <1>4, <1>5, <1>6 DEF Pending, Write

\* touchWatchedKey reaches every watch of a key that is gone, or that none
\* was taken on while it was expired.
LEMMA TouchAll ==
  ASSUME NEW S \in Tables, NEW k \in Keys,
         S.db[k] = None \/ \A w \in Range(S.watched_keys[k]) : ~w.expired
  PROVE  LET R == touchWatchedKey(S, k)
             H == {w.client : w \in {x \in Range(S.watched_keys[k]) : ~x.expired}}
         IN /\ R \in Tables
            /\ R.db = S.db /\ R.blocking_keys = S.blocking_keys /\ R.ready_keys = S.ready_keys
            /\ R.blocked = S.blocked /\ R.silent = S.silent
            /\ R.dirty_cas = S.dirty_cas \cup H
            /\ \A j \in Keys \ {k} :
                 Range(R.watched_keys[j]) = {w \in Range(S.watched_keys[j]) : w.client \notin H}
            /\ Range(R.watched_keys[k]) =
                 {[client |-> w.client, expired |-> FALSE] :
                    w \in {x \in Range(S.watched_keys[k]) : x.client \notin H}}
<1> DEFINE W       == S.watched_keys[k]
           stops   == {i \in DOMAIN W : W[i].expired /\ S.db[k] # None}
           reached == {i \in DOMAIN W : \A j \in stops : i < j}
           hit     == {W[i].client : i \in {j \in reached : ~W[j].expired}}
           kept    == [i \in DOMAIN W |->
                        IF i \in reached THEN [W[i] EXCEPT !.expired = FALSE] ELSE W[i]]
           H       == {w.client : w \in {x \in Range(W) : ~x.expired}}
           plain   == [i \in 1..Len(W) |-> [client |-> W[i].client, expired |-> FALSE]]
           lists   == [S.watched_keys EXCEPT ![k] = plain]
           T       == [S EXCEPT !.watched_keys = lists, !.dirty_cas = S.dirty_cas \cup H]
           left    == [j \in Keys |-> Without(lists[j], H)]
           R       == [T EXCEPT !.watched_keys = left]
<1>1. W \in Seq(Watch) /\ DOMAIN W = 1..Len(W) /\ S.watched_keys \in [Keys -> Seq(Watch)]
  BY TablesTypes
<1>2. reached = DOMAIN W
  BY DEF Range
<1>3. hit = H
  BY <1>2 DEF Range
<1>4. kept = plain
  <2>1. \A i \in 1..Len(W) : [W[i] EXCEPT !.expired = FALSE] =
                             [client |-> W[i].client, expired |-> FALSE]
    <3> TAKE i \in 1..Len(W)
    <3>1. W[i] \in Watch
      BY <1>1
    <3> HIDE DEF W
    <3> QED
      BY <3>1, PlainWatch
  <2> QED
    BY <1>1, <1>2, <2>1
<1>5. touchWatchedKey(S, k) = R
  <2>1. touchWatchedKey(S, k) = UnwatchClients([S EXCEPT !.watched_keys[k] = kept,
                                                         !.dirty_cas = @ \cup hit], hit)
    BY DEF touchWatchedKey
  <2>2. [S EXCEPT !.watched_keys[k] = kept, !.dirty_cas = @ \cup hit] = T
    BY <1>3, <1>4, Zenon DEF Tables
  <2>3. T.watched_keys = lists
    BY DEF Tables
  <2> HIDE DEF T
  <2>4. UnwatchClients(T, H) = R
    BY <2>3 DEF UnwatchClients
  <2> QED
    BY <1>3, <2>1, <2>2, <2>4, Zenon
<1> HIDE DEF stops, reached, hit, kept
<1>6. plain \in Seq(Watch) /\ H \in SUBSET Clients
  <2> HIDE DEF W
  <2>0. \A i \in 1..Len(W) : W[i] \in Watch
    BY <1>1
  <2>1. \A i \in 1..Len(W) : [client |-> W[i].client, expired |-> FALSE] \in Watch
    BY <2>0, PlainWatch, Zenon
  <2>2. \A w \in Range(W) : w.client \in Clients
    BY <1>1, <2>0, PlainWatch, Zenon DEF Range
  <2> QED
    BY <1>1, <2>1, <2>2
<1>7. Range(plain) = {[client |-> w.client, expired |-> FALSE] : w \in Range(W)}
  BY <1>1, Zenon DEF Range
<1>8. lists \in [Keys -> Seq(Watch)] /\ lists[k] = plain
      /\ \A j \in Keys \ {k} : lists[j] = S.watched_keys[j]
  BY <1>1, <1>6
<1> HIDE DEF plain, lists, W, H
<1>9. \A j \in Keys : /\ Without(lists[j], H) \in Seq(Watch)
                      /\ Range(Without(lists[j], H)) = {w \in Range(lists[j]) : w.client \notin H}
  BY <1>8, WithoutSet
<1>10. left \in [Keys -> Seq(Watch)] /\ \A j \in Keys : left[j] = Without(lists[j], H)
  BY <1>9
<1> HIDE DEF left
<1>11. /\ R \in Tables
       /\ R.db = S.db /\ R.blocking_keys = S.blocking_keys /\ R.ready_keys = S.ready_keys
       /\ R.blocked = S.blocked /\ R.silent = S.silent
       /\ R.dirty_cas = S.dirty_cas \cup H /\ R.watched_keys = left
  BY <1>6, <1>10, Zenon DEF Tables, Watch
<1> HIDE DEF R
<1>12. \A j \in Keys \ {k} :
         Range(R.watched_keys[j]) = {w \in Range(S.watched_keys[j]) : w.client \notin H}
  BY <1>8, <1>9, <1>10, <1>11
<1>13. Range(R.watched_keys[k]) =
         {[client |-> w.client, expired |-> FALSE] : w \in {x \in Range(W) : x.client \notin H}}
  <2>1. Range(R.watched_keys[k]) = {w \in Range(plain) : w.client \notin H}
    BY <1>8, <1>9, <1>10, <1>11
  <2> QED
    BY <1>7, <2>1
<1> QED
  BY <1>5, <1>11, <1>12, <1>13 DEF H, W

\* Touching the watchers of a key that was changed settles it.
LEMMA TouchPending ==
  ASSUME NEW S, NEW T, NEW K, NEW k \in K, k \in Keys, Pending(S, T, K),
         T.db[k] = None \/ ~keyIsExpired(S, k)
  PROVE  /\ Pending(S, signalModifiedKey(T, k), K \ {k})
         /\ signalModifiedKey(T, k).db = T.db
         /\ signalModifiedKey(T, k).silent = T.silent
<1> DEFINE R == touchWatchedKey(T, k)
           H == {w.client : w \in {x \in Range(T.watched_keys[k]) : ~x.expired}}
<1>1. T \in Tables /\ \A w \in Range(T.watched_keys[k]) : w.expired => keyIsExpired(S, k)
  BY DEF Pending
<1>2. /\ R \in Tables
      /\ R.db = T.db /\ R.blocking_keys = T.blocking_keys /\ R.ready_keys = T.ready_keys
      /\ R.blocked = T.blocked /\ R.silent = T.silent
      /\ R.dirty_cas = T.dirty_cas \cup H
      /\ \A j \in Keys \ {k} :
           Range(R.watched_keys[j]) = {w \in Range(T.watched_keys[j]) : w.client \notin H}
      /\ Range(R.watched_keys[k]) =
           {[client |-> w.client, expired |-> FALSE] :
              w \in {x \in Range(T.watched_keys[k]) : x.client \notin H}}
  BY <1>1, TouchAll
<1> HIDE DEF R
<1>3. \A j \in Keys : /\ keyIsExpired(R, j) <=> keyIsExpired(T, j)
                      /\ Logical(R, j) = Logical(T, j) /\ (HoldsList(R, j) <=> HoldsList(T, j))
  BY <1>2 DEF keyIsExpired, Logical, HoldsList
<1>4. \A j \in Keys : \A w \in Range(R.watched_keys[j]) :
        w.expired => IF j \in K \ {k} THEN keyIsExpired(S, j) ELSE keyIsExpired(R, j)
  <2> SUFFICES ASSUME NEW j \in Keys, NEW w \in Range(R.watched_keys[j]), w.expired
               PROVE  IF j \in K \ {k} THEN keyIsExpired(S, j) ELSE keyIsExpired(R, j)
    OBVIOUS
  <2>1. j # k
    BY <1>2
  <2>2. w \in Range(T.watched_keys[j])
    BY <1>2, <2>1
  <2> QED
    BY <1>3, <2>1, <2>2 DEF Pending
<1>5. \A c \in Clients \ R.dirty_cas : \A j \in Keys : Watched(S, c, j) =>
       /\ Watched(R, c, j)
       /\ j \notin K \ {k} => Logical(R, j) = Logical(S, j)
       /\ StaleAt(S, c, j) => /\ \E w \in Range(R.watched_keys[j]) : w.client = c /\ ~w.expired
                              /\ j \notin K \ {k} => keyIsExpired(R, j)
  <2> SUFFICES ASSUME NEW c \in Clients \ R.dirty_cas, NEW j \in Keys, Watched(S, c, j)
               PROVE  /\ Watched(R, c, j)
                      /\ j \notin K \ {k} => Logical(R, j) = Logical(S, j)
                      /\ StaleAt(S, c, j) =>
                           /\ \E w \in Range(R.watched_keys[j]) : w.client = c /\ ~w.expired
                           /\ j \notin K \ {k} => keyIsExpired(R, j)
    OBVIOUS
  <2>1. c \in Clients \ T.dirty_cas /\ c \notin H
    BY <1>2
  <2>2. /\ Watched(T, c, j)
        /\ j \notin K => Logical(T, j) = Logical(S, j)
        /\ StaleAt(S, c, j) => /\ \E w \in Range(T.watched_keys[j]) : w.client = c /\ ~w.expired
                               /\ j \notin K => keyIsExpired(T, j)
    BY <2>1 DEF Pending
  <2>3. CASE j # k
    <3>1. \A w \in Range(T.watched_keys[j]) : w.client = c => w \in Range(R.watched_keys[j])
      BY <1>2, <2>1, <2>3
    <3> QED
      BY <1>3, <2>2, <2>3, <3>1 DEF Watched
  <2>4. CASE j = k
    <3>1. PICK w \in Range(T.watched_keys[k]) : w.client = c
      BY <2>2, <2>4 DEF Watched
    <3>2. w.expired
      BY <2>1, <3>1
    <3>3. keyIsExpired(S, k) /\ T.db[k] = None
      BY <1>1, <3>1, <3>2
    <3>4. Logical(R, k) = Logical(S, k)
      BY <1>2, <3>3 DEF Logical
    <3>5. [client |-> c, expired |-> FALSE] \in Range(R.watched_keys[k])
      BY <1>2, <2>1, <3>1, Zenon
    <3>6. ~StaleAt(S, c, k)
      BY <2>1, <2>2, <2>4
    <3> QED
      BY <2>4, <3>4, <3>5, <3>6 DEF Watched
  <2> QED
    BY <2>3, <2>4
<1>6. \A j \in Keys : Told(S, R, j)
  BY <1>2, <1>3, SMTT(30) DEF Pending, Told
<1>7. Pending(S, R, K \ {k})
  BY <1>2, <1>4, <1>5, <1>6 DEF Pending
<1> QED
  BY <1>2, <1>7 DEF signalModifiedKey, R

-----------------------------------------------------------------------------
(* Values and the functions of db.c.                                       *)

\* The values commands make of values.
LEMMA ValueFacts ==
  /\ String \in Values /\ String.type = "string" /\ None \notin Values
  /\ \A n \in Nat : n > 0 => List(n) \in Values /\ List(n).type = "list"
  /\ \A v \in Values : v.len \in Nat /\ v.type \in {"list", "string"} /\ (v.type = "list" <=> v.len > 0)
<1>1. None \notin Values
  BY KeyspaceAssumption
<1>2. String \in Values /\ String.type = "string"
  BY DEF String, Values
<1>3. \A n \in Nat : n > 0 => List(n) \in Values /\ List(n).type = "list"
  BY DEF List, Values
<1>4. \A v \in Values : v.len \in Nat /\ v.type \in {"list", "string"} /\ (v.type = "list" <=> v.len > 0)
  BY DEF Values
<1> QED
  BY <1>1, <1>2, <1>3, <1>4

\* A list of another length, and a value with another TTL.
LEMMA ValueUpdates ==
  ASSUME NEW v \in Values
  PROVE  /\ v.type = "list" => \A n \in Nat : n > 0 =>
              /\ [v EXCEPT !.len = n] \in Values /\ [v EXCEPT !.len = n].type = "list"
              /\ [v EXCEPT !.len = n].ttl = v.ttl /\ [v EXCEPT !.len = n].len = n
         /\ \A t \in {"none", "live", "expired"} :
              /\ [v EXCEPT !.ttl = t] \in Values /\ [v EXCEPT !.ttl = t].type = v.type
              /\ [v EXCEPT !.ttl = t].ttl = t
BY DEF Values

\* dbDelete
LEMMA DbDeleteWrites ==
  ASSUME NEW S \in Tables, NEW k \in Keys
  PROVE  Write(S, dbDelete(S, k), k, None)
<1> DEFINE d == [S.db EXCEPT ![k] = None]
           T == [S EXCEPT !.db = d, !.silent = S.silent \ {k}]
<1>1. d \in [Keys -> Values \cup {None}] /\ S.silent \in SUBSET Keys
  BY TablesTypes
<1>2. dbDelete(S, k) = T
  BY DEF dbDelete, Tables
<1> HIDE DEF d
<1>3. /\ T \in Tables /\ T.db = d /\ T.silent = S.silent \ {k} /\ T.watched_keys = S.watched_keys
      /\ T.dirty_cas = S.dirty_cas /\ T.blocked = S.blocked
      /\ T.blocking_keys = S.blocking_keys /\ T.ready_keys = S.ready_keys
  BY <1>1, Zenon DEF Tables
<1> QED
  BY <1>2, <1>3 DEF Write, d

\* dbAdd tells those who wait.
LEMMA DbAddWrites ==
  ASSUME NEW S \in Tables, NEW k \in Keys, NEW v \in Values
  PROVE  /\ Write(S, dbAdd(S, k, v), k, v)
         /\ v.type = "list" /\ S.blocking_keys[k] # <<>> => k \in Range(dbAdd(S, k, v).ready_keys)
<1> DEFINE d == [S.db EXCEPT ![k] = v]
           X == [S EXCEPT !.db = d, !.silent = S.silent \ {k}]
           T == signalKeyAsReady(X, k, v.type)
<1>1. d \in [Keys -> Values \cup {None}] /\ S.silent \in SUBSET Keys
  BY TablesTypes
<1>2. dbAdd(S, k, v) = T
  BY DEF dbAdd, Tables
<1> HIDE DEF d
<1>3. /\ X \in Tables /\ X.db = d /\ X.silent = S.silent \ {k} /\ X.watched_keys = S.watched_keys
      /\ X.dirty_cas = S.dirty_cas /\ X.blocked = S.blocked
      /\ X.blocking_keys = S.blocking_keys /\ X.ready_keys = S.ready_keys
  BY <1>1, Zenon DEF Tables
<1> HIDE DEF X
<1>4. CASE /\ v.type = "list" /\ X.blocking_keys[k] # <<>>
           /\ \A i \in DOMAIN X.ready_keys : X.ready_keys[i] # k
  <2>1. T = [X EXCEPT !.ready_keys = Append(X.ready_keys, k)]
    BY <1>4 DEF signalKeyAsReady
  <2>2. X.ready_keys \in Seq(Keys)
    BY <1>3, TablesTypes
  <2>3. /\ Append(X.ready_keys, k) \in Seq(Keys)
        /\ Range(Append(X.ready_keys, k)) = Range(X.ready_keys) \cup {k}
    BY <2>2, AppendSet
  <2> HIDE DEF T
  <2>4. /\ T \in Tables /\ T.db = X.db /\ T.silent = X.silent /\ T.watched_keys = X.watched_keys
        /\ T.dirty_cas = X.dirty_cas /\ T.blocked = X.blocked
        /\ T.blocking_keys = X.blocking_keys /\ T.ready_keys = Append(X.ready_keys, k)
    BY <1>3, <2>1, <2>3, Zenon DEF Tables
  <2> QED
    BY <1>2, <1>3, <2>3, <2>4 DEF Write, d
<1>5. CASE ~(/\ v.type = "list" /\ X.blocking_keys[k] # <<>>
             /\ \A i \in DOMAIN X.ready_keys : X.ready_keys[i] # k)
  <2>1. T = X
    BY <1>5 DEF signalKeyAsReady
  <2>2. v.type = "list" /\ S.blocking_keys[k] # <<>> => k \in Range(X.ready_keys)
    BY <1>3, <1>5 DEF Range
  <2> QED
    BY <1>2, <1>3, <2>1, <2>2 DEF Write, d
<1> QED
  BY <1>4, <1>5

\* dbSetValue tells nobody.
LEMMA DbSetValueWrites ==
  ASSUME NEW S \in Tables, NEW k \in Keys, NEW v \in Values
  PROVE  /\ Write(S, dbSetValue(S, k, v), k, v)
         /\ k \in S.silent => k \in dbSetValue(S, k, v).silent
         /\ v.type = "list" /\ S.db[k].type # "list" => k \in dbSetValue(S, k, v).silent
<1> DEFINE d == [S.db EXCEPT ![k] = v]
           q == IF v.type = "list" /\ S.db[k].type # "list" THEN S.silent \cup {k} ELSE S.silent
           T == [S EXCEPT !.db = d, !.silent = q]
<1>1. d \in [Keys -> Values \cup {None}] /\ q \in SUBSET Keys
  BY TablesTypes
<1>2. dbSetValue(S, k, v) = T
  BY DEF dbSetValue, Tables
<1> HIDE DEF d, q
<1>3. /\ T \in Tables /\ T.db = d /\ T.silent = q /\ T.watched_keys = S.watched_keys
      /\ T.dirty_cas = S.dirty_cas /\ T.blocked = S.blocked
      /\ T.blocking_keys = S.blocking_keys /\ T.ready_keys = S.ready_keys
  BY <1>1, Zenon DEF Tables
<1> QED
  BY <1>2, <1>3 DEF Write, d, q

\* A value is changed where it is.
LEMMA InPlaceWrites ==
  ASSUME NEW S \in Tables, NEW k \in Keys, NEW v \in Values
  PROVE  LET T == [S EXCEPT !.db = [S.db EXCEPT ![k] = v]]
         IN Write(S, T, k, v) /\ T.silent = S.silent
<1> DEFINE d == [S.db EXCEPT ![k] = v]
           T == [S EXCEPT !.db = d]
<1>1. d \in [Keys -> Values \cup {None}]
  BY TablesTypes
<1> HIDE DEF d
<1>2. /\ T \in Tables /\ T.db = d /\ T.silent = S.silent /\ T.watched_keys = S.watched_keys
      /\ T.dirty_cas = S.dirty_cas /\ T.blocked = S.blocked
      /\ T.blocking_keys = S.blocking_keys /\ T.ready_keys = S.ready_keys
  BY <1>1, Zenon DEF Tables
<1> QED
  BY <1>2 DEF Write, d

\* A write followed by its signal.
LEMMA WriteSignals ==
  ASSUME NEW S, Good(S), NEW U, NEW k \in Keys, NEW v, Write(S, U, k, v), Told(S, U, k),
         v = None \/ ~keyIsExpired(S, k)
  PROVE  /\ Runs(S, signalModifiedKey(U, k))
         /\ signalModifiedKey(U, k).db = [S.db EXCEPT ![k] = v]
<1>1. S \in Tables /\ Pending(S, S, {})
  BY RunsSelf DEF Good, Runs
<1>2. Pending(S, U, {k})
  <2>1. Pending(S, U, {} \cup {k})
    BY <1>1, WritePending
  <2> QED
    BY <2>1
<1>3. U.db = [S.db EXCEPT ![k] = v] /\ U.db[k] = v
  BY <1>1, TablesTypes DEF Write
<1> DEFINE K == {k}
<1>4. k \in K /\ K \ {k} = {} /\ Pending(S, U, K) /\ (U.db[k] = None \/ ~keyIsExpired(S, k))
  BY <1>2, <1>3
<1> HIDE DEF K
<1>5. /\ Pending(S, signalModifiedKey(U, k), K \ {k})
      /\ signalModifiedKey(U, k).db = U.db
      /\ signalModifiedKey(U, k).silent = U.silent
  BY <1>4, TouchPending
<1> QED
  BY <1>3, <1>4, <1>5 DEF Runs

\* A key is deleted.
LEMMA DeleteRuns ==
  ASSUME NEW S, Good(S), NEW k \in Keys
  PROVE  /\ Runs(S, signalModifiedKey(dbDelete(S, k), k))
         /\ signalModifiedKey(dbDelete(S, k), k).db = [S.db EXCEPT ![k] = None]
<1>1. S \in Tables
  BY DEF Good
<1>2. Write(S, dbDelete(S, k), k, None)
  BY <1>1, DbDeleteWrites
<1>3. dbDelete(S, k).db[k] = None
  BY <1>1, <1>2, TablesTypes DEF Write
<1>4. Told(S, dbDelete(S, k), k)
  BY <1>3 DEF Told, HoldsList, keyIsExpired
<1> QED
  BY <1>2, <1>4, WriteSignals

\* A value is added.
LEMMA AddRuns ==
  ASSUME NEW S, Good(S), NEW k \in Keys, NEW v \in Values, ~keyIsExpired(S, k)
  PROVE  /\ Runs(S, signalModifiedKey(dbAdd(S, k, v), k))
         /\ signalModifiedKey(dbAdd(S, k, v), k).db = [S.db EXCEPT ![k] = v]
<1>1. S \in Tables
  BY DEF Good
<1>2. /\ Write(S, dbAdd(S, k, v), k, v)
      /\ v.type = "list" /\ S.blocking_keys[k] # <<>> => k \in Range(dbAdd(S, k, v).ready_keys)
  BY <1>1, DbAddWrites
<1>3. dbAdd(S, k, v).db[k] = v
  BY <1>1, <1>2, TablesTypes DEF Write
<1>4. Told(S, dbAdd(S, k, v), k)
  BY <1>2, <1>3 DEF Told, HoldsList
<1> QED
  BY <1>2, <1>4, WriteSignals

\* A value is changed where it is, a list remaining a list.
LEMMA InPlaceRuns ==
  ASSUME NEW S, Good(S), NEW k \in Keys, NEW v \in Values, ~keyIsExpired(S, k), S.db[k] # None,
         v.type = S.db[k].type
  PROVE  LET T == [S EXCEPT !.db = [S.db EXCEPT ![k] = v]]
         IN /\ Runs(S, signalModifiedKey(T, k))
            /\ signalModifiedKey(T, k).db = [S.db EXCEPT ![k] = v]
<1> DEFINE T == [S EXCEPT !.db = [S.db EXCEPT ![k] = v]]
<1>1. S \in Tables
  BY DEF Good
<1>2. Write(S, T, k, v) /\ T.silent = S.silent
  BY <1>1, InPlaceWrites
<1> HIDE DEF T
<1>3. T.db[k] = v
  BY <1>1, <1>2, TablesTypes DEF Write
<1>4. Told(S, T, k)
  BY <1>2, <1>3 DEF Told, HoldsList, keyIsExpired
<1>5. Runs(S, signalModifiedKey(T, k)) /\ signalModifiedKey(T, k).db = [S.db EXCEPT ![k] = v]
  BY <1>2, <1>4, WriteSignals
<1> QED
  BY <1>5 DEF T

\* Looking a key up deletes it when its time has passed.
LEMMA LookupRuns ==
  ASSUME NEW S, Good(S), NEW k \in Keys
  PROVE  LET T == lookupKeyWrite(S, k)
         IN /\ Runs(S, T) /\ Good(T) /\ ~keyIsExpired(T, k)
            /\ T.db = IF keyIsExpired(S, k) THEN [S.db EXCEPT ![k] = None] ELSE S.db
            /\ T = IF keyIsExpired(S, k) THEN deleteExpiredKeyAndPropagate(S, k) ELSE S
<1> DEFINE T == lookupKeyWrite(S, k)
<1>1. CASE keyIsExpired(S, k)
  <2>1. T = signalModifiedKey(dbDelete(S, k), k) /\ T = deleteExpiredKeyAndPropagate(S, k)
    BY <1>1 DEF lookupKeyWrite, expireIfNeeded, deleteExpiredKeyAndPropagate
  <2>2. Runs(S, T) /\ T.db = [S.db EXCEPT ![k] = None]
    BY <2>1, DeleteRuns, Zenon
  <2>3. T.db[k] = None
    BY <2>2, TablesTypes DEF Good
  <2> QED
    BY <1>1, <2>1, <2>2, <2>3, RunsGood DEF keyIsExpired
<1>2. CASE ~keyIsExpired(S, k)
  <2>1. T = S
    BY <1>2 DEF lookupKeyWrite, expireIfNeeded
  <2> QED
    BY <1>2, <2>1, RunsSelf
<1> QED
  BY <1>1, <1>2

-----------------------------------------------------------------------------
(* The commands.                                                           *)

\* The value of a key that is there.
LEMMA StoredValue ==
  ASSUME NEW S, Good(S), NEW k \in Keys
  PROVE  S.db[k] # None => S.db[k] \in Values
BY TablesTypes DEF Good

\* A list gets another length.
LEMMA ResizeRuns ==
  ASSUME NEW S, Good(S), NEW k \in Keys, HoldsList(S, k), NEW n \in Nat, n > 0
  PROVE  LET T == [S EXCEPT !.db[k].len = n]
         IN /\ Runs(S, signalModifiedKey(T, k))
            /\ HoldsList(signalModifiedKey(T, k), k)
            /\ \A j \in Keys \ {k} : signalModifiedKey(T, k).db[j] = S.db[j]
<1> DEFINE v == [S.db[k] EXCEPT !.len = n]
           d == [S.db EXCEPT ![k] = v]
           T == [S EXCEPT !.db = d]
           R == signalModifiedKey(T, k)
<1>1. S.db[k] \in Values /\ S.db[k].type = "list" /\ S.db[k] # None /\ ~keyIsExpired(S, k)
  BY StoredValue DEF HoldsList
<1>2. v \in Values /\ v.type = "list" /\ v.ttl = S.db[k].ttl
  BY <1>1, ValueUpdates, Zenon
<1>3. [S EXCEPT !.db[k].len = n] = T
  BY DEF Good, Tables
<1> HIDE DEF v
<1>4. Runs(S, R) /\ R.db = d
  BY <1>1, <1>2, InPlaceRuns
<1> HIDE DEF T, R
<1>5. S.db \in [Keys -> Values \cup {None}]
  BY TablesTypes DEF Good
<1>6. R.db[k] = v /\ \A j \in Keys \ {k} : R.db[j] = S.db[j]
  BY <1>4, <1>5
<1>7. HoldsList(R, k)
  BY <1>1, <1>2, <1>6, ValueFacts DEF HoldsList, keyIsExpired
<1> QED
  BY <1>3, <1>4, <1>6, <1>7, Zenon DEF R

\* LPUSH, RPUSH
LEMMA PushRuns ==
  ASSUME NEW S, Good(S), NEW k \in Keys
  PROVE  Runs(S, pushGenericCommand(S, k))
<1> DEFINE T == lookupKeyWrite(S, k)
           R == pushGenericCommand(S, k)
<1>1. Runs(S, T) /\ Good(T) /\ ~keyIsExpired(T, k)
  BY LookupRuns, Zenon
<1>2. T.db[k] # None => T.db[k] \in Values
  BY <1>1, StoredValue
<1> HIDE DEF T
<1>3. CASE T.db[k] = None
  <2>1. R = signalModifiedKey(dbAdd(T, k, List(1)), k)
    BY <1>3 DEF pushGenericCommand, T
  <2>2. List(1) \in Values
    BY ValueFacts
  <2>3. /\ Runs(T, signalModifiedKey(dbAdd(T, k, List(1)), k))
        /\ signalModifiedKey(dbAdd(T, k, List(1)), k).db = [T.db EXCEPT ![k] = List(1)]
    BY <1>1, <2>2, AddRuns
  <2> QED
    BY <1>1, <2>1, <2>3, RunsTrans
<1>4. CASE T.db[k] # None /\ T.db[k].type = "list"
  <2> DEFINE n == T.db[k].len + 1
  <2>1. R = signalModifiedKey([T EXCEPT !.db[k].len = n], k)
    BY <1>4 DEF pushGenericCommand, T
  <2>2. n \in Nat /\ n > 0 /\ HoldsList(T, k)
    BY <1>1, <1>2, <1>4, ValueFacts DEF HoldsList
  <2> HIDE DEF n
  <2>3. Runs(T, R)
    BY <1>1, <2>1, <2>2, ResizeRuns
  <2> QED
    BY <1>1, <2>3, RunsTrans
<1>5. CASE T.db[k] # None /\ T.db[k].type # "list"
  <2>1. R = T
    BY <1>5 DEF pushGenericCommand, T
  <2> QED
    BY <1>1, <2>1
<1> QED
  BY <1>3, <1>4, <1>5

\* One element less: an empty list is deleted.
LEMMA PopRuns ==
  ASSUME NEW S, Good(S), NEW k \in Keys, HoldsList(S, k)
  PROVE  Runs(S, PopElement(S, k))
<1>1. S.db[k] \in Values /\ S.db[k].type = "list" /\ S.db[k].len \in Nat /\ S.db[k].len > 0
  BY StoredValue, ValueFacts DEF HoldsList
<1>2. CASE S.db[k].len = 1
  <2>1. PopElement(S, k) = signalModifiedKey(dbDelete(S, k), k)
    BY <1>2 DEF PopElement
  <2> QED
    BY <2>1, DeleteRuns, Zenon
<1>3. CASE S.db[k].len # 1
  <2> DEFINE n == S.db[k].len - 1
  <2>1. PopElement(S, k) = signalModifiedKey([S EXCEPT !.db[k].len = n], k)
    BY <1>3 DEF PopElement
  <2>2. n \in Nat /\ n > 0
    BY <1>1, <1>3
  <2> HIDE DEF n
  <2> QED
    BY <2>1, <2>2, ResizeRuns
<1> QED
  BY <1>2, <1>3

\* The second half of a move comes first: the element is pushed.
LEMMA MovePushRuns ==
  ASSUME NEW S, Good(S), NEW k \in Keys, S.db[k] = None \/ HoldsList(S, k)
  PROVE  LET R == lmoveHandlePush(S, k)
         IN /\ Runs(S, R) /\ HoldsList(R, k)
            /\ \A j \in Keys \ {k} : R.db[j] = S.db[j]
<1> DEFINE R == lmoveHandlePush(S, k)
<1>1. CASE S.db[k] = None
  <2>1. R = signalModifiedKey(dbAdd(S, k, List(1)), k)
    BY <1>1 DEF lmoveHandlePush
  <2>2. List(1) \in Values /\ List(1).type = "list" /\ List(1).ttl = "none" /\ List(1) # None
    BY ValueFacts DEF List
  <2>3. ~keyIsExpired(S, k)
    BY <1>1 DEF keyIsExpired
  <2>4. Runs(S, R) /\ R.db = [S.db EXCEPT ![k] = List(1)]
    BY <2>1, <2>2, <2>3, AddRuns
  <2>5. S.db \in [Keys -> Values \cup {None}]
    BY TablesTypes DEF Good
  <2>6. R.db[k] = List(1) /\ \A j \in Keys \ {k} : R.db[j] = S.db[j]
    BY <2>4, <2>5
  <2>7. HoldsList(R, k)
    BY <2>2, <2>6 DEF HoldsList, keyIsExpired
  <2> QED
    BY <2>4, <2>6, <2>7
<1>2. CASE S.db[k] # None
  <2> DEFINE n == S.db[k].len + 1
  <2>1. R = signalModifiedKey([S EXCEPT !.db[k].len = n], k)
    BY <1>2 DEF lmoveHandlePush
  <2>2. n \in Nat /\ n > 0 /\ HoldsList(S, k)
    BY <1>2, StoredValue, ValueFacts
  <2> HIDE DEF n
  <2>3. /\ Runs(S, R) /\ HoldsList(R, k)
        /\ \A j \in Keys \ {k} : R.db[j] = S.db[j]
    BY <2>1, <2>2, ResizeRuns
  <2> QED
    BY <2>3
<1> QED
  BY <1>1, <1>2

\* LMOVE
LEMMA MoveRuns ==
  ASSUME NEW S, Good(S), NEW src \in Keys, NEW dst \in Keys, HoldsList(S, src)
  PROVE  Runs(S, lmoveGenericCommand(S, src, dst))
<1> DEFINE T == lookupKeyWrite(S, dst)
           M == lmoveHandlePush(T, dst)
           R == lmoveGenericCommand(S, src, dst)
<1>1. /\ Runs(S, T) /\ Good(T) /\ ~keyIsExpired(T, dst)
      /\ T.db = IF keyIsExpired(S, dst) THEN [S.db EXCEPT ![dst] = None] ELSE S.db
  BY LookupRuns
<1>2. S.db \in [Keys -> Values \cup {None}]
  BY TablesTypes DEF Good
<1>3. T.db[src] = S.db[src]
  BY <1>1, <1>2 DEF HoldsList
<1> HIDE DEF T
<1>4. CASE T.db[dst] # None /\ T.db[dst].type # "list"
  <2>1. R = T
    BY <1>4 DEF lmoveGenericCommand, T
  <2> QED
    BY <1>1, <2>1
<1>5. CASE ~(T.db[dst] # None /\ T.db[dst].type # "list")
  <2>1. R = PopElement(M, src)
    BY <1>5 DEF lmoveGenericCommand, T
  <2>2. T.db[dst] = None \/ HoldsList(T, dst)
    BY <1>1, <1>5 DEF HoldsList
  <2>3. /\ Runs(T, M) /\ HoldsList(M, dst) /\ \A j \in Keys \ {dst} : M.db[j] = T.db[j]
    BY <1>1, <2>2, MovePushRuns, Zenon
  <2> HIDE DEF M
  <2>4. HoldsList(M, src)
    BY <1>3, <2>3 DEF HoldsList, keyIsExpired
  <2>5. Good(M)
    BY <2>3, RunsGood
  <2>6. Runs(M, R)
    BY <2>1, <2>4, <2>5, PopRuns
  <2> QED
    BY <1>1, <2>3, <2>6, RunsTrans
<1> QED
  BY <1>4, <1>5

\* SET, and the end of SORT ... STORE
LEMMA SetKeyRuns ==
  ASSUME NEW S, Good(S), NEW k \in Keys, NEW v \in Values
  PROVE  Runs(S, setKey(S, k, v))
<1> DEFINE T == lookupKeyWrite(S, k)
           R == setKey(S, k, v)
           U == dbSetValue(T, k, v)
<1>1. Runs(S, T) /\ Good(T) /\ ~keyIsExpired(T, k)
  BY LookupRuns, Zenon
<1> HIDE DEF T
<1>2. CASE T.db[k] = None
  <2>1. R = signalModifiedKey(dbAdd(T, k, v), k)
    BY <1>2 DEF setKey, T
  <2>2. /\ Runs(T, signalModifiedKey(dbAdd(T, k, v), k))
        /\ signalModifiedKey(dbAdd(T, k, v), k).db = [T.db EXCEPT ![k] = v]
    BY <1>1, AddRuns
  <2> QED
    BY <1>1, <2>1, <2>2, RunsTrans
<1>3. CASE T.db[k] # None
  <2>1. R = signalModifiedKey(U, k)
    BY <1>3 DEF setKey, T
  <2>2. T \in Tables
    BY <1>1 DEF Good
  <2>3. /\ Write(T, U, k, v) /\ (k \in T.silent => k \in U.silent)
        /\ v.type = "list" /\ T.db[k].type # "list" => k \in U.silent
    BY <2>2, DbSetValueWrites
  <2> HIDE DEF U
  <2>4. U.db[k] = v
    BY <2>2, <2>3, TablesTypes DEF Write
  <2>5. Told(T, U, k)
    BY <1>1, <1>3, <2>3, <2>4 DEF Told, HoldsList
  <2>6. /\ Runs(T, signalModifiedKey(U, k))
        /\ signalModifiedKey(U, k).db = [T.db EXCEPT ![k] = v]
    BY <1>1, <2>3, <2>5, WriteSignals
  <2> QED
    BY <1>1, <2>1, <2>6, RunsTrans
<1> QED
  BY <1>2, <1>3

\* DEL
LEMMA DelRuns ==
  ASSUME NEW S, Good(S), NEW k \in Keys
  PROVE  Runs(S, delGenericCommand(S, k))
<1>1. CASE keyIsExpired(S, k)
  BY <1>1, LookupRuns, Zenon DEF delGenericCommand, lookupKeyWrite
<1>2. CASE ~keyIsExpired(S, k) /\ S.db[k] # None
  BY <1>2, DeleteRuns, Zenon DEF delGenericCommand
<1>3. CASE ~keyIsExpired(S, k) /\ S.db[k] = None
  BY <1>3, RunsSelf DEF delGenericCommand
<1> QED
  BY <1>1, <1>2, <1>3

\* SORT ... STORE
LEMMA SortRuns ==
  ASSUME NEW S, Good(S), NEW src \in Keys, NEW dst \in Keys
  PROVE  Runs(S, sortCommandGeneric(S, src, dst))
<1> DEFINE T == expireIfNeeded(S, src)
           R == sortCommandGeneric(S, src, dst)
<1>1. Runs(S, T) /\ Good(T)
  BY LookupRuns, Zenon DEF lookupKeyWrite
<1> HIDE DEF T
<1>2. CASE T.db[src] # None /\ T.db[src].type = "list"
  <2> DEFINE v == List(T.db[src].len)
  <2>1. R = setKey(T, dst, v)
    BY <1>2 DEF sortCommandGeneric, T
  <2>2. v \in Values
    BY <1>1, <1>2, StoredValue, ValueFacts
  <2> HIDE DEF v
  <2>3. Runs(T, R)
    BY <1>1, <2>1, <2>2, SetKeyRuns
  <2> QED
    BY <1>1, <2>3, RunsTrans
<1>3. CASE T.db[src] = None /\ T.db[dst] # None
  <2>1. R = signalModifiedKey(dbDelete(T, dst), dst)
    BY <1>3 DEF sortCommandGeneric, T
  <2>2. /\ Runs(T, signalModifiedKey(dbDelete(T, dst), dst))
        /\ signalModifiedKey(dbDelete(T, dst), dst).db = [T.db EXCEPT ![dst] = None]
    BY <1>1, DeleteRuns
  <2> QED
    BY <1>1, <2>1, <2>2, RunsTrans
<1>4. CASE \/ T.db[src] # None /\ T.db[src].type # "list"
           \/ T.db[src] = None /\ T.db[dst] = None
  <2>1. R = T
    BY <1>4 DEF sortCommandGeneric, T
  <2> QED
    BY <1>1, <2>1
<1> QED
  BY <1>2, <1>3, <1>4

\* EXPIRE, and PEXPIREAT with a time that has passed
LEMMA ExpireRuns ==
  ASSUME NEW S, Good(S), NEW k \in Keys, NEW past \in BOOLEAN
  PROVE  Runs(S, expireGenericCommand(S, k, past))
<1> DEFINE T == lookupKeyWrite(S, k)
           R == expireGenericCommand(S, k, past)
           v == [T.db[k] EXCEPT !.ttl = "live"]
<1>1. Runs(S, T) /\ Good(T) /\ ~keyIsExpired(T, k)
  BY LookupRuns, Zenon
<1> HIDE DEF T
<1>2. CASE T.db[k] = None
  BY <1>1, <1>2 DEF expireGenericCommand, T
<1>3. CASE T.db[k] # None /\ past
  <2>1. R = signalModifiedKey(dbDelete(T, k), k)
    BY <1>3 DEF expireGenericCommand, T
  <2>2. /\ Runs(T, signalModifiedKey(dbDelete(T, k), k))
        /\ signalModifiedKey(dbDelete(T, k), k).db = [T.db EXCEPT ![k] = None]
    BY <1>1, DeleteRuns
  <2> QED
    BY <1>1, <2>1, <2>2, RunsTrans
<1>4. CASE T.db[k] # None /\ ~past
  <2>1. R = signalModifiedKey([T EXCEPT !.db[k].ttl = "live"], k)
    BY <1>4 DEF expireGenericCommand, T
  <2>2. [T EXCEPT !.db[k].ttl = "live"] = [T EXCEPT !.db = [T.db EXCEPT ![k] = v]]
    BY <1>1 DEF Good, Tables
  <2>3. v \in Values /\ v.type = T.db[k].type
    BY <1>1, <1>4, StoredValue, ValueUpdates, Zenon
  <2> HIDE DEF v
  <2> DEFINE U == [T EXCEPT !.db = [T.db EXCEPT ![k] = v]]
  <2>4. /\ Runs(T, signalModifiedKey(U, k))
        /\ signalModifiedKey(U, k).db = [T.db EXCEPT ![k] = v]
    BY <1>1, <1>4, <2>3, InPlaceRuns
  <2> QED
    BY <1>1, <2>1, <2>2, <2>4, RunsTrans
<1> QED
  BY <1>2, <1>3, <1>4

\* PERSIST
LEMMA PersistRuns ==
  ASSUME NEW S, Good(S), NEW k \in Keys
  PROVE  Runs(S, persistCommand(S, k))
<1> DEFINE T == lookupKeyWrite(S, k)
           R == persistCommand(S, k)
           v == [T.db[k] EXCEPT !.ttl = "none"]
<1>1. Runs(S, T) /\ Good(T) /\ ~keyIsExpired(T, k)
  BY LookupRuns, Zenon
<1> HIDE DEF T
<1>2. CASE T.db[k] = None \/ T.db[k].ttl = "none"
  BY <1>1, <1>2 DEF persistCommand, T
<1>3. CASE ~(T.db[k] = None \/ T.db[k].ttl = "none")
  <2>1. R = signalModifiedKey([T EXCEPT !.db[k].ttl = "none"], k)
    BY <1>3 DEF persistCommand, T
  <2>2. [T EXCEPT !.db[k].ttl = "none"] = [T EXCEPT !.db = [T.db EXCEPT ![k] = v]]
    BY <1>1 DEF Good, Tables
  <2>3. v \in Values /\ v.type = T.db[k].type
    BY <1>1, <1>3, StoredValue, ValueUpdates, Zenon
  <2> HIDE DEF v
  <2> DEFINE U == [T EXCEPT !.db = [T.db EXCEPT ![k] = v]]
  <2>4. /\ Runs(T, signalModifiedKey(U, k))
        /\ signalModifiedKey(U, k).db = [T.db EXCEPT ![k] = v]
    BY <1>1, <1>3, <2>3, InPlaceRuns
  <2> QED
    BY <1>1, <2>1, <2>2, <2>4, RunsTrans
<1> QED
  BY <1>2, <1>3

\* RENAME
LEMMA RenameRuns ==
  ASSUME NEW S, Good(S), NEW src \in Keys, NEW dst \in Keys
  PROVE  Runs(S, renameGenericCommand(S, src, dst))
<1> DEFINE T == lookupKeyWrite(S, src)
           V == lookupKeyWrite(T, dst)
           v == T.db[src]
           U1 == dbDelete(V, dst)
           U == dbDelete(U1, src)
           A == dbAdd(U, dst, v)
           B == signalModifiedKey(A, src)
           R == renameGenericCommand(S, src, dst)
           K == {dst, src}
<1>1. Runs(S, T) /\ Good(T) /\ ~keyIsExpired(T, src)
  BY LookupRuns, Zenon
<1>2. CASE src = dst \/ T.db[src] = None
  BY <1>1, <1>2 DEF renameGenericCommand
<1>3. CASE ~(src = dst \/ T.db[src] = None)
  <2>1. R = signalModifiedKey(B, dst)
    BY <1>3 DEF renameGenericCommand
  <2>2. v \in Values
    BY <1>1, <1>3, StoredValue
  <2> HIDE DEF T, v
  <2>3. Runs(T, V) /\ Good(V) /\ ~keyIsExpired(V, dst)
    BY <1>1, LookupRuns, Zenon
  <2> HIDE DEF V
  <2>4. V \in Tables /\ Pending(V, V, {})
    BY <2>3, RunsSelf, SMTT(30) DEF Good, Runs
  <2>5. Write(V, U1, dst, None) /\ U1 \in Tables /\ U1.db[dst] = None /\ U1.db[src] = V.db[src]
        /\ U1.blocking_keys = V.blocking_keys
    <3>1. Write(V, U1, dst, None)
      BY <2>4, DbDeleteWrites
    <3>2. V.db \in [Keys -> Values \cup {None}]
      BY <2>4, TablesTypes
    <3> HIDE DEF U1
    <3> QED
      BY <1>3, <2>4, <3>1, <3>2 DEF Write
  <2> HIDE DEF U1
  <2>6. Write(U1, U, src, None) /\ U \in Tables /\ U.db[dst] = None /\ U.db[src] = None
        /\ U.blocking_keys = V.blocking_keys
    <3>1. Write(U1, U, src, None)
      BY <2>5, DbDeleteWrites
    <3>2. U1.db \in [Keys -> Values \cup {None}]
      BY <2>5, TablesTypes
    <3> HIDE DEF U
    <3> QED
      BY <1>3, <2>5, <3>1, <3>2 DEF Write
  <2> HIDE DEF U
  <2>7. /\ Write(U, A, dst, v)
        /\ v.type = "list" /\ U.blocking_keys[dst] # <<>> => dst \in Range(A.ready_keys)
    BY <2>2, <2>6, DbAddWrites, SMTT(30)
  <2>8. A \in Tables /\ A.db[src] = None /\ A.db[dst] = v
    BY <1>3, <2>6, <2>7, TablesTypes, SMTT(30) DEF Write
  <2> HIDE DEF A
  <2>9. Told(V, U1, dst) /\ Told(V, U, src) /\ Told(V, A, dst)
    BY <2>5, <2>6, <2>7, <2>8 DEF Told, HoldsList
  <2>10. Pending(V, U1, {} \cup {dst})
    BY <2>4, <2>5, <2>9, WritePending
  <2>11. Pending(V, U1, {dst})
    BY <2>10
  <2>12. Pending(V, U, {dst} \cup {src})
    BY <2>4, <2>5, <2>6, <2>9, <2>11, WritePending
  <2>13. Pending(V, U, K) /\ dst \in K /\ src \in K /\ K \cup {dst} = K
         /\ dst \in K \ {src} /\ (K \ {src}) \ {dst} = {}
    BY <1>3, <2>12
  <2> HIDE DEF K
  <2>14. Pending(V, A, K)
    <3>1. Pending(V, A, K \cup {dst})
      BY <2>4, <2>7, <2>9, <2>13, WritePending
    <3> QED
      BY <2>13, <3>1
  <2>15. Pending(V, B, K \ {src}) /\ B.db = A.db /\ B.silent = A.silent
    BY <2>8, <2>13, <2>14, TouchPending
  <2> DEFINE L == K \ {src}
  <2>16. Pending(V, B, L) /\ dst \in L /\ L \ {dst} = {}
    BY <2>13, <2>15
  <2> HIDE DEF B, L
  <2>17. /\ Pending(V, signalModifiedKey(B, dst), L \ {dst})
         /\ signalModifiedKey(B, dst).db = B.db
         /\ signalModifiedKey(B, dst).silent = B.silent
    BY <2>3, <2>16, TouchPending
  <2>18. Runs(V, R)
    BY <2>1, <2>16, <2>17 DEF Runs
  <2> QED
    BY <1>1, <2>3, <2>18, RunsTrans
<1> QED
  BY <1>2, <1>3

\* The keys a blocking command waits for.
WaitKeys(cmd) == IF cmd.name = "blmove" THEN <<cmd.src>> ELSE cmd.keys

\* A command runs to its end, or it finds nothing and its client waits.
Returns(S, R, c, cmd, deny) ==
  \E T \in Tables :
    /\ Runs(S, T)
    /\ \/ R = T
       \/ \E keys \in Seq(Keys) :
            /\ ~deny /\ R = blockForKeys(T, c, cmd, keys) /\ keys = WaitKeys(cmd)
            /\ \A k \in Range(keys) : T.db[k] = None /\ ~HoldsList(S, k)

\* BLMOVE
LEMMA BlmoveReturns ==
  ASSUME NEW S, Good(S), NEW c, NEW cmd, NEW deny \in BOOLEAN, cmd.src \in Keys, cmd.dst \in Keys,
         cmd.name = "blmove"
  PROVE  Returns(S, blmoveGenericCommand(S, c, cmd, deny), c, cmd, deny)
<1> DEFINE T == lookupKeyWrite(S, cmd.src)
           R == blmoveGenericCommand(S, c, cmd, deny)
           keys == <<cmd.src>>
<1>1. /\ Runs(S, T) /\ Good(T) /\ ~keyIsExpired(T, cmd.src)
      /\ T.db = IF keyIsExpired(S, cmd.src) THEN [S.db EXCEPT ![cmd.src] = None] ELSE S.db
  BY LookupRuns, Zenon
<1>2. T \in Tables /\ (T.db[cmd.src] = None => ~HoldsList(S, cmd.src))
  BY <1>1 DEF Good, HoldsList
<1> HIDE DEF T
<1>3. CASE T.db[cmd.src] = None /\ ~deny
  <2>1. R = blockForKeys(T, c, cmd, keys)
    BY <1>3 DEF blmoveGenericCommand, T
  <2>2. /\ keys \in Seq(Keys) /\ keys = WaitKeys(cmd)
        /\ \A k \in Range(keys) : T.db[k] = None /\ ~HoldsList(S, k)
    BY <1>2, <1>3 DEF Range, WaitKeys
  <2> HIDE DEF R, keys
  <2> QED
    BY <1>1, <1>2, <1>3, <2>1, <2>2, Zenon DEF Returns, R
<1>4. CASE T.db[cmd.src] # None /\ T.db[cmd.src].type = "list"
  <2>1. R = lmoveGenericCommand(T, cmd.src, cmd.dst)
    BY <1>4 DEF blmoveGenericCommand, T
  <2>2. HoldsList(T, cmd.src)
    BY <1>1, <1>4 DEF HoldsList
  <2>3. Runs(T, R)
    BY <1>1, <2>1, <2>2, MoveRuns
  <2>4. Runs(S, R) /\ R \in Tables
    BY <1>1, <2>3, RunsTrans, RunsGood DEF Good
  <2> HIDE DEF R
  <2> QED
    BY <2>4 DEF Returns, R
<1>5. CASE \/ T.db[cmd.src] = None /\ deny
           \/ T.db[cmd.src] # None /\ T.db[cmd.src].type # "list"
  <2>1. R = T
    BY <1>5 DEF blmoveGenericCommand, T
  <2> HIDE DEF R
  <2> QED
    BY <1>1, <1>2, <2>1 DEF Returns, R
<1> QED
  BY <1>3, <1>4, <1>5

\* BLPOP looks its keys up one after the other.
LEMMA BlpopReturns ==
  ASSUME NEW S, Good(S), NEW c, NEW cmd, NEW deny \in BOOLEAN, cmd.keys \in Seq(Keys),
         cmd.name = "blpop"
  PROVE  Returns(S, blockingPopGenericCommand(S, c, cmd, deny), c, cmd, deny)
<1> DEFINE q == cmd.keys
           n == Len(cmd.keys)
           R == blockingPopGenericCommand(S, c, cmd, deny)
           Step(x, i) == lookupKeyWrite(x, cmd.keys[i])
           Body(h, m) == [i \in 0..m |-> IF i = 0 THEN S ELSE Step(h[i - 1], i)]
           f == CHOOSE f : f = Body(f, n)
           P == {m \in Nat : \E h : h = Body(h, m)}
           live == {i \in DOMAIN cmd.keys : f[i].db[cmd.keys[i]] # None}
           T == f[IF live = {} THEN n ELSE Min(live)]
           k == cmd.keys[Min(live)]
<1>1. R = CASE live # {} /\ T.db[k].type = "list" -> PopElement(T, k)
            [] live # {} /\ T.db[k].type # "list" -> T
            [] live = {} /\ deny  -> T
            [] live = {} /\ ~deny -> blockForKeys(T, c, cmd, cmd.keys)
  BY DEF blockingPopGenericCommand
<1>2. n \in Nat /\ \A i \in 1..n : cmd.keys[i] \in Keys
  OBVIOUS
<1> HIDE DEF Step, n, R, T, k, live
<1>3. 0 \in P
  <2> DEFINE h == [i \in 0..0 |-> S]
  <2>1. h = Body(h, 0)
    OBVIOUS
  <2> QED
    BY <2>1, Zenon
<1>4. \A m \in P : m + 1 \in P
  <2> SUFFICES ASSUME NEW m \in P PROVE m + 1 \in P
    BY SMTT(30)
  <2>0. m \in Nat /\ m + 1 \in Nat
    OBVIOUS
  <2> PICK h : h = Body(h, m)
    BY Zenon
  <2> DEFINE last == Step(h[m], m + 1)
             g == [i \in 0..(m + 1) |-> IF i = m + 1 THEN last ELSE h[i]]
  <2>1. \A i \in 0..m : h[i] = IF i = 0 THEN S ELSE Step(h[i - 1], i)
    BY Zenon
  <2>2. \A i \in 0..(m + 1) : g[i] = IF i = 0 THEN S ELSE Step(g[i - 1], i)
    <3> SUFFICES ASSUME NEW i \in 0..(m + 1)
                 PROVE  g[i] = IF i = 0 THEN S ELSE Step(g[i - 1], i)
      OBVIOUS
    <3> HIDE DEF P, Body
    <3>1. CASE i = m + 1
      <4>1. g[m] = h[m] /\ g[m + 1] = last
        BY <2>0
      <4>2. i # 0 /\ i - 1 = m
        BY <2>0, <3>1
      <4> QED
        BY <3>1, <4>1, <4>2
    <3>2. CASE i \in 0..m
      <4>1. g[i] = h[i] /\ (i # 0 => g[i - 1] = h[i - 1])
        BY <2>0, <3>2
      <4> QED
        BY <2>1, <3>2, <4>1
    <3> QED
      BY <2>0, <3>1, <3>2
  <2>3. g = Body(g, m + 1)
    BY ONLY <2>2
  <2> QED
    BY Zenon, <2>0, <2>3
<1>5. \E h : h = Body(h, n)
  <2>1. P = Nat
    <3> HIDE DEF P
    <3>1. P \in SUBSET Nat
      BY DEF P
    <3> QED
      BY <1>3, <1>4, <3>1, SetInduction
  <2> QED
    BY <1>2, <2>1, Zenon
<1>6. f = Body(f, n)
  BY <1>5, Zenon
<1> HIDE DEF f, P
<1>7. \A i \in 0..n : f[i] = IF i = 0 THEN S ELSE Step(f[i - 1], i)
  BY <1>6, Zenon
<1> HIDE DEF Body
<1>8. f[0] = S /\ \A m \in Nat : m + 1 <= n => f[m + 1] = lookupKeyWrite(f[m], cmd.keys[m + 1])
  BY ONLY <1>2, <1>7 DEF Step
<1> DEFINE Gone(i, m) == f[i].db[cmd.keys[i]] = None => f[m].db[cmd.keys[i]] = None
           Kept(m) == \A a \in Keys : HoldsList(S, a) => f[m].db[a] = S.db[a]
           Fine(m) == /\ Runs(S, f[m]) /\ Kept(m)
                      /\ m > 0 => ~keyIsExpired(f[m], cmd.keys[m])
                      /\ \A i \in 1..m : Gone(i, m)
           Q == {m \in Nat : m <= n => Fine(m)}
<1>9. 0 \in Q
  <2>1. Runs(S, f[0]) /\ Kept(0)
    BY <1>8, RunsSelf
  <2> QED
    BY <2>1
<1>10. \A m \in Q : m + 1 \in Q
  <2> SUFFICES ASSUME NEW m \in Nat, m + 1 <= n, Fine(m) PROVE Fine(m + 1)
    <3> HIDE DEF Fine
    <3> QED
      BY <1>2, SMTT(30)
  <2> DEFINE x == f[m]
             y == f[m + 1]
             j == cmd.keys[m + 1]
  <2>1. j \in Keys /\ y = lookupKeyWrite(x, j) /\ Good(x) /\ x \in Tables
    BY <1>2, <1>8, RunsGood, SMTT(30) DEF Good
  <2> HIDE DEF x, y, j
  <2>2. /\ Runs(x, y) /\ Good(y) /\ ~keyIsExpired(y, j)
        /\ y.db = IF keyIsExpired(x, j) THEN [x.db EXCEPT ![j] = None] ELSE x.db
    BY <2>1, LookupRuns, SMTT(30)
  <2>3. \A a \in Keys : x.db[a] = None => y.db[a] = None
    BY <2>1, <2>2, TablesTypes, SMTT(30)
  <2>4. Runs(S, y)
    BY <2>2, RunsTrans, SMTT(30) DEF x
  <2>5. \A i \in 1..(m + 1) : Gone(i, m + 1)
    BY <1>2, <2>3, SMTT(30) DEF x, y
  <2>6. Kept(m + 1)
    <3> SUFFICES ASSUME NEW a \in Keys, HoldsList(S, a) PROVE y.db[a] = S.db[a]
      BY SMTT(30) DEF y
    <3>1. x.db[a] = S.db[a]
      BY SMTT(30) DEF x
    <3>2. ~keyIsExpired(x, a)
      BY <3>1 DEF HoldsList, keyIsExpired
    <3>3. DOMAIN x.db = Keys
      BY <2>1, TablesTypes, Zenon
    <3>4. y.db[a] = x.db[a]
      BY ONLY <2>2, <3>2, <3>3, a \in Keys
    <3> QED
      BY <3>1, <3>4
  <2> QED
    BY <2>2, <2>4, <2>5, <2>6, Zenon DEF y, j
<1>11. \A m \in 0..n : Fine(m)
  <2>1. Q = Nat
    <3> HIDE DEF Q
    <3>1. Q \in SUBSET Nat
      BY DEF Q
    <3> QED
      BY <1>9, <1>10, <3>1, SetInduction
  <2> HIDE DEF Fine
  <2> QED
    BY <1>2, <2>1, SMTT(30)
<1>12. CASE live = {}
  <2>1. T = f[n]
    BY <1>12, SMTT(30) DEF T
  <2>2. Runs(S, T) /\ T \in Tables
    BY <1>2, <1>11, <2>1, RunsGood, SMTT(30) DEF Good
  <2>3. \A i \in 1..n : T.db[cmd.keys[i]] = None
    <3>1. \A i \in 1..n : f[i].db[cmd.keys[i]] = None
      BY <1>12 DEF live, n
    <3> QED
      BY <1>2, <1>11, <2>1, <3>1
  <2>4. \A a \in Range(cmd.keys) : T.db[a] = None /\ ~HoldsList(S, a)
    <3>1. \A a \in Range(cmd.keys) : a \in Keys /\ T.db[a] = None
      BY <1>2, <2>3, SMTT(30) DEF Range, n
    <3>2. Kept(n)
      BY <1>2, <1>11
    <3> QED
      BY <2>1, <3>1, <3>2 DEF HoldsList
  <2>5. R = IF deny THEN T ELSE blockForKeys(T, c, cmd, cmd.keys)
    BY <1>1, <1>12
  <2>6. cmd.keys = WaitKeys(cmd)
    BY DEF WaitKeys
  <2> QED
    BY <2>2, <2>4, <2>5, <2>6 DEF Returns, R
<1>13. CASE live # {}
  <2> DEFINE m == Min(live)
  <2>1. live \in SUBSET Nat /\ \A i \in live : i \in 1..n /\ f[i].db[cmd.keys[i]] # None
    BY DEF live, n
  <2>2. m \in live
    BY <1>13, <2>1, NatMin
  <2>3. T = f[m] /\ k = cmd.keys[m] /\ m \in 1..n /\ T.db[k] # None
    BY <1>13, <2>1, <2>2, ZenonT(30) DEF T, k
  <2> HIDE DEF m
  <2>4. Runs(S, T) /\ ~keyIsExpired(T, k) /\ k \in Keys
    BY <1>2, <1>11, <2>3
  <2>5. Good(T) /\ T \in Tables
    BY <2>4, RunsGood DEF Good
  <2>6. CASE T.db[k].type = "list"
    <3>1. R = PopElement(T, k)
      BY <1>1, <1>13, <2>6
    <3>2. HoldsList(T, k)
      BY <2>3, <2>4, <2>6 DEF HoldsList
    <3>3. Runs(T, R)
      BY <2>4, <2>5, <3>1, <3>2, PopRuns
    <3>4. Runs(S, R) /\ R \in Tables
      BY <2>4, <3>3, RunsTrans, RunsGood DEF Good
    <3> QED
      BY <3>4 DEF Returns, R
  <2>7. CASE T.db[k].type # "list"
    <3>1. R = T
      BY <1>1, <1>13, <2>7
    <3> QED
      BY <2>4, <2>5, <3>1 DEF Returns, R
  <2> QED
    BY <2>6, <2>7
<1> QED
  BY <1>12, <1>13

\* The arguments of a command.
LEMMA CmdArguments ==
  ASSUME NEW cmd \in Cmds
  PROVE  /\ cmd.name \in {"push", "set", "del", "expire", "expired", "persist"} => cmd.key \in Keys
         /\ cmd.name \in {"sort", "rename", "blmove"} => cmd.src \in Keys /\ cmd.dst \in Keys
         /\ cmd.name = "blpop" => cmd.keys \in Seq(Keys)
         /\ cmd.name \in {"push", "set", "del", "expire", "expired", "persist",
                          "sort", "rename", "blmove", "blpop"}
BY DEF Cmds

\* A command that ends has returned.
LEMMA RunsReturns ==
  ASSUME NEW S, NEW R, Runs(S, R), NEW c, NEW cmd, NEW deny
  PROVE  Returns(S, R, c, cmd, deny)
BY RunsGood DEF Returns, Good

\* c->cmd->proc(c)
LEMMA CallReturns ==
  ASSUME NEW S, Good(S), NEW c, NEW cmd \in Cmds, NEW deny \in BOOLEAN
  PROVE  Returns(S, call(S, c, cmd, deny), c, cmd, deny)
<1>1. CASE cmd.name = "push"
  BY <1>1, CmdArguments, PushRuns, RunsReturns DEF call
<1>2. CASE cmd.name = "set"
  BY <1>2, CmdArguments, ValueFacts, SetKeyRuns, RunsReturns DEF call
<1>3. CASE cmd.name = "del"
  BY <1>3, CmdArguments, DelRuns, RunsReturns DEF call
<1>4. CASE cmd.name = "sort"
  BY <1>4, CmdArguments, SortRuns, RunsReturns DEF call
<1>5. CASE cmd.name = "rename"
  BY <1>5, CmdArguments, RenameRuns, RunsReturns DEF call
<1>6. CASE cmd.name = "expire"
  BY <1>6, CmdArguments, ExpireRuns, RunsReturns, Zenon DEF call
<1>7. CASE cmd.name = "expired"
  BY <1>7, CmdArguments, ExpireRuns, RunsReturns, Zenon DEF call
<1>8. CASE cmd.name = "persist"
  BY <1>8, CmdArguments, PersistRuns, RunsReturns DEF call
<1>9. CASE cmd.name = "blpop"
  BY <1>9, CmdArguments, BlpopReturns DEF call
<1>10. CASE cmd.name = "blmove"
  BY <1>10, CmdArguments, BlmoveReturns DEF call
<1> QED
  BY <1>1, <1>2, <1>3, <1>4, <1>5, <1>6, <1>7, <1>8, <1>9, <1>10, CmdArguments, Zenon

\* EXEC runs commands that never block, one after the other.
LEMMA QueuedRuns ==
  ASSUME NEW S, Good(S), NEW c, NEW mstate \in Seq(Cmds)
  PROVE  Runs(S, RunQueued(S, c, mstate))
<1> DEFINE n == Len(mstate)
           Step(x, i) == call(x, c, mstate[i], TRUE)
           Body(h, m) == [i \in 0..m |-> IF i = 0 THEN S ELSE Step(h[i - 1], i)]
           f == CHOOSE f : f = Body(f, n)
           P == {m \in Nat : \E h : h = Body(h, m)}
           Q == {m \in Nat : m <= n => Runs(S, f[m])}
<1>1. RunQueued(S, c, mstate) = f[n]
  BY DEF RunQueued
<1>2. n \in Nat /\ \A i \in 1..n : mstate[i] \in Cmds
  OBVIOUS
<1> HIDE DEF Step, n
<1>3. 0 \in P
  <2> DEFINE h == [i \in 0..0 |-> S]
  <2>1. h = Body(h, 0)
    OBVIOUS
  <2> QED
    BY <2>1, Zenon
<1>4. \A m \in P : m + 1 \in P
  <2> SUFFICES ASSUME NEW m \in P PROVE m + 1 \in P
    OBVIOUS
  <2>0. m \in Nat /\ m + 1 \in Nat
    OBVIOUS
  <2> PICK h : h = Body(h, m)
    BY Zenon
  <2> DEFINE last == Step(h[m], m + 1)
             g == [i \in 0..(m + 1) |-> IF i = m + 1 THEN last ELSE h[i]]
  <2>1. \A i \in 0..m : h[i] = IF i = 0 THEN S ELSE Step(h[i - 1], i)
    BY Zenon
  <2>2. \A i \in 0..(m + 1) : g[i] = IF i = 0 THEN S ELSE Step(g[i - 1], i)
    <3> SUFFICES ASSUME NEW i \in 0..(m + 1)
                 PROVE  g[i] = IF i = 0 THEN S ELSE Step(g[i - 1], i)
      OBVIOUS
    <3> HIDE DEF P, Body
    <3>1. CASE i = m + 1
      <4>1. g[m] = h[m] /\ g[m + 1] = last
        BY <2>0
      <4>2. i # 0 /\ i - 1 = m
        BY <2>0, <3>1
      <4> QED
        BY <3>1, <4>1, <4>2
    <3>2. CASE i \in 0..m
      <4>1. g[i] = h[i] /\ (i # 0 => g[i - 1] = h[i - 1])
        BY <2>0, <3>2
      <4> QED
        BY <2>1, <3>2, <4>1
    <3> QED
      BY <2>0, <3>1, <3>2
  <2>3. g = Body(g, m + 1)
    BY ONLY <2>2
  <2> QED
    BY Zenon, <2>0, <2>3
<1>5. \E h : h = Body(h, n)
  <2>1. P = Nat
    <3> HIDE DEF P
    <3>1. P \in SUBSET Nat
      BY DEF P
    <3> QED
      BY <1>3, <1>4, <3>1, SetInduction
  <2> QED
    BY <1>2, <2>1, Zenon
<1>6. f = Body(f, n)
  BY <1>5, Zenon
<1> HIDE DEF f, P
<1>7. \A i \in 0..n : f[i] = IF i = 0 THEN S ELSE Step(f[i - 1], i)
  BY <1>6, Zenon
<1> HIDE DEF Body
<1>8. f[0] = S /\ \A m \in Nat : m + 1 <= n => f[m + 1] = call(f[m], c, mstate[m + 1], TRUE)
  <2>1. f[0] = S /\ \A m \in Nat : m + 1 <= n => f[m + 1] = Step(f[m], m + 1)
    BY ONLY <1>2, <1>7
  <2> QED
    BY ONLY <2>1, Zenon DEF Step
<1>9. 0 \in Q
  BY <1>8, RunsSelf
<1>10. \A m \in Q : m + 1 \in Q
  <2> SUFFICES ASSUME NEW m \in Nat, m + 1 <= n, Runs(S, f[m]) PROVE Runs(S, f[m + 1])
    BY <1>2
  <2>1. Good(f[m]) /\ mstate[m + 1] \in Cmds
    BY <1>2, RunsGood
  <2>2. Returns(f[m], f[m + 1], c, mstate[m + 1], TRUE)
    BY <1>8, <2>1, CallReturns, Zenon
  <2>3. Runs(f[m], f[m + 1])
    BY <2>2, Zenon DEF Returns
  <2> QED
    BY <2>3, RunsTrans
<1>11. n \in Q
  <2> HIDE DEF Q
  <2>1. Q \in SUBSET Nat
    BY DEF Q
  <2> QED
    BY <1>2, <1>9, <1>10, <2>1, SetInduction, Zenon
<1> QED
  BY <1>1, <1>2, <1>11
-----------------------------------------------------------------------------
(* The clients that wait.                                                  *)

Waits(S, c, k) == S.blocked[c] # None /\ k \in S.blocked[c].keys

\* The queues of the keys hold the clients that wait for them, once each.
QueuesOK(S) ==
  \A k \in Keys : /\ IsInjective(S.blocking_keys[k])
                  /\ \A c \in Clients : c \in Range(S.blocking_keys[k]) <=> Waits(S, c, k)

\* The clients still to be visited for the key sv.key wait for it.
ServingOK(S, sv) ==
  sv # None => /\ IsInjective(sv.clients)
               /\ \A c \in Range(sv.clients) : Waits(S, c, sv.key)

\* A client that waits for a list is going to be visited.
WakeOK(S, sv) ==
  \A c \in Clients, k \in Keys : Waits(S, c, k) /\ HoldsList(S, k) =>
    \/ k \in S.silent \/ k \in Range(S.ready_keys)
    \/ sv # None /\ sv.key = k /\ c \in Range(sv.clients)

BlockOK(S, sv) == QueuesOK(S) /\ ServingOK(S, sv) /\ WakeOK(S, sv)

\* Running a command to its end leaves the queues alone and tells the waiters.
LEMMA RunsBlock ==
  ASSUME NEW S \in Tables, NEW T, NEW sv, BlockOK(S, sv), Runs(S, T)
  PROVE  BlockOK(T, sv)
<1>1. /\ T.blocked = S.blocked /\ T.blocking_keys = S.blocking_keys
      /\ Range(S.ready_keys) \subseteq Range(T.ready_keys)
      /\ \A k \in Keys : Told(S, T, k)
  BY Zenon DEF Runs, Pending
<1>2. \A c \in Clients, k \in Keys : Waits(T, c, k) <=> Waits(S, c, k)
  BY <1>1, SMTT(30) DEF Waits
<1>3. QueuesOK(T)
  BY <1>1, <1>2, SMTT(30) DEF BlockOK, QueuesOK
<1>4. ServingOK(T, sv)
  BY <1>1, SMTT(30) DEF BlockOK, ServingOK, Waits
<1>5. WakeOK(T, sv)
  <2> SUFFICES ASSUME NEW c \in Clients, NEW k \in Keys, Waits(T, c, k), HoldsList(T, k)
               PROVE  \/ k \in T.silent \/ k \in Range(T.ready_keys)
                      \/ sv # None /\ sv.key = k /\ c \in Range(sv.clients)
    BY DEF WakeOK
  <2>1. Waits(S, c, k) /\ c \in Range(S.blocking_keys[k])
    BY <1>2 DEF BlockOK, QueuesOK
  <2>2. S.blocking_keys[k] # <<>>
    BY <2>1, SMTT(30) DEF Range
  <2>3. k \in T.silent \/ k \in Range(T.ready_keys) \/ (HoldsList(S, k) /\ k \notin S.silent)
    BY <1>1, <2>2, SMTT(30) DEF Told
  <2> QED
    BY <1>1, <2>1, <2>3, SMTT(30) DEF BlockOK, WakeOK
<1> QED
  BY <1>3, <1>4, <1>5 DEF BlockOK

\* A client is taken out of the queues; it is the one that is being served, if any.
LEMMA UnblockBlock ==
  ASSUME NEW S \in Tables, NEW c \in Clients, NEW sv, NEW sw, BlockOK(S, sv),
         ServingOK(S, sw), sw # None => sv # None /\ c \notin Range(sw.clients),
         \A d \in Clients \ {c}, k \in Keys :
           sv # None /\ sv.key = k /\ d \in Range(sv.clients) =>
             sw # None /\ sw.key = k /\ d \in Range(sw.clients)
  PROVE  LET T == unblockClient(S, c)
         IN /\ T \in Tables /\ BlockOK(T, sw) /\ T.blocked = [S.blocked EXCEPT ![c] = None]
            /\ T.db = S.db /\ T.watched_keys = S.watched_keys /\ T.dirty_cas = S.dirty_cas
            /\ T.ready_keys = S.ready_keys /\ T.silent = S.silent
<1> DEFINE q == [k \in Keys |-> releaseBlockedEntry(S.blocking_keys[k], c)]
           b == [S.blocked EXCEPT ![c] = None]
           T == [S EXCEPT !.blocking_keys = q, !.blocked = b]
<1>1. unblockClient(S, c) = T
  BY SMTT(30) DEF unblockClient, Tables
<1>2. /\ S.blocking_keys \in [Keys -> Seq(Clients)]
      /\ S.blocked \in [Clients -> Waiting \cup {None}]
  BY TablesTypes
<1>3. \A k \in Keys : /\ releaseBlockedEntry(S.blocking_keys[k], c) \in Seq(Clients)
                      /\ IsInjective(releaseBlockedEntry(S.blocking_keys[k], c))
                      /\ Range(releaseBlockedEntry(S.blocking_keys[k], c)) = Range(S.blocking_keys[k]) \ {c}
  BY <1>2, ReleasedSet, ZenonT(30) DEF BlockOK, QueuesOK
<1>4. q \in [Keys -> Seq(Clients)] /\ b \in [Clients -> Waiting \cup {None}]
  BY <1>2, <1>3, SMTT(30)
<1>5. \A k \in Keys : IsInjective(q[k]) /\ Range(q[k]) = Range(S.blocking_keys[k]) \ {c}
  BY <1>3, SMTT(30)
<1>6. b[c] = None /\ \A d \in Clients \ {c} : b[d] = S.blocked[d]
  BY <1>2
<1> HIDE DEF q, b
<1>7. /\ T \in Tables /\ T.blocked = b /\ T.blocking_keys = q
      /\ T.db = S.db /\ T.watched_keys = S.watched_keys /\ T.dirty_cas = S.dirty_cas
      /\ T.ready_keys = S.ready_keys /\ T.silent = S.silent
  BY <1>4, Zenon DEF Tables
<1> HIDE DEF T
<1>8. \A d \in Clients, k \in Keys : Waits(T, d, k) <=> d # c /\ Waits(S, d, k)
  BY <1>6, <1>7, SMTT(30) DEF Waits
<1>9. QueuesOK(T)
  BY <1>5, <1>7, <1>8, SMTT(30) DEF BlockOK, QueuesOK
<1>10. ServingOK(T, sw)
  <2> SUFFICES ASSUME sw # None PROVE \A d \in Range(sw.clients) : Waits(T, d, sw.key)
    BY DEF ServingOK
  <2> SUFFICES ASSUME NEW d \in Range(sw.clients) PROVE Waits(T, d, sw.key)
    OBVIOUS
  <2>1. d # c /\ Waits(S, d, sw.key)
    BY DEF ServingOK
  <2>2. b[d] = S.blocked[d]
    BY <2>1, SMTT(30) DEF b
  <2> QED
    BY <1>7, <2>1, <2>2 DEF Waits
<1>11. WakeOK(T, sw)
  <2> SUFFICES ASSUME NEW d \in Clients, NEW k \in Keys, Waits(T, d, k), HoldsList(T, k)
               PROVE  \/ k \in T.silent \/ k \in Range(T.ready_keys)
                      \/ sw # None /\ sw.key = k /\ d \in Range(sw.clients)
    BY SMTT(30) DEF WakeOK
  <2>1. d # c /\ Waits(S, d, k) /\ HoldsList(S, k)
    BY <1>7, <1>8 DEF HoldsList, keyIsExpired
  <2>2. \/ k \in S.silent \/ k \in Range(S.ready_keys)
        \/ sv # None /\ sv.key = k /\ d \in Range(sv.clients)
    BY <2>1, Zenon DEF BlockOK, WakeOK
  <2> QED
    BY <1>7, <2>1, <2>2, SMTT(30)
<1> QED
  BY <1>1, <1>7, <1>9, <1>10, <1>11 DEF BlockOK, b

\* The queue with one more client.
LEMMA JoinInjective ==
  ASSUME NEW q \in Seq(Clients), IsInjective(q), NEW c \in Clients, c \notin Range(q)
  PROVE  IsInjective(Append(q, c))
<1>1. \A i \in 1..Len(q) : q[i] # c
  BY DEF Range
<1>2. \A i, j \in 1..Len(q) : q[i] = q[j] => i = j
  BY DEF IsInjective
<1>3. Len(Append(q, c)) = Len(q) + 1 /\ Append(q, c)[Len(q) + 1] = c
      /\ \A i \in 1..Len(q) : Append(q, c)[i] = q[i]
  OBVIOUS
<1>4. DOMAIN Append(q, c) = 1..(Len(q) + 1)
  OBVIOUS
<1>5. Len(q) \in Nat
  OBVIOUS
<1>6. \A i, j \in 1..(Len(q) + 1) : Append(q, c)[i] = Append(q, c)[j] => i = j
  BY ONLY <1>1, <1>2, <1>3, <1>5
<1> QED
  BY <1>4, <1>6 DEF IsInjective

\* A client begins to wait, for keys that are not there.
LEMMA BlockBlock ==
  ASSUME NEW S \in Tables, NEW c \in Clients, NEW cmd \in Cmds, NEW keys \in Seq(Keys), NEW sv,
         BlockOK(S, sv), S.blocked[c] = None, \A k \in Range(keys) : S.db[k] = None
  PROVE  LET T == blockForKeys(S, c, cmd, keys)
         IN /\ T \in Tables /\ BlockOK(T, sv) /\ \A d \in Clients \ {c} : T.blocked[d] = S.blocked[d]
            /\ T.db = S.db /\ T.watched_keys = S.watched_keys /\ T.dirty_cas = S.dirty_cas
<1> DEFINE K == Range(keys)
           q == [k \in Keys |-> IF k \in K THEN Append(S.blocking_keys[k], c)
                                ELSE S.blocking_keys[k]]
           x == [cmd |-> cmd, keys |-> K]
           b == [S.blocked EXCEPT ![c] = x]
           T == [S EXCEPT !.blocking_keys = q, !.blocked = b]
<1>1. blockForKeys(S, c, cmd, keys) = T
  BY SMTT(30) DEF blockForKeys, Tables
<1>2. /\ S.blocking_keys \in [Keys -> Seq(Clients)]
      /\ S.blocked \in [Clients -> Waiting \cup {None}]
  BY TablesTypes
<1>3. K \in SUBSET Keys
  BY DEF Range
<1> HIDE DEF K
<1>4. x \in Waiting /\ x.keys = K /\ x # None
  BY <1>3, KeyspaceAssumption DEF Waiting
<1> HIDE DEF x
<1>5. b \in [Clients -> Waiting \cup {None}] /\ b[c] = x
      /\ \A d \in Clients \ {c} : b[d] = S.blocked[d]
  BY <1>2, <1>4
<1>6. \A k \in Keys : c \notin Range(S.blocking_keys[k])
  BY DEF BlockOK, QueuesOK, Waits
<1>7. \A k \in Keys : /\ q[k] \in Seq(Clients) /\ IsInjective(q[k])
                      /\ Range(q[k]) = IF k \in K THEN Range(S.blocking_keys[k]) \cup {c}
                                                  ELSE Range(S.blocking_keys[k])
  <2> SUFFICES ASSUME NEW k \in Keys
               PROVE  /\ q[k] \in Seq(Clients) /\ IsInjective(q[k])
                      /\ Range(q[k]) = IF k \in K THEN Range(S.blocking_keys[k]) \cup {c}
                                                  ELSE Range(S.blocking_keys[k])
    BY ZenonT(30)
  <2> DEFINE o == S.blocking_keys[k]
  <2>1. o \in Seq(Clients) /\ IsInjective(o) /\ c \notin Range(o)
    BY <1>2, <1>6 DEF BlockOK, QueuesOK
  <2> HIDE DEF o
  <2>2. /\ Append(o, c) \in Seq(Clients) /\ Range(Append(o, c)) = Range(o) \cup {c}
    BY <2>1, AppendSet, ZenonT(30)
  <2>3. IsInjective(Append(o, c))
    BY <2>1, JoinInjective
  <2>4. q[k] = IF k \in K THEN Append(o, c) ELSE o
    BY DEF o
  <2> HIDE DEF q
  <2> QED
    BY <2>1, <2>2, <2>3, <2>4, Zenon DEF o
<1>8. q \in [Keys -> Seq(Clients)]
  <2>1. q = [k \in Keys |-> q[k]]
    OBVIOUS
  <2> HIDE DEF q
  <2> QED
    BY <1>7, <2>1
<1> HIDE DEF q, b
<1>9. /\ T \in Tables /\ T.blocked = b /\ T.blocking_keys = q
      /\ T.db = S.db /\ T.watched_keys = S.watched_keys /\ T.dirty_cas = S.dirty_cas
      /\ T.ready_keys = S.ready_keys /\ T.silent = S.silent
  BY <1>5, <1>8, ZenonT(30) DEF Tables
<1> HIDE DEF T
<1>10. \A d \in Clients, k \in Keys : Waits(T, d, k) <=> IF d = c THEN k \in K ELSE Waits(S, d, k)
  BY <1>4, <1>5, <1>9 DEF Waits
<1>11. QueuesOK(T)
  <2> SUFFICES ASSUME NEW k \in Keys
               PROVE  /\ IsInjective(q[k])
                      /\ \A d \in Clients : d \in Range(q[k]) <=> Waits(T, d, k)
    BY <1>9 DEF QueuesOK
  <2>1. \A d \in Clients : d \in Range(S.blocking_keys[k]) <=> Waits(S, d, k)
    BY DEF BlockOK, QueuesOK
  <2> QED
    BY <1>6, <1>7, <1>10, <2>1, ZenonT(30)
<1>12. ServingOK(T, sv)
  <2> SUFFICES ASSUME sv # None, NEW d \in Range(sv.clients) PROVE Waits(T, d, sv.key)
    BY SMTT(30) DEF BlockOK, ServingOK
  <2>1. Waits(S, d, sv.key)
    BY DEF BlockOK, ServingOK
  <2>2. d # c
    BY <2>1 DEF Waits
  <2>3. b[d] = S.blocked[d]
    BY <2>2, SMTT(30) DEF b
  <2> QED
    BY <1>9, <2>1, <2>3, SMTT(30) DEF Waits
<1>13. WakeOK(T, sv)
  <2> SUFFICES ASSUME NEW d \in Clients, NEW k \in Keys, Waits(T, d, k), HoldsList(T, k)
               PROVE  \/ k \in T.silent \/ k \in Range(T.ready_keys)
                      \/ sv # None /\ sv.key = k /\ d \in Range(sv.clients)
    BY DEF WakeOK
  <2>1. k \notin K /\ HoldsList(S, k)
    BY <1>9, SMTT(30) DEF HoldsList, keyIsExpired, K
  <2>2. Waits(S, d, k)
    BY <1>10, <2>1
  <2> QED
    BY <1>9, <2>1, <2>2, SMTT(30) DEF BlockOK, WakeOK
<1> QED
  BY <1>1, <1>5, <1>9, <1>11, <1>12, <1>13, Zenon DEF BlockOK

-----------------------------------------------------------------------------
(* The clients that watch.                                                 *)

\* EXEC finds an expired watch.
LEMMA StaleFound ==
  ASSUME NEW S, NEW c
  PROVE  isWatchedKeyExpired(S, c) <=> \E k \in Keys : StaleAt(S, c, k)
BY DEF isWatchedKeyExpired, StaleAt

\* From S to T no watch is lost but those of C, and a watcher that is not marked
\* dirty sees no change that EXEC would not find.
WatchStep(S, T, C) ==
  /\ Good(T)
  /\ \A d \in Clients \ (C \cup T.dirty_cas) :
       /\ d \notin S.dirty_cas
       /\ \A k \in Keys : Watched(S, d, k) =>
            /\ Watched(T, d, k)
            /\ Logical(T, k) = Logical(S, k) \/ StaleAt(T, d, k)
            /\ StaleAt(S, d, k) => StaleAt(T, d, k)

WatchOK(S, w, ch) ==
  \A c \in Clients \ S.dirty_cas : /\ \A k \in w[c] : Watched(S, c, k)
                                   /\ c \in ch => isWatchedKeyExpired(S, c)

\* A command that runs to its end.
LEMMA RunsWatch ==
  ASSUME NEW S, NEW T, Runs(S, T), NEW C
  PROVE  WatchStep(S, T, C)
BY RunsGood, ZenonT(30) DEF WatchStep, Runs, Pending, StaleAt

\* Nothing that watches depend on changes.
LEMMA SameWatch ==
  ASSUME NEW S, NEW T \in Tables, Good(S), T.db = S.db, T.watched_keys = S.watched_keys,
         T.dirty_cas = S.dirty_cas, NEW C
  PROVE  WatchStep(S, T, C)
<1>1. Good(T)
  BY DEF Good, FlagsOK, keyIsExpired
<1> QED
  BY <1>1, SMTT(30) DEF WatchStep, Watched, StaleAt, Logical, keyIsExpired

\* One after the other.
LEMMA WatchTrans ==
  ASSUME NEW S, NEW T, NEW U, NEW C, WatchStep(S, T, C), WatchStep(T, U, C)
  PROVE  WatchStep(S, U, C)
<1> SUFFICES ASSUME NEW d \in Clients \ (C \cup U.dirty_cas)
             PROVE  /\ d \notin S.dirty_cas
                    /\ \A k \in Keys : Watched(S, d, k) =>
                         /\ Watched(U, d, k)
                         /\ Logical(U, k) = Logical(S, k) \/ StaleAt(U, d, k)
                         /\ StaleAt(S, d, k) => StaleAt(U, d, k)
  BY ZenonT(30) DEF WatchStep
<1>1. d \in Clients \ (C \cup T.dirty_cas)
  BY DEF WatchStep
<1>2. /\ d \notin S.dirty_cas
      /\ \A k \in Keys : Watched(S, d, k) =>
           /\ Watched(T, d, k)
           /\ Logical(T, k) = Logical(S, k) \/ StaleAt(T, d, k)
           /\ StaleAt(S, d, k) => StaleAt(T, d, k)
  BY <1>1, ZenonT(30) DEF WatchStep
<1>3. \A k \in Keys : Watched(T, d, k) =>
           /\ Watched(U, d, k)
           /\ Logical(U, k) = Logical(T, k) \/ StaleAt(U, d, k)
           /\ StaleAt(T, d, k) => StaleAt(U, d, k)
  BY ZenonT(30) DEF WatchStep
<1> QED
  BY <1>2, <1>3, Zenon

Forgotten(S, c, D) == [unwatchAllKeys(S, c) EXCEPT !.dirty_cas = D]

\* T is S without the watches of c, and with the clients D marked dirty.
Unwatched(S, T, c, D) ==
  /\ T \in Tables /\ T.db = S.db /\ T.blocked = S.blocked /\ T.ready_keys = S.ready_keys
  /\ T.blocking_keys = S.blocking_keys /\ T.silent = S.silent /\ T.dirty_cas = D
  /\ \A k \in Keys :
       Range(T.watched_keys[k]) = {x \in Range(S.watched_keys[k]) : x.client # c}

\* unwatchAllKeys, alone or with its flag
LEMMA UnwatchTables ==
  ASSUME NEW S \in Tables, NEW c, NEW D \in SUBSET Clients
  PROVE  Unwatched(S, Forgotten(S, c, D), c, D)
<1> DEFINE C == {c}
           W == [k \in Keys |-> Without(S.watched_keys[k], C)]
           T == [S EXCEPT !.watched_keys = W, !.dirty_cas = D]
<1>1. Forgotten(S, c, D) = T
  BY SMTT(30) DEF Forgotten, unwatchAllKeys, UnwatchClients, Tables
<1>2. S.watched_keys \in [Keys -> Seq(Watch)]
  BY TablesTypes, Zenon
<1> HIDE DEF C
<1>3. \A k \in Keys : /\ Without(S.watched_keys[k], C) \in Seq(Watch)
                      /\ Range(Without(S.watched_keys[k], C)) =
                           {x \in Range(S.watched_keys[k]) : x.client \notin C}
  BY <1>2, WithoutSet
<1>4. W \in [Keys -> Seq(Watch)]
  BY <1>3
<1>5. \A k \in Keys : Range(W[k]) = {x \in Range(S.watched_keys[k]) : x.client \notin C}
  BY <1>3
<1>6. \A k \in Keys : Range(W[k]) = {x \in Range(S.watched_keys[k]) : x.client # c}
  BY <1>5 DEF C
<1> HIDE DEF W
<1>7. /\ T \in Tables /\ T.db = S.db /\ T.blocked = S.blocked /\ T.ready_keys = S.ready_keys
      /\ T.blocking_keys = S.blocking_keys /\ T.silent = S.silent /\ T.dirty_cas = D
      /\ T.watched_keys = W
  BY <1>4, Zenon DEF Tables, Watch
<1> HIDE DEF T
<1> QED
  BY <1>1, <1>6, <1>7 DEF Unwatched

\* The other clients keep what they watch.
LEMMA UnwatchedStep ==
  ASSUME NEW S, Good(S), NEW c \in Clients, NEW D, S.dirty_cas \subseteq D \cup {c},
         NEW T, Unwatched(S, T, c, D)
  PROVE  WatchStep(S, T, {c})
<1>1. Good(T)
  BY DEF Unwatched, Good, FlagsOK, keyIsExpired
<1> QED
  BY <1>1, ZenonT(30) DEF Unwatched, WatchStep, Watched, StaleAt, Logical, keyIsExpired

\* The end of a transaction, or of its client.
LEMMA DiscardWatch ==
  ASSUME NEW S, Good(S), NEW c \in Clients
  PROVE  LET T == discardTransaction(S, c)
         IN WatchStep(S, T, {c}) /\ Unwatched(S, T, c, S.dirty_cas \ {c})
<1> DEFINE D == S.dirty_cas \ {c}
           T == discardTransaction(S, c)
<1>1. S \in Tables /\ D \in SUBSET Clients /\ S.dirty_cas \subseteq D \cup {c}
  BY TablesTypes, Zenon DEF Good
<1>2. T = Forgotten(S, c, D)
  BY <1>1, SMTT(30) DEF discardTransaction, Forgotten, unwatchAllKeys, UnwatchClients, Tables
<1> HIDE DEF D, T
<1>3. Unwatched(S, T, c, D)
  BY <1>1, <1>2, UnwatchTables
<1>4. WatchStep(S, T, {c})
  BY <1>1, <1>3, UnwatchedStep
<1> QED
  BY <1>3, <1>4, Zenon DEF D, T

\* EXEC forgets the watches before it runs the queued commands.
LEMMA UnwatchWatch ==
  ASSUME NEW S, Good(S), NEW c \in Clients
  PROVE  LET T == unwatchAllKeys(S, c)
         IN WatchStep(S, T, {c}) /\ Unwatched(S, T, c, S.dirty_cas)
<1> DEFINE D == S.dirty_cas
           T == unwatchAllKeys(S, c)
<1>1. S \in Tables /\ D \in SUBSET Clients /\ S.dirty_cas \subseteq D \cup {c}
  BY TablesTypes DEF Good
<1>2. T = Forgotten(S, c, D)
  BY <1>1, Zenon DEF Forgotten, unwatchAllKeys, UnwatchClients, Tables
<1> HIDE DEF D, T
<1>3. Unwatched(S, T, c, D)
  BY <1>1, <1>2, UnwatchTables
<1>4. WatchStep(S, T, {c})
  BY <1>1, <1>3, UnwatchedStep
<1> QED
  BY <1>3, <1>4 DEF D, T

\* WATCH
LEMMA WatchForKeyWatch ==
  ASSUME NEW S, Good(S), NEW c \in Clients, NEW k \in Keys
  PROVE  LET T == watchForKey(S, c, k)
         IN /\ WatchStep(S, T, {}) /\ Watched(T, c, k) /\ T.db = S.db /\ T.blocked = S.blocked
            /\ T.ready_keys = S.ready_keys
            /\ T.blocking_keys = S.blocking_keys /\ T.silent = S.silent
<1> DEFINE e == keyIsExpired(S, k)
           x == [client |-> c, expired |-> e]
           W == [S.watched_keys EXCEPT ![k] = Append(S.watched_keys[k], x)]
           T == [S EXCEPT !.watched_keys = W]
<1>1. S \in Tables /\ S.watched_keys \in [Keys -> Seq(Watch)]
  BY TablesTypes DEF Good
<1>2. CASE \E wk \in Range(S.watched_keys[k]) : wk.client = c
  <2>1. watchForKey(S, c, k) = S
    BY <1>2 DEF watchForKey
  <2> QED
    BY <1>1, <1>2, <2>1, SameWatch, Zenon DEF Watched
<1>3. CASE ~\E wk \in Range(S.watched_keys[k]) : wk.client = c
  <2>1. watchForKey(S, c, k) = T
    BY <1>1, <1>3 DEF watchForKey, Tables
  <2>2. e \in BOOLEAN
    BY DEF keyIsExpired
  <2> HIDE DEF e
  <2>3. x \in Watch /\ x.client = c /\ x.expired = e
    BY <2>2 DEF Watch
  <2> HIDE DEF x
  <2>4. /\ Append(S.watched_keys[k], x) \in Seq(Watch)
        /\ Range(Append(S.watched_keys[k], x)) = Range(S.watched_keys[k]) \cup {x}
    BY <1>1, <2>3, AppendSet
  <2>5. W \in [Keys -> Seq(Watch)] /\ Range(W[k]) = Range(S.watched_keys[k]) \cup {x}
        /\ \A j \in Keys \ {k} : W[j] = S.watched_keys[j]
    BY <1>1, <2>4
  <2> HIDE DEF W
  <2>6. /\ T \in Tables /\ T.db = S.db /\ T.blocked = S.blocked /\ T.ready_keys = S.ready_keys
        /\ T.blocking_keys = S.blocking_keys /\ T.silent = S.silent /\ T.dirty_cas = S.dirty_cas
        /\ T.watched_keys = W
    BY <1>1, <2>5, Zenon DEF Tables, Watch
  <2> HIDE DEF T
  <2>7. \A j \in Keys : keyIsExpired(T, j) <=> keyIsExpired(S, j)
    BY <2>6 DEF keyIsExpired
  <2>8. Good(T)
    <3>1. \A j \in Keys : \A w \in Range(T.watched_keys[j]) : w.expired => keyIsExpired(S, j)
      BY <2>3, <2>5, <2>6, SMTT(30) DEF Good, FlagsOK, e
    <3> QED
      BY <2>6, <2>7, <3>1 DEF Good, FlagsOK
  <2>9. WatchStep(S, T, {})
    <3>1. \A j \in Keys : Range(S.watched_keys[j]) \subseteq Range(T.watched_keys[j])
      BY <2>5, <2>6
    <3>2. \A j \in Keys : Logical(T, j) = Logical(S, j)
      BY <2>6 DEF Logical, keyIsExpired
    <3> QED
      BY <2>6, <2>7, <2>8, <3>1, <3>2 DEF WatchStep, Watched, StaleAt
  <2>10. Watched(T, c, k)
    BY <2>3, <2>5, <2>6 DEF Watched
  <2> QED
    BY <2>1, <2>6, <2>9, <2>10, Zenon
<1> QED
  BY <1>2, <1>3, Zenon

\* The clock passes the TTLs of keys: their watchers will be found.
LEMMA ElapsedWatch ==
  ASSUME NEW S, Good(S), NEW K \in SUBSET Mortal(S)
  PROVE  LET T == Elapsed(S, K)
         IN /\ WatchStep(S, T, {}) /\ T.blocked = S.blocked /\ T.ready_keys = S.ready_keys
            /\ T.blocking_keys = S.blocking_keys /\ T.silent = S.silent
            /\ \A j \in Keys : HoldsList(T, j) => HoldsList(S, j)
<1> DEFINE v(k) == [S.db[k] EXCEPT !.ttl = "expired"]
           d == [k \in Keys |-> IF k \in K THEN v(k) ELSE S.db[k]]
           T == [S EXCEPT !.db = d]
<1>1. S \in Tables /\ S.db \in [Keys -> Values \cup {None}]
  BY TablesTypes DEF Good
<1>2. \A k \in K : /\ k \in Keys /\ S.db[k] # None /\ S.db[k].ttl = "live"
                   /\ v(k) \in Values /\ v(k).ttl = "expired" /\ v(k) # None
  <2> TAKE k \in K
  <2> DEFINE o == S.db[k]
  <2>1. k \in Keys /\ o # None /\ o.ttl = "live"
    BY DEF Mortal
  <2>2. o \in Values
    BY <1>1, <2>1, StoredValue
  <2> HIDE DEF o
  <2>3. [o EXCEPT !.ttl = "expired"] \in Values /\ [o EXCEPT !.ttl = "expired"].ttl = "expired"
    BY <2>2, ValueUpdates, Zenon
  <2>4. [o EXCEPT !.ttl = "expired"] # None
    BY <2>3, ValueFacts
  <2> QED
    BY <2>1, <2>3, <2>4 DEF o
<1>3. Elapsed(S, K) = T
  BY DEF Elapsed
<1> HIDE DEF v
<1>4. /\ d \in [Keys -> Values \cup {None}] /\ \A k \in K : d[k] = v(k)
      /\ \A j \in Keys \ K : d[j] = S.db[j]
  BY <1>1, <1>2
<1> HIDE DEF d
<1>5. /\ T \in Tables /\ T.db = d /\ T.blocked = S.blocked /\ T.ready_keys = S.ready_keys
      /\ T.blocking_keys = S.blocking_keys /\ T.silent = S.silent /\ T.dirty_cas = S.dirty_cas
      /\ T.watched_keys = S.watched_keys
  BY <1>1, <1>4, Zenon DEF Tables
<1> HIDE DEF T
<1>6. /\ \A k \in K : keyIsExpired(T, k) /\ ~keyIsExpired(S, k)
      /\ \A j \in Keys \ K : /\ keyIsExpired(T, j) <=> keyIsExpired(S, j)
                             /\ Logical(T, j) = Logical(S, j)
                             /\ HoldsList(T, j) <=> HoldsList(S, j)
  <2>1. \A k \in K : keyIsExpired(T, k) /\ ~keyIsExpired(S, k)
    BY <1>2, <1>4, <1>5 DEF keyIsExpired
  <2>2. \A j \in Keys \ K : T.db[j] = S.db[j]
    BY <1>4, <1>5
  <2> QED
    BY <2>1, <2>2, ZenonT(30) DEF keyIsExpired, Logical, HoldsList
<1>7. \A j \in Keys : HoldsList(T, j) => HoldsList(S, j)
  BY <1>6, Zenon DEF HoldsList
<1>8. Good(T)
  BY <1>5, <1>6, Zenon DEF Good, FlagsOK
<1>9. WatchStep(S, T, {})
  <2>1. \A c \in Clients, k \in K : Watched(S, c, k) => StaleAt(T, c, k)
    BY <1>2, <1>5, <1>6, Zenon DEF Good, FlagsOK, Watched, StaleAt
  <2>2. \A c \in Clients, j \in Keys : Watched(S, c, j) <=> Watched(T, c, j)
    BY <1>5, SMTT(30) DEF Watched
  <2>3. \A c \in Clients, j \in Keys : StaleAt(S, c, j) => StaleAt(T, c, j)
    BY <1>5, <1>6, SMTT(30) DEF StaleAt
  <2> QED
    BY <1>5, <1>6, <1>8, <2>1, <2>2, <2>3, ZenonT(30) DEF WatchStep
<1> QED
  BY <1>3, <1>5, <1>7, <1>9, SMTT(30)

\* No new lists: nobody new to wake.
LEMMA SameBlock ==
  ASSUME NEW S, NEW T, NEW sv, BlockOK(S, sv), T.blocked = S.blocked,
         T.blocking_keys = S.blocking_keys, T.ready_keys = S.ready_keys, T.silent = S.silent,
         \A k \in Keys : HoldsList(T, k) => HoldsList(S, k)
  PROVE  BlockOK(T, sv)
BY ZenonT(30) DEF BlockOK, QueuesOK, ServingOK, WakeOK, Waits

\* What a command does, also one that begins to wait.
LEMMA CallStep ==
  ASSUME NEW S, Good(S), NEW sv, BlockOK(S, sv), NEW c \in Clients, S.blocked[c] = None,
         NEW cmd \in Cmds, NEW deny \in BOOLEAN
  PROVE  LET R == call(S, c, cmd, deny)
         IN /\ R \in Tables /\ BlockOK(R, sv) /\ WatchStep(S, R, {})
            /\ \A d \in Clients \ {c} : R.blocked[d] = S.blocked[d]
<1> DEFINE R == call(S, c, cmd, deny)
<1>1. Returns(S, R, c, cmd, deny)
  BY CallReturns, SMTT(30)
<1> HIDE DEF R
<1>2. PICK T \in Tables :
        /\ Runs(S, T)
        /\ \/ R = T
           \/ \E keys \in Seq(Keys) :
                /\ ~deny /\ R = blockForKeys(T, c, cmd, keys)
                /\ \A k \in Range(keys) : T.db[k] = None
  BY <1>1, Zenon DEF Returns
<1>3. S \in Tables /\ T.blocked = S.blocked /\ Good(T)
  BY <1>2, RunsGood, Zenon DEF Good, Runs, Pending
<1>4. BlockOK(T, sv) /\ WatchStep(S, T, {})
  BY <1>2, <1>3, RunsBlock, RunsWatch, Zenon
<1>5. CASE R = T
  BY <1>3, <1>4, <1>5 DEF R
<1>6. CASE R # T
  <2>1. PICK keys \in Seq(Keys) : /\ R = blockForKeys(T, c, cmd, keys)
                                  /\ \A k \in Range(keys) : T.db[k] = None
    BY <1>2, <1>6, Zenon
  <2> DEFINE B == blockForKeys(T, c, cmd, keys)
  <2>2. T.blocked[c] = None
    BY <1>3
  <2>3. /\ B \in Tables /\ BlockOK(B, sv) /\ \A d \in Clients \ {c} : B.blocked[d] = T.blocked[d]
        /\ B.db = T.db /\ B.watched_keys = T.watched_keys /\ B.dirty_cas = T.dirty_cas
    BY <1>4, <2>1, <2>2, BlockBlock, ZenonT(30)
  <2>4. R = B
    BY <2>1, Zenon
  <2> HIDE DEF B
  <2> DEFINE C == {}
  <2>5. WatchStep(S, T, C)
    BY <1>4
  <2> HIDE DEF C
  <2>6. WatchStep(T, R, C)
    BY <1>3, <2>3, <2>4, SameWatch
  <2>7. WatchStep(S, R, C)
    BY <2>5, <2>6, WatchTrans, SMTT(30)
  <2> QED
    BY <1>3, <2>3, <2>4, <2>7 DEF R, C
<1> QED
  BY <1>5, <1>6

-----------------------------------------------------------------------------
(* The queues of the clients that wait.                                    *)

\* A client waits for the keys its command names.
OwnKeys(w) == WaitKeys(w.cmd) \in Seq(Keys) /\ w.keys = Range(WaitKeys(w.cmd))

\* From S to T clients leave the queues or join them at the end.
QueueKeeps(S, T) ==
  /\ \A c \in Clients : S.blocked[c] # None => T.blocked[c] \in {S.blocked[c], None}
  /\ \A c \in Clients : S.blocked[c] = None /\ T.blocked[c] # None => OwnKeys(T.blocked[c])
  /\ \A d, c \in Clients, k \in Keys : S.blocked[d] # None /\ Waits(T, d, k) /\ Waits(T, c, k) =>
       /\ S.blocked[c] = None => Before(T.blocking_keys[k], d, c)
       /\ Before(S.blocking_keys[k], d, c) => Before(T.blocking_keys[k], d, c)

Quiet(S, T) == T.blocked = S.blocked /\ T.blocking_keys = S.blocking_keys

\* Nobody leaves and nobody joins.
LEMMA QuietKeeps ==
  ASSUME NEW S, NEW T, Quiet(S, T)
  PROVE  QueueKeeps(S, T)
BY DEF Quiet, QueueKeeps, Waits

\* Quiet steps before and after.
LEMMA KeepsQuiet ==
  ASSUME NEW S, NEW T, NEW U, QueueKeeps(S, T), Quiet(T, U)
  PROVE  QueueKeeps(S, U)
BY ZenonT(30) DEF Quiet, QueueKeeps, Waits

\* The client at the end of the queue.
LEMMA JoinBefore ==
  ASSUME NEW q \in Seq(Clients), NEW c \in Clients
  PROVE  /\ \A x \in Range(q) : Before(Append(q, c), x, c)
         /\ \A x, y : Before(q, x, y) => Before(Append(q, c), x, y)
<1> DEFINE s == Append(q, c)
<1>1. /\ Len(q) \in Nat /\ DOMAIN q = 1..Len(q) /\ DOMAIN s = 1..(Len(q) + 1)
      /\ s[Len(q) + 1] = c /\ \A i \in 1..Len(q) : s[i] = q[i]
  OBVIOUS
<1> HIDE DEF s
<1>2. \A x \in Range(q) : Before(s, x, c)
  <2> SUFFICES ASSUME NEW i \in 1..Len(q) PROVE Before(s, q[i], c)
    BY <1>1 DEF Range
  <2>1. i \in DOMAIN s /\ Len(q) + 1 \in DOMAIN s /\ i < Len(q) + 1
    BY <1>1
  <2> QED
    BY <1>1, <2>1 DEF Before
<1>3. \A x, y : Before(q, x, y) => Before(s, x, y)
  <2> SUFFICES ASSUME NEW i \in 1..Len(q), NEW j \in 1..Len(q), i < j PROVE Before(s, q[i], q[j])
    BY <1>1 DEF Before
  <2>1. i \in DOMAIN s /\ j \in DOMAIN s /\ s[i] = q[i] /\ s[j] = q[j]
    BY <1>1
  <2> QED
    BY <2>1 DEF Before
<1> QED
  BY <1>2, <1>3 DEF s

\* unblockClient takes one client out of the queues.
LEMMA UnblockKeeps ==
  ASSUME NEW S \in Tables, NEW c \in Clients, QueuesOK(S)
  PROVE  LET T == unblockClient(S, c)
         IN QueueKeeps(S, T) /\ T.db = S.db /\ T.blocked = [S.blocked EXCEPT ![c] = None]
<1> DEFINE q == [k \in Keys |-> releaseBlockedEntry(S.blocking_keys[k], c)]
           b == [S.blocked EXCEPT ![c] = None]
           T == [S EXCEPT !.blocking_keys = q, !.blocked = b]
<1>1. unblockClient(S, c) = T
  BY DEF unblockClient, Tables
<1>2. /\ S.blocking_keys \in [Keys -> Seq(Clients)]
      /\ S.blocked \in [Clients -> Waiting \cup {None}]
  BY TablesTypes
<1>3. \A k \in Keys : \A x, y : x # c /\ y # c /\ Before(S.blocking_keys[k], x, y) =>
        Before(releaseBlockedEntry(S.blocking_keys[k], c), x, y)
  <2> TAKE k \in Keys
  <2> DEFINE o == S.blocking_keys[k]
  <2>1. o \in Seq(Clients) /\ IsInjective(o)
    BY <1>2 DEF QueuesOK
  <2> HIDE DEF o
  <2>2. \A x, y : x # c /\ y # c /\ Before(o, x, y) => Before(releaseBlockedEntry(o, c), x, y)
    BY <2>1, ReleasedSet, SMTT(30)
  <2> QED
    BY <2>2 DEF o
<1>4. /\ \A k \in Keys : q[k] = releaseBlockedEntry(S.blocking_keys[k], c)
      /\ b[c] = None /\ \A d \in Clients \ {c} : b[d] = S.blocked[d]
  BY <1>2
<1> HIDE DEF q, b
<1>5. T.blocked = b /\ T.blocking_keys = q /\ T.db = S.db
  BY DEF Tables
<1> HIDE DEF T
<1>6. \A d \in Clients, k \in Keys : Waits(T, d, k) => d # c
  BY <1>4, <1>5 DEF Waits
<1>7. QueueKeeps(S, T)
  BY <1>3, <1>4, <1>5, <1>6, Zenon DEF QueueKeeps, Waits
<1> QED
  BY <1>1, <1>5, <1>7 DEF b

\* blockForKeys puts the client at the end of the queues of its keys.
LEMMA BlockKeeps ==
  ASSUME NEW S \in Tables, NEW c \in Clients, NEW cmd, QueuesOK(S), S.blocked[c] = None,
         WaitKeys(cmd) \in Seq(Keys)
  PROVE  LET T == blockForKeys(S, c, cmd, WaitKeys(cmd))
         IN QueueKeeps(S, T) /\ \A d \in Clients \ {c} : T.blocked[d] = S.blocked[d]
<1> DEFINE K == Range(WaitKeys(cmd))
           q == [k \in Keys |-> IF k \in K THEN Append(S.blocking_keys[k], c)
                                ELSE S.blocking_keys[k]]
           x == [cmd |-> cmd, keys |-> K]
           b == [S.blocked EXCEPT ![c] = x]
           T == [S EXCEPT !.blocking_keys = q, !.blocked = b]
<1>1. blockForKeys(S, c, cmd, WaitKeys(cmd)) = T
  BY SMTT(30) DEF blockForKeys, Tables
<1>2. /\ S.blocking_keys \in [Keys -> Seq(Clients)]
      /\ S.blocked \in [Clients -> Waiting \cup {None}]
  BY TablesTypes
<1>3. OwnKeys(x) /\ x.keys = K
  BY DEF OwnKeys
<1> HIDE DEF x, K
<1>4. b[c] = x /\ \A d \in Clients \ {c} : b[d] = S.blocked[d]
  BY <1>2, SMTT(30)
<1>5. \A k \in Keys : /\ \A y, z : Before(S.blocking_keys[k], y, z) => Before(q[k], y, z)
                      /\ k \in K => \A y \in Range(S.blocking_keys[k]) : Before(q[k], y, c)
  <2> TAKE k \in Keys
  <2> DEFINE o == S.blocking_keys[k]
  <2>1. o \in Seq(Clients)
    BY <1>2
  <2> HIDE DEF o
  <2>2. /\ \A y \in Range(o) : Before(Append(o, c), y, c)
        /\ \A y, z : Before(o, y, z) => Before(Append(o, c), y, z)
    BY <2>1, JoinBefore
  <2>3. q[k] = IF k \in K THEN Append(o, c) ELSE o
    BY DEF o
  <2> HIDE DEF q
  <2> QED
    BY <2>2, <2>3 DEF o
<1> HIDE DEF q, b
<1>6. T.blocked = b /\ T.blocking_keys = q
  BY DEF Tables
<1> HIDE DEF T
<1>7. QueueKeeps(S, T)
  <2>1. \A d \in Clients : S.blocked[d] # None => T.blocked[d] \in {S.blocked[d], None}
    BY <1>4, <1>6, Zenon
  <2>2. \A d \in Clients : S.blocked[d] = None /\ T.blocked[d] # None => OwnKeys(T.blocked[d])
    BY <1>3, <1>4, <1>6
  <2>3. ASSUME NEW d \in Clients, NEW e \in Clients, NEW k \in Keys, S.blocked[d] # None,
               Waits(T, d, k), Waits(T, e, k)
        PROVE  /\ S.blocked[e] = None => Before(T.blocking_keys[k], d, e)
               /\ Before(S.blocking_keys[k], d, e) => Before(T.blocking_keys[k], d, e)
    <3>1. Waits(S, d, k)
      BY <1>4, <1>6, <2>3 DEF Waits
    <3>2. d \in Range(S.blocking_keys[k])
      BY <3>1, SMTT(30) DEF QueuesOK
    <3>3. S.blocked[e] = None => e = c /\ k \in K
      BY <1>3, <1>4, <1>6, <2>3 DEF Waits
    <3> QED
      BY <1>5, <1>6, <3>2, <3>3, ZenonT(30)
  <2> QED
    BY <2>1, <2>2, <2>3, Zenon DEF QueueKeeps
<1> QED
  BY <1>1, <1>4, <1>6, <1>7, Zenon

\* A command never takes another client out of a queue.
LEMMA CallKeeps ==
  ASSUME NEW S, Good(S), NEW c \in Clients, QueuesOK(S), S.blocked[c] = None,
         NEW cmd \in Cmds, NEW deny \in BOOLEAN
  PROVE  LET R == call(S, c, cmd, deny)
         IN QueueKeeps(S, R) /\ \A d \in Clients \ {c} : R.blocked[d] = S.blocked[d]
<1> DEFINE R == call(S, c, cmd, deny)
<1>1. Returns(S, R, c, cmd, deny)
  BY CallReturns
<1> HIDE DEF R
<1>2. PICK T \in Tables :
        /\ Runs(S, T)
        /\ \/ R = T
           \/ \E keys \in Seq(Keys) :
                /\ ~deny /\ R = blockForKeys(T, c, cmd, keys) /\ keys = WaitKeys(cmd)
                /\ \A k \in Range(keys) : T.db[k] = None
  BY <1>1, Zenon DEF Returns
<1>3. Quiet(S, T)
  BY <1>2, Zenon DEF Runs, Pending, Quiet
<1>4. CASE R = T
  BY <1>3, <1>4, QuietKeeps, Zenon DEF Quiet, R
<1>5. CASE R # T
  <2>1. WaitKeys(cmd) \in Seq(Keys) /\ R = blockForKeys(T, c, cmd, WaitKeys(cmd))
    BY <1>2, <1>5, ZenonT(30)
  <2>2. QueuesOK(T) /\ T.blocked[c] = None
    BY <1>3 DEF Quiet, QueuesOK, Waits
  <2>3. QueueKeeps(T, R) /\ \A d \in Clients \ {c} : R.blocked[d] = T.blocked[d]
    BY <2>1, <2>2, BlockKeeps, Zenon
  <2>4. QueueKeeps(S, R)
    BY <1>3, <2>3, Zenon DEF Quiet, QueueKeeps
  <2> QED
    BY <1>3, <2>1, <2>3, <2>4, Zenon DEF Quiet, R
<1> QED
  BY <1>4, <1>5, Zenon
=============================================================================
