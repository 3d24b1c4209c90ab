--------------------------- MODULE ConnectionsProofs ---------------------------
(***************************************************************************)
(* Proofs about Connections for any number of members, creators, documents *)
(* and concurrent requests: type correctness, one document per pair, and   *)
(* mutual consent.                                                         *)
(***************************************************************************)
EXTENDS Connections, FiniteSetTheorems, TLAPS

-----------------------------------------------------------------------------
(* Facts about the data.                                                   *)

\* countDocuments of a creator's connected documents is a number.
LEMMA CountIsNat ==
  ASSUME NEW c PROVE CountConnected(c) \in Nat
<1> DEFINE S == {d \in Live : /\ connections[d].creator = c
                              /\ connections[d].keyedBy = "creator"
                              /\ connections[d].status = "connected"}
<1>1. S \subseteq ConnectionIds
  BY DEF Live
<1>2. IsFiniteSet(S)
  BY <1>1, ConnectionIdsFinite, FS_Subset
<1> QED
  BY <1>2, FS_CardinalityType DEF CountConnected

\* A loaded document is a stored one.
LEMMA LiveIsStored ==
  ASSUME TypeOK, NEW d \in Live PROVE connections[d] \in Stored
BY DEF TypeOK, Live

\* The edits the handlers make in memory stay within the schema's paths.
LEMMA EditTypes ==
  ASSUME NEW doc \in Stored, NEW direction
  PROVE  /\ Swiped(doc, direction) \in InMemory
         /\ [doc EXCEPT !.memberLiked = TRUE] \in InMemory
         /\ Accepted(doc) \in InMemory
         /\ Declined(doc) \in InMemory
BY Zenon DEF Stored, InMemory, Document, StatusEnum, Directions, Swiped, Accepted, Declined

\* A document built from the defaults is a stored one.
LEMMA NewConnectionType ==
  ASSUME NEW m \in Members, NEW c \in Creators
  PROVE  /\ NewConnection(m, c) \in Stored
         /\ DirectMessageConnection(m, c) \in InMemory
BY Zenon DEF NewConnection, DirectMessageConnection, Stored, InMemory, Document, StatusEnum, Directions

\* What a request holds after a load.
LEMMA HoldingType ==
  ASSUME NEW pc \in SaveSteps \cup StatSteps \cup {"swipe_likes"},
         NEW direction \in {"left", "right", "super"},
         NEW id \in ConnectionIds, NEW isNew \in BOOLEAN,
         NEW old \in Stored, NEW new \in InMemory
  PROVE  Holding(pc, direction, id, isNew, old, new) \in DocRequest
BY DEF Holding, DocRequest

\* A request at a step that has a document in memory is a DocRequest.
LEMMA RequestShape ==
  ASSUME TypeOK, NEW r \in Requests
  PROVE  /\ HoldsDoc(r) => req[r] \in DocRequest
         /\ \A step \in SaveSteps \cup StatSteps \cup {"swipe_likes"} :
              At(r, step) => req[r] \in DocRequest
         /\ At(r, "like_push") \/ At(r, "like_find") => req[r] \in LikeRequest
<1>1. req[r] \in {Idle} \cup LikeRequest \cup DocRequest
  BY DEF TypeOK
<1>2. req[r] \in LikeRequest => req[r].pc \in {"like_push", "like_find"}
  BY DEF LikeRequest
<1>3. req[r] \in DocRequest => req[r].pc \in SaveSteps \cup StatSteps \cup {"swipe_likes"}
  BY DEF DocRequest
<1> QED
  BY <1>1, <1>2, <1>3 DEF HoldsDoc, At, SaveSteps, StatSteps

\* Writing the changed paths of a valid copy over a stored document leaves a
\* stored document.
LEMMA DeltaType ==
  ASSUME NEW cur \in Stored, NEW old \in Stored, NEW new \in Stored
  PROVE  SaveDelta(cur, old, new) \in Stored
<1>1. Changed(cur.status, old.status, new.status) \in StatusEnum
  BY DEF Changed, Stored, Document
<1>2. /\ Changed(cur.memberLiked, old.memberLiked, new.memberLiked) \in BOOLEAN
      /\ Changed(cur.creatorLiked, old.creatorLiked, new.creatorLiked) \in BOOLEAN
      /\ Changed(cur.creatorAccepted, old.creatorAccepted, new.creatorAccepted) \in BOOLEAN
  BY DEF Changed, Stored, Document
<1>3. /\ Changed(cur.memberSwiped, old.memberSwiped, new.memberSwiped) \in Directions
      /\ Changed(cur.creatorSwiped, old.creatorSwiped, new.creatorSwiped) \in Directions
  BY DEF Changed, Stored, Document
<1> QED
  BY Zenon, <1>1, <1>2, <1>3 DEF SaveDelta, Stored, Document

\* A valid save leaves a collection of stored documents.
LEMMA SavedType ==
  ASSUME TypeOK, NEW q \in DocRequest, SaveSucceeds(q)
  PROVE  Saved(q) \in [ConnectionIds -> Stored \cup {Absent}]
<1>1. q.new \in Stored
  BY DEF SaveSucceeds, Valid, DocRequest, InMemory, Stored, Document
<1>2. CASE q.isNew
  BY <1>1, <1>2 DEF Saved, TypeOK, DocRequest
<1>3. CASE ~q.isNew
  <2>1. q.id \in Live
    BY <1>3 DEF SaveSucceeds
  <2>2. connections[q.id] \in Stored /\ q.old \in Stored
    BY <2>1, LiveIsStored DEF DocRequest
  <2>3. SaveDelta(connections[q.id], q.old, q.new) \in Stored
    BY <2>2, <1>1, DeltaType
  <2> QED
    BY <1>3, <2>3 DEF Saved, TypeOK, DocRequest
<1> QED
  BY <1>2, <1>3

-----------------------------------------------------------------------------
(* Type correctness.                                                       *)

\* One save() keeps the types, whatever request state follows it.
LEMMA SaveTypes ==
  ASSUME TypeOK, NEW r \in Requests, NEW step \in SaveSteps, NEW after,
         after \in {Idle} \cup LikeRequest \cup DocRequest,
         Save(r, step, after)
  PROVE  TypeOK'
<1>1. req[r] \in DocRequest
  BY RequestShape DEF Save
<1>2. SaveSucceeds(req[r]) => connections' \in [ConnectionIds -> Stored \cup {Absent}]
  BY <1>1, SavedType DEF Save
<1> QED
  BY <1>2 DEF Save, TypeOK

\* Loading a document or moving on in memory keeps the types.
LEMMA LoadTypes ==
  ASSUME TypeOK, NEW r \in Requests, NEW q,
         q \in {Idle} \cup LikeRequest \cup DocRequest, Load(r, q)
  PROVE  TypeOK'
BY DEF Load, TypeOK

\* Every step of every handler keeps the types.
LEMMA TypeStep == TypeOK /\ [Next]_vars => TypeOK'
<1> SUFFICES ASSUME TypeOK, [Next]_vars PROVE TypeOK'
  OBVIOUS
<1>1. ASSUME NEW r \in Requests, Continue(r) PROVE TypeOK'
  <2>1. CASE SwipeSave(r)
    <3>1. req[r] \in DocRequest
      BY <2>1, RequestShape DEF SwipeSave, Save, SaveSteps
    <3>2. [req[r] EXCEPT !.pc = "swipe_likes"] \in DocRequest
      BY <3>1 DEF DocRequest
    <3> QED
      BY <2>1, <3>2, SaveTypes DEF SwipeSave, SaveSteps
  <2>2. CASE LikeSave(r) \/ RespondSave(r) \/ CreateSave(r)
    BY <2>2, SaveTypes DEF LikeSave, RespondSave, CreateSave, SaveSteps
  <2>3. CASE SwipeLikes(r)
    <3>1. req[r] \in DocRequest
      BY <2>3, RequestShape DEF SwipeLikes
    <3>2. req[r].new.member \in Members /\ req[r].new.creator \in Creators
      BY <3>1 DEF DocRequest, InMemory, Document
    <3> QED
      BY <2>3, <3>2 DEF SwipeLikes, TypeOK
  <2>4. CASE LikePush(r)
    <3>1. req[r] \in LikeRequest
      BY <2>4, RequestShape DEF LikePush
    <3>2. [req[r] EXCEPT !.pc = "like_find"] \in LikeRequest
      BY <3>1 DEF LikeRequest
    <3>3. req[r].member \in Members /\ req[r].creator \in Creators
      BY <3>1 DEF LikeRequest
    <3> QED
      BY <2>4, <3>2, <3>3 DEF LikePush, TypeOK
  <2>5. CASE LikeFind(r)
    <3> DEFINE m == req[r].member
               c == req[r].creator
    <3>1. m \in Members /\ c \in Creators
      BY <2>5, RequestShape DEF LikeFind, LikeRequest
    <3>2. ASSUME NEW d \in Find(m, c, "creator"),
                 Load(r, Holding("like_save", "right", d, FALSE, connections[d],
                                 [connections[d] EXCEPT !.memberLiked = TRUE]))
          PROVE  TypeOK'
      <4>1. d \in Live
        BY DEF Find
      <4>2. d \in ConnectionIds
        BY <4>1 DEF Live
      <4> QED
        BY Zenon, <3>2, <4>1, <4>2, LiveIsStored, EditTypes, HoldingType, LoadTypes DEF SaveSteps
    <3>3. ASSUME NEW d \in ConnectionIds,
                 Load(r, Holding("like_save", "right", d, TRUE, NewConnection(m, c),
                                 [NewConnection(m, c) EXCEPT !.memberLiked = TRUE]))
          PROVE  TypeOK'
      BY Zenon, <3>1, <3>3, NewConnectionType, EditTypes, HoldingType, LoadTypes DEF SaveSteps
    <3> QED
      BY Zenon, <2>5, <3>2, <3>3 DEF LikeFind
  <2>6. CASE StatsFindCreator(r)
    <3>1. req[r] \in DocRequest
      BY <2>6, RequestShape DEF StatsFindCreator, StatSteps
    <3>2. totalConnections[req[r].old.creator] \in Nat
      BY <3>1 DEF TypeOK, DocRequest, Stored, Document
    <3>3. [req[r] EXCEPT !.pc = "respond_count",
                         !.total = totalConnections[req[r].old.creator]] \in DocRequest
      BY Zenon, <3>1, <3>2 DEF DocRequest, StatSteps
    <3> QED
      BY <2>6, <3>3, LoadTypes DEF StatsFindCreator
  <2>7. CASE StatsCount(r)
    <3>1. req[r] \in DocRequest
      BY <2>7, RequestShape DEF StatsCount, StatSteps
    <3>2. CountConnected(req[r].old.creator) \in Nat
      BY CountIsNat
    <3>3. [req[r] EXCEPT !.pc = "respond_stats",
                         !.count = CountConnected(req[r].old.creator)] \in DocRequest
      BY Zenon, <3>1, <3>2 DEF DocRequest, StatSteps
    <3> QED
      BY <2>7, <3>3, LoadTypes DEF StatsCount
  <2>8. CASE StatsSave(r)
    <3>1. req[r] \in DocRequest
      BY <2>8, RequestShape DEF StatsSave, StatSteps
    <3>2. [req[r] EXCEPT !.pc = "respond_save"] \in DocRequest
      BY <3>1 DEF DocRequest, SaveSteps
    <3>3. req[r].count \in Nat /\ req[r].old.creator \in Creators
      BY <3>1 DEF DocRequest, Stored, Document
    <3> QED
      BY <2>8, <3>2, <3>3 DEF StatsSave, TypeOK, Changed
  <2> QED
    BY <1>1, <2>1, <2>2, <2>3, <2>4, <2>5, <2>6, <2>7, <2>8 DEF Continue
<1>2. ASSUME NEW r \in Requests, Arrive(r) PROVE TypeOK'
  <2>1. ASSUME NEW m \in Members, NEW c \in Creators,
               NEW direction \in {"left", "right", "super"}, SwipeFind(r, m, c, direction)
        PROVE  TypeOK'
    <3>1. ASSUME NEW d \in Find(m, c, "creator"),
                 Load(r, Holding("swipe_save", direction, d, FALSE,
                                 connections[d], Swiped(connections[d], direction)))
          PROVE  TypeOK'
      <4>1. d \in Live
        BY DEF Find
      <4>2. d \in ConnectionIds
        BY <4>1 DEF Live
      <4> QED
        BY Zenon, <3>1, <4>1, <4>2, LiveIsStored, EditTypes, HoldingType, LoadTypes DEF SaveSteps
    <3>2. ASSUME NEW d \in ConnectionIds,
                 Load(r, Holding("swipe_save", direction, d, TRUE,
                                 NewConnection(m, c), Swiped(NewConnection(m, c), direction)))
          PROVE  TypeOK'
      BY Zenon, <3>2, NewConnectionType, EditTypes, HoldingType, LoadTypes DEF SaveSteps
    <3> QED
      BY Zenon, <2>1, <3>1, <3>2 DEF SwipeFind
  <2>2. ASSUME NEW m \in Members, NEW c \in Creators, LikeStart(r, m, c)
        PROVE  TypeOK'
    BY <2>2, LoadTypes DEF LikeStart, LikeRequest
  <2>3. ASSUME NEW m \in Members, NEW c \in Creators, CreateFind(r, m, c)
        PROVE  TypeOK'
    BY Zenon, <2>3, NewConnectionType, HoldingType, LoadTypes DEF CreateFind, SaveSteps
  <2>4. ASSUME NEW d \in ConnectionIds, AcceptFind(r, d) PROVE TypeOK'
    <3>1. connections[d] \in Stored
      BY <2>4, LiveIsStored DEF AcceptFind, IsPending
    <3> QED
      BY Zenon, <2>4, <3>1, EditTypes, HoldingType, LoadTypes DEF AcceptFind, StatSteps
  <2>5. ASSUME NEW d \in ConnectionIds, DeclineFind(r, d) PROVE TypeOK'
    <3>1. connections[d] \in Stored
      BY <2>5, LiveIsStored DEF DeclineFind, IsPending
    <3> QED
      BY Zenon, <2>5, <3>1, EditTypes, HoldingType, LoadTypes DEF DeclineFind, SaveSteps
  <2> QED
    BY <1>2, <2>1, <2>2, <2>3, <2>4, <2>5 DEF Arrive
<1>3. ASSUME NEW d \in ConnectionIds, Block(d) PROVE TypeOK'
  <2>1. [connections[d] EXCEPT !.status = "blocked"] \in Stored
    BY <1>3, LiveIsStored DEF Block, Stored, Document, StatusEnum
  <2> QED
    BY <1>3, <2>1 DEF Block, TypeOK
<1>4. ASSUME NEW S \in SUBSET ConnectionIds, Unmatch(S) PROVE TypeOK'
  BY <1>4 DEF Unmatch, TypeOK
<1>5. CASE Restart
  BY <1>5 DEF Restart, TypeOK
<1>6. CASE UNCHANGED vars
  BY <1>6 DEF vars, TypeOK
<1> QED
  BY <1>1, <1>2, <1>3, <1>4, <1>5, <1>6 DEF Next, Serve

\* The collection, Member.likes, Creator.stats and the requests in memory keep
\* their types; in particular no stored status is outside the schema's enum.
THEOREM TypeCorrect == Spec => []TypeOK
<1>1. Init => TypeOK
  BY DEF Init, TypeOK
<1> QED
  BY <1>1, TypeStep, PTL DEF Spec

-----------------------------------------------------------------------------
(* One document per pair.                                                  *)

\* An update never moves a document to another pair.
LEMMA DeltaKey ==
  ASSUME NEW cur \in Stored, NEW old, NEW new
  PROVE  SameKey(SaveDelta(cur, old, new), cur)
BY DEF SaveDelta, SameKey, Stored, Document

\* A save keeps pairs unique: an insert is refused by the index, an update
\* keeps its pair.
LEMMA SaveUnique ==
  ASSUME TypeOK, UniquePair, NEW r \in Requests, NEW step \in SaveSteps, NEW after,
         Save(r, step, after)
  PROVE  UniquePair'
<1>1. req[r] \in DocRequest
  BY RequestShape DEF Save
<1> DEFINE q == req[r]
<1>2. CASE ~SaveSucceeds(q)
  BY <1>2 DEF Save, UniquePair, Live
<1>3. CASE SaveSucceeds(q) /\ q.isNew
  <2>1. connections' = [connections EXCEPT ![q.id] = q.new]
    BY <1>3 DEF Save, Saved
  <2>2. \A d \in Live : ~SameKey(connections[d], q.new) /\ ~SameKey(q.new, connections[d])
    BY <1>3 DEF SaveSucceeds, SameKey
  <2>3. \A d \in Live' : d # q.id => d \in Live /\ connections'[d] = connections[d]
    BY <2>1, <1>1 DEF Live, TypeOK
  <2>4. q.id \in ConnectionIds /\ connections'[q.id] = q.new
    BY <2>1, <1>1 DEF TypeOK, DocRequest
  <2> QED
    BY <2>2, <2>3, <2>4 DEF UniquePair
<1>4. CASE SaveSucceeds(q) /\ ~q.isNew
  <2>1. q.id \in Live /\ connections[q.id] \in Stored
    BY <1>4, LiveIsStored DEF SaveSucceeds
  <2>2. connections' = [connections EXCEPT ![q.id] = SaveDelta(@, q.old, q.new)]
    BY <1>4 DEF Save, Saved
  <2>3. SameKey(SaveDelta(connections[q.id], q.old, q.new), connections[q.id])
    BY <2>1, DeltaKey
  <2>4. \A d \in Live' : d \in Live /\ SameKey(connections'[d], connections[d])
    BY <2>1, <2>2, <2>3 DEF Live, TypeOK, SameKey
  <2> QED
    BY <2>4 DEF UniquePair, SameKey
<1> QED
  BY <1>2, <1>3, <1>4

\* No step of any handler creates a second document for a pair.
LEMMA UniqueStep == TypeOK /\ UniquePair /\ [Next]_vars => UniquePair'
<1> SUFFICES ASSUME TypeOK, UniquePair, [Next]_vars PROVE UniquePair'
  OBVIOUS
<1>1. ASSUME NEW r \in Requests,
             SwipeSave(r) \/ LikeSave(r) \/ RespondSave(r) \/ CreateSave(r)
      PROVE  UniquePair'
  BY <1>1, SaveUnique DEF SwipeSave, LikeSave, RespondSave, CreateSave, SaveSteps
<1>2. ASSUME NEW d \in ConnectionIds, Block(d) PROVE UniquePair'
  <2>1. \A e \in ConnectionIds : e \in Live' => e \in Live /\ SameKey(connections'[e], connections[e])
    BY <1>2, LiveIsStored DEF Block, Live, TypeOK, SameKey, Stored, Document
  <2> QED
    BY <2>1 DEF UniquePair, SameKey, Live
<1>3. ASSUME NEW S \in SUBSET ConnectionIds, Unmatch(S) PROVE UniquePair'
  BY <1>3 DEF Unmatch, UniquePair, Live
<1>4. CASE UNCHANGED connections
  BY <1>4 DEF UniquePair, Live
<1>5. ASSUME NEW r \in Requests, Continue(r) \/ Arrive(r) PROVE UniquePair'
  <2>1. CASE Continue(r)
    BY Zenon, <2>1, <1>1, <1>4 DEF Continue, SwipeLikes, LikePush, LikeFind, StatsFindCreator,
       StatsCount, StatsSave, Load
  <2>2. CASE Arrive(r)
    BY Zenon, <2>2, <1>4 DEF Arrive, SwipeFind, LikeStart, CreateFind, AcceptFind, DeclineFind, Load
  <2> QED
    BY <1>5, <2>1, <2>2
<1> QED
  BY <1>2, <1>3, <1>4, <1>5 DEF Next, Serve, Restart, vars

\* At most one document per (creator, member) key, whatever inserts race.
THEOREM PairsAreUnique == Spec => []UniquePair
<1>1. Init => UniquePair
  BY DEF Init, UniquePair, Live
<1> QED
  BY <1>1, UniqueStep, TypeCorrect, PTL DEF Spec

-----------------------------------------------------------------------------
(* Mutual consent.                                                         *)

\* Merging consented edits into a consented document, which may be newer than
\* the copy the edits were made on, gives a consented document in which the
\* creator has taken nothing back.
LEMMA DeltaConsent ==
  ASSUME NEW cur \in Stored, NEW old \in Stored, NEW new \in Stored,
         Consented(cur), Keeps(old, cur), Keeps(old, new), new.memberLiked,
         new.creatorSwiped \in {old.creatorSwiped, "right"},
         new.status = "connected" => old.status = "connected" \/ Agreed(new)
  PROVE  /\ Consented(SaveDelta(cur, old, new))
         /\ Keeps(cur, SaveDelta(cur, old, new))
<1> DEFINE after == SaveDelta(cur, old, new)
<1>1. /\ after.keyedBy = cur.keyedBy
      /\ after.status = Changed(cur.status, old.status, new.status)
      /\ after.memberLiked = Changed(cur.memberLiked, old.memberLiked, new.memberLiked)
      /\ after.creatorLiked = Changed(cur.creatorLiked, old.creatorLiked, new.creatorLiked)
      /\ after.creatorAccepted =
           Changed(cur.creatorAccepted, old.creatorAccepted, new.creatorAccepted)
      /\ after.creatorSwiped = Changed(cur.creatorSwiped, old.creatorSwiped, new.creatorSwiped)
  BY DEF SaveDelta, Stored, Document
<1>2. /\ cur.creatorLiked \in BOOLEAN /\ old.creatorLiked \in BOOLEAN /\ new.creatorLiked \in BOOLEAN
      /\ cur.creatorAccepted \in BOOLEAN /\ old.creatorAccepted \in BOOLEAN
      /\ new.creatorAccepted \in BOOLEAN
      /\ cur.memberLiked \in BOOLEAN /\ old.memberLiked \in BOOLEAN /\ new.memberLiked \in BOOLEAN
  BY DEF Stored, Document
<1>3. Keeps(cur, after)
  BY <1>1, <1>2 DEF Keeps, Changed
<1>4. after.memberLiked \/ cur.keyedBy # "creator"
  BY Zenon, <1>1, <1>2 DEF Consented, Changed
<1>5. Agreed(new) => Agreed(after)
  BY Zenon, <1>1, <1>2 DEF Agreed, Keeps, Changed
<1>6. Agreed(cur) => Agreed(after)
  BY <1>3 DEF Agreed, Keeps
<1>7. after.status = "connected" => cur.status = "connected" \/ Agreed(new)
  BY <1>1 DEF Changed
<1> QED
  BY Zenon, <1>1, <1>3, <1>4, <1>5, <1>6, <1>7 DEF Consented

\* A request that ends, or that holds no document yet, adds no obligation.
LEMMA LeaveConsent ==
  ASSUME ConsentInv, NEW r \in Requests, NEW q, TypeOK,
         q = Idle \/ q \in LikeRequest,
         connections' = connections, req' = [req EXCEPT ![r] = q]
  PROVE  ConsentInv'
<1>1. ~HoldsDoc(r)' /\ \A s \in Requests \ {r} : req'[s] = req[s]
  BY DEF HoldsDoc, TypeOK, LikeRequest
<1>2. Live' = Live
  BY DEF Live
<1> QED
  BY <1>1, <1>2 DEF ConsentInv, HoldsDoc, CopyNotAhead, InsertIsFresh

\* A request may take up a document it has just read, one it has just built,
\* or move on with the one it holds.
LEMMA HoldConsent ==
  ASSUME ConsentInv, TypeOK, NEW r \in Requests, NEW q \in DocRequest,
         EditConsented(q), connections' = connections, req' = [req EXCEPT ![r] = q],
         \/ ~q.isNew /\ q.id \in Live /\ q.old = connections[q.id]
         \/ q.isNew /\ FreshId(q.id)
         \/ /\ HoldsDoc(r) /\ req[r].pc # "swipe_likes"
            /\ q.id = req[r].id /\ q.isNew = req[r].isNew /\ q.old = req[r].old
  PROVE  ConsentInv'
<1>1. req'[r] = q /\ \A s \in Requests \ {r} : req'[s] = req[s]
  BY DEF TypeOK
<1>2. Live' = Live
  BY DEF Live
<1>3. CopyNotAhead(q)
  BY DEF CopyNotAhead, Keeps, ConsentInv
<1>4. \A s \in Requests \ {r} : HoldsDoc(s) /\ req[s].isNew /\ req[s].pc # "swipe_likes"
        => req[s].id # q.id
  BY DEF ConsentInv, InsertIsFresh, FreshId
<1>5. q.isNew /\ q.pc # "swipe_likes" =>
        q.id \notin Live /\ \A s \in Requests \ {r} : HoldsDoc(s) => req[s].id # q.id
  BY Zenon DEF ConsentInv, InsertIsFresh, FreshId
<1>6. InsertIsFresh(r)'
  BY <1>1, <1>2, <1>5 DEF InsertIsFresh, HoldsDoc
<1>7. ASSUME NEW s \in Requests \ {r}, HoldsDoc(s) PROVE InsertIsFresh(s)'
  BY <1>1, <1>2, <1>4, <1>7 DEF InsertIsFresh, HoldsDoc, ConsentInv
<1>8. ASSUME NEW s \in Requests, HoldsDoc(s)'
      PROVE  EditConsented(req'[s]) /\ CopyNotAhead(req[s])' /\ InsertIsFresh(s)'
  BY <1>1, <1>2, <1>3, <1>6, <1>7, <1>8 DEF ConsentInv, HoldsDoc, CopyNotAhead
<1>9. \A d \in Live' : Consented(connections'[d])
  BY <1>2 DEF ConsentInv
<1> QED
  BY <1>8, <1>9 DEF ConsentInv

\* If every surviving document keeps the creator's agreement and the _ids
\* that appear are held by nobody else, the requests in flight stay safe.
LEMMA CollectionConsent ==
  ASSUME ConsentInv, TypeOK, NEW r \in Requests,
         \A s \in Requests \ {r} : req'[s] = req[s],
         \A d \in Live' : Consented(connections'[d]),
         \A d \in Live' : d \in Live => Keeps(connections[d], connections'[d]),
         \A d \in Live' \ Live, s \in Requests \ {r} : HoldsDoc(s) => req[s].id # d,
         req'[r] = Idle \/ (req'[r] = req[r] /\ Live' \subseteq Live)
           \/ (/\ HoldsDoc(r) /\ req'[r] = [req[r] EXCEPT !.pc = "swipe_likes"]
               /\ req[r].isNew \/ Live' \subseteq Live)
  PROVE  ConsentInv'
<1>1. ASSUME NEW s \in Requests \ {r}, HoldsDoc(s)
      PROVE  CopyNotAhead(req[s])' /\ InsertIsFresh(s)'
  <2>1. req'[s] = req[s] /\ req[s].id \notin Live' \ Live
    BY <1>1
  <2>2. CopyNotAhead(req[s]) /\ InsertIsFresh(s)
    BY <1>1 DEF ConsentInv
  <2>3. CopyNotAhead(req[s])'
    BY <2>1, <2>2 DEF CopyNotAhead, Keeps
  <2>4. HoldsDoc(r)' => HoldsDoc(r) /\ req'[r].id = req[r].id
    BY RequestShape DEF HoldsDoc, DocRequest
  <2>5. InsertIsFresh(s)'
    BY <2>1, <2>2, <2>4 DEF InsertIsFresh, HoldsDoc
  <2> QED
    BY <2>3, <2>5
<1>2. HoldsDoc(r)' =>
        EditConsented(req'[r]) /\ CopyNotAhead(req[r])' /\ InsertIsFresh(r)'
  <2>1. CASE req'[r] = Idle
    BY <2>1 DEF HoldsDoc
  <2>2. CASE req'[r] = req[r] /\ Live' \subseteq Live
    BY <2>2 DEF ConsentInv, HoldsDoc, CopyNotAhead, InsertIsFresh, Keeps
  <2>3. CASE /\ HoldsDoc(r) /\ req'[r] = [req[r] EXCEPT !.pc = "swipe_likes"]
             /\ req[r].isNew \/ Live' \subseteq Live
    <3>1. req[r] \in DocRequest
      BY <2>3, RequestShape
    <3>2. /\ req'[r].isNew = req[r].isNew /\ req'[r].id = req[r].id
          /\ req'[r].old = req[r].old /\ req'[r].new = req[r].new
          /\ req'[r].pc = "swipe_likes"
      BY <2>3, <3>1 DEF DocRequest
    <3>3. EditConsented(req[r]) /\ CopyNotAhead(req[r])
      BY <2>3 DEF ConsentInv
    <3>4. EditConsented(req'[r])
      BY <3>2, <3>3 DEF EditConsented
    <3>5. CopyNotAhead(req[r])'
      BY <2>3, <3>2, <3>3 DEF CopyNotAhead, Keeps
    <3> QED
      BY <3>2, <3>4, <3>5 DEF InsertIsFresh
  <2> QED
    BY <2>1, <2>2, <2>3
<1>3. \A s \in Requests \ {r} : HoldsDoc(s)' => HoldsDoc(s) /\ EditConsented(req'[s])
  BY DEF HoldsDoc, ConsentInv
<1> QED
  BY <1>1, <1>2, <1>3 DEF ConsentInv

\* One save() keeps consent, from however stale a copy.
LEMMA SaveConsent ==
  ASSUME TypeOK, ConsentInv, NEW r \in Requests, NEW step \in SaveSteps, NEW after,
         after = Idle \/ after = [req[r] EXCEPT !.pc = "swipe_likes"],
         Save(r, step, after)
  PROVE  ConsentInv'
<1> DEFINE q == req[r]
<1>1. q \in DocRequest /\ HoldsDoc(r) /\ q.pc # "swipe_likes"
  BY RequestShape DEF Save, At, HoldsDoc, SaveSteps
<1>2. EditConsented(q) /\ CopyNotAhead(q) /\ InsertIsFresh(r)
  BY <1>1 DEF ConsentInv
<1>3. CASE ~SaveSucceeds(q)
  BY <1>3, LeaveConsent DEF Save
<1>4. CASE SaveSucceeds(q) /\ q.isNew
  <2>1. connections' = [connections EXCEPT ![q.id] = q.new] /\ req' = [req EXCEPT ![r] = after]
    BY <1>4 DEF Save, Saved
  <2>2. Consented(q.new) /\ q.id \notin Live
    BY <1>1, <1>2, <1>4 DEF SaveSucceeds, EditConsented, InsertIsFresh
  <2>3. \A d \in Live' : IF d = q.id THEN connections'[d] = q.new
                                     ELSE d \in Live /\ connections'[d] = connections[d]
    BY <2>1 DEF Live, TypeOK
  <2>4. \A d \in Live' : Consented(connections'[d])
    BY <2>2, <2>3 DEF ConsentInv
  <2>5. \A d \in Live' : d \in Live => Keeps(connections[d], connections'[d])
    BY <2>2, <2>3 DEF Keeps
  <2>7. \A d \in Live' \ Live, s \in Requests \ {r} : HoldsDoc(s) => req[s].id # d
    BY <1>1, <1>2, <1>4, <2>3 DEF InsertIsFresh
  <2>8. req'[r] = after /\ \A s \in Requests \ {r} : req'[s] = req[s]
    BY <2>1 DEF TypeOK
  <2>9. req'[r] = Idle \/ (HoldsDoc(r) /\ req'[r] = [req[r] EXCEPT !.pc = "swipe_likes"]
                           /\ req[r].isNew)
    BY <1>1, <1>4, <2>8
  <2> HIDE DEF q
  <2> QED
    BY Zenon, <2>4, <2>5, <2>7, <2>8, <2>9, CollectionConsent
<1>5. CASE SaveSucceeds(q) /\ ~q.isNew
  <2>1. q.id \in Live /\ Valid(q.new)
    BY <1>5 DEF SaveSucceeds
  <2>2. /\ connections' = [connections EXCEPT ![q.id] = SaveDelta(connections[q.id], q.old, q.new)]
        /\ req' = [req EXCEPT ![r] = after]
    BY <1>5 DEF Save, Saved
  <2>3. connections[q.id] \in Stored /\ q.old \in Stored /\ q.new \in Stored
    BY <1>1, <2>1, LiveIsStored DEF DocRequest, Valid, Stored, InMemory, Document
  <2>4. Consented(connections[q.id]) /\ Keeps(q.old, connections[q.id])
    BY <1>2, <1>5, <2>1 DEF ConsentInv, CopyNotAhead
  <2>5. /\ Consented(SaveDelta(connections[q.id], q.old, q.new))
        /\ Keeps(connections[q.id], SaveDelta(connections[q.id], q.old, q.new))
    BY <1>2, <1>5, <2>1, <2>3, <2>4, DeltaConsent DEF EditConsented
  <2>6. \A d \in Live' : d \in Live /\ (d # q.id => connections'[d] = connections[d])
    BY <2>1, <2>2 DEF Live, TypeOK
  <2>7. connections'[q.id] = SaveDelta(connections[q.id], q.old, q.new)
    BY <1>1, <2>2 DEF TypeOK, DocRequest
  <2>8. \A d \in Live' : Consented(connections'[d])
    BY <2>5, <2>6, <2>7 DEF ConsentInv
  <2>9. \A d \in Live' : d \in Live => Keeps(connections[d], connections'[d])
    BY <2>5, <2>6, <2>7 DEF Keeps
  <2>10. req'[r] = after /\ \A s \in Requests \ {r} : req'[s] = req[s]
    BY <2>2 DEF TypeOK
  <2> HIDE DEF q
  <2> QED
    BY Zenon, <1>1, <2>6, <2>8, <2>9, <2>10, CollectionConsent
<1> QED
  BY <1>3, <1>4, <1>5

\* The edits of a consented document that the handlers make are consented.
LEMMA EditsConsented ==
  ASSUME NEW doc \in Stored, doc.keyedBy = "creator", Consented(doc),
         NEW pc, NEW direction, NEW id
  PROVE  /\ EditConsented(Holding(pc, direction, id, FALSE, doc, Swiped(doc, direction)))
         /\ EditConsented(Holding(pc, direction, id, FALSE, doc,
                                  [doc EXCEPT !.memberLiked = TRUE]))
         /\ EditConsented(Holding(pc, direction, id, FALSE, doc, Declined(doc)))
         /\ EditConsented(Holding(pc, direction, id, FALSE, doc, Accepted(doc)))
<1> USE DEF Stored, Document, Directions, StatusEnum, Consented, EditConsented, Holding, Keeps, Agreed
<1>1. EditConsented(Holding(pc, direction, id, FALSE, doc, Swiped(doc, direction)))
  <2>1. CASE direction = "left"
    BY Zenon, <2>1 DEF Swiped, Valid
  <2>2. CASE direction # "left"
    BY Zenon, <2>2 DEF Swiped
  <2> QED
    BY <2>1, <2>2
<1>2. EditConsented(Holding(pc, direction, id, FALSE, doc, [doc EXCEPT !.memberLiked = TRUE]))
  OBVIOUS
<1>3. EditConsented(Holding(pc, direction, id, FALSE, doc, Declined(doc)))
  BY Zenon DEF Declined, Valid
<1>4. EditConsented(Holding(pc, direction, id, FALSE, doc, Accepted(doc)))
  BY Zenon DEF Accepted
<1> QED
  BY <1>1, <1>2, <1>3, <1>4

\* So are the documents they insert.
LEMMA InsertsConsented ==
  ASSUME NEW m, NEW c, NEW pc, NEW direction, NEW id, NEW old
  PROVE  /\ EditConsented(Holding(pc, direction, id, TRUE, old,
                                  Swiped(NewConnection(m, c), direction)))
         /\ EditConsented(Holding(pc, direction, id, TRUE, old,
                                  [NewConnection(m, c) EXCEPT !.memberLiked = TRUE]))
         /\ EditConsented(Holding(pc, direction, id, TRUE, old, DirectMessageConnection(m, c)))
BY Zenon DEF EditConsented, Holding, Consented, Valid, StatusEnum, Swiped, NewConnection,
       DirectMessageConnection

\* A handler may take up a stored document of the swipe flow with a consented edit.
LEMMA TakeUp ==
  ASSUME TypeOK, ConsentInv, NEW r \in Requests, NEW d \in Live, NEW new \in InMemory,
         NEW pc \in SaveSteps \cup StatSteps, NEW direction \in {"left", "right", "super"},
         EditConsented(Holding(pc, direction, d, FALSE, connections[d], new)),
         Load(r, Holding(pc, direction, d, FALSE, connections[d], new))
  PROVE  ConsentInv'
<1> DEFINE q == Holding(pc, direction, d, FALSE, connections[d], new)
<1>1. q \in DocRequest
  BY Zenon, LiveIsStored, HoldingType DEF Live
<1>2. ~q.isNew /\ q.id \in Live /\ q.old = connections[q.id]
  BY DEF Holding
<1>3. connections' = connections /\ req' = [req EXCEPT ![r] = q] /\ EditConsented(q)
  BY Zenon DEF Load
<1> HIDE DEF q
<1> QED
  BY Zenon, <1>1, <1>2, <1>3, HoldConsent

\* Or build a new document under a fresh _id.
LEMMA BuildNew ==
  ASSUME TypeOK, ConsentInv, NEW r \in Requests, NEW d \in ConnectionIds, FreshId(d),
         NEW old \in Stored, NEW new \in InMemory,
         NEW pc \in SaveSteps, NEW direction \in {"left", "right", "super"},
         EditConsented(Holding(pc, direction, d, TRUE, old, new)),
         Load(r, Holding(pc, direction, d, TRUE, old, new))
  PROVE  ConsentInv'
<1> DEFINE q == Holding(pc, direction, d, TRUE, old, new)
<1>1. q \in DocRequest
  BY Zenon, HoldingType
<1>2. q.isNew /\ FreshId(q.id)
  BY DEF Holding
<1>3. connections' = connections /\ req' = [req EXCEPT ![r] = q] /\ EditConsented(q)
  BY Zenon DEF Load
<1> HIDE DEF q
<1> QED
  BY Zenon, <1>1, <1>2, <1>3, HoldConsent

\* A request moves on with the document it holds.
LEMMA MoveOn ==
  ASSUME TypeOK, ConsentInv, NEW r \in Requests, NEW q \in DocRequest,
         NEW step \in StatSteps, At(r, step),
         q.id = req[r].id, q.isNew = req[r].isNew, q.old = req[r].old, q.new = req[r].new,
         connections' = connections, req' = [req EXCEPT ![r] = q]
  PROVE  ConsentInv'
<1>1. HoldsDoc(r) /\ req[r].pc # "swipe_likes"
  BY DEF At, HoldsDoc, StatSteps
<1>2. EditConsented(q)
  BY <1>1 DEF ConsentInv, EditConsented
<1> QED
  BY Zenon, <1>1, <1>2, HoldConsent

\* A step of a request already in flight keeps consent.
LEMMA ContinueConsent ==
  ASSUME TypeOK, ConsentInv, NEW r \in Requests, Continue(r) PROVE ConsentInv'
<1>1. CASE SwipeSave(r) \/ LikeSave(r) \/ RespondSave(r) \/ CreateSave(r)
  BY <1>1, SaveConsent DEF SwipeSave, LikeSave, RespondSave, CreateSave, SaveSteps
<1>2. CASE SwipeLikes(r)
  BY Zenon, <1>2, LeaveConsent DEF SwipeLikes
<1>3. CASE LikePush(r)
  <2>1. [req[r] EXCEPT !.pc = "like_find"] \in LikeRequest
    BY <1>3, RequestShape DEF LikePush, LikeRequest
  <2> QED
    BY Zenon, <1>3, <2>1, LeaveConsent DEF LikePush
<1>4. CASE LikeFind(r)
  <2> DEFINE m == req[r].member
             c == req[r].creator
  <2>1. m \in Members /\ c \in Creators
    BY <1>4, RequestShape DEF LikeFind, LikeRequest
  <2>2. ASSUME NEW d \in Find(m, c, "creator"),
               Load(r, Holding("like_save", "right", d, FALSE, connections[d],
                               [connections[d] EXCEPT !.memberLiked = TRUE]))
        PROVE  ConsentInv'
    <3>1. d \in Live /\ connections[d].keyedBy = "creator" /\ Consented(connections[d])
      BY DEF Find, ConsentInv
    <3> DEFINE new == [connections[d] EXCEPT !.memberLiked = TRUE]
    <3>2. new \in InMemory
      BY <3>1, LiveIsStored, EditTypes
    <3>3. EditConsented(Holding("like_save", "right", d, FALSE, connections[d], new))
      BY Zenon, <3>1, LiveIsStored, EditsConsented
    <3>4. Load(r, Holding("like_save", "right", d, FALSE, connections[d], new))
      BY Zenon, <2>2
    <3> HIDE DEF new
    <3> QED
      BY Zenon, <3>1, <3>2, <3>3, <3>4, TakeUp DEF SaveSteps
  <2>3. ASSUME NEW d \in ConnectionIds, FreshId(d),
               Load(r, Holding("like_save", "right", d, TRUE, NewConnection(m, c),
                               [NewConnection(m, c) EXCEPT !.memberLiked = TRUE]))
        PROVE  ConsentInv'
    <3> DEFINE old == NewConnection(m, c)
               new == [old EXCEPT !.memberLiked = TRUE]
    <3>1. old \in Stored /\ new \in InMemory
      BY <2>1, NewConnectionType, EditTypes
    <3>2. EditConsented(Holding("like_save", "right", d, TRUE, old, new))
      BY Zenon, InsertsConsented
    <3>3. Load(r, Holding("like_save", "right", d, TRUE, old, new))
      BY Zenon, <2>3
    <3> HIDE DEF old, new
    <3> QED
      BY Zenon, <2>3, <3>1, <3>2, <3>3, BuildNew DEF SaveSteps
  <2> QED
    BY Zenon, <1>4, <2>2, <2>3 DEF LikeFind
<1>5. CASE StatsFindCreator(r)
  <2>1. req[r] \in DocRequest
    BY <1>5, RequestShape DEF StatsFindCreator, StatSteps
  <2>2. totalConnections[req[r].old.creator] \in Nat
    BY <2>1 DEF TypeOK, DocRequest, Stored, Document
  <2> DEFINE q == [req[r] EXCEPT !.pc = "respond_count",
                                 !.total = totalConnections[req[r].old.creator]]
  <2>3. /\ q \in DocRequest /\ q.id = req[r].id /\ q.isNew = req[r].isNew
        /\ q.old = req[r].old /\ q.new = req[r].new
    BY Zenon, <2>1, <2>2 DEF DocRequest, StatSteps
  <2> QED
    BY Zenon, <1>5, <2>3, MoveOn DEF StatsFindCreator, Load, StatSteps
<1>6. CASE StatsCount(r)
  <2>1. req[r] \in DocRequest
    BY <1>6, RequestShape DEF StatsCount, StatSteps
  <2>2. CountConnected(req[r].old.creator) \in Nat
    BY CountIsNat
  <2> DEFINE q == [req[r] EXCEPT !.pc = "respond_stats",
                                 !.count = CountConnected(req[r].old.creator)]
  <2>3. /\ q \in DocRequest /\ q.id = req[r].id /\ q.isNew = req[r].isNew
        /\ q.old = req[r].old /\ q.new = req[r].new
    BY Zenon, <2>1, <2>2 DEF DocRequest, StatSteps
  <2> QED
    BY Zenon, <1>6, <2>3, MoveOn DEF StatsCount, Load, StatSteps
<1>7. CASE StatsSave(r)
  <2>1. req[r] \in DocRequest
    BY <1>7, RequestShape DEF StatsSave, StatSteps
  <2> DEFINE q == [req[r] EXCEPT !.pc = "respond_save"]
  <2>2. /\ q \in DocRequest /\ q.id = req[r].id /\ q.isNew = req[r].isNew
        /\ q.old = req[r].old /\ q.new = req[r].new
    BY <2>1 DEF DocRequest, SaveSteps
  <2>3. req' = [req EXCEPT ![r] = q]
    BY <1>7 DEF StatsSave
  <2> QED
    BY Zenon, <1>7, <2>2, <2>3, MoveOn DEF StatsSave, StatSteps
<1> QED
  BY <1>1, <1>2, <1>3, <1>4, <1>5, <1>6, <1>7 DEF Continue

\* A request that arrives keeps consent.
LEMMA ArriveConsent ==
  ASSUME TypeOK, ConsentInv, NEW r \in Requests, Arrive(r) PROVE ConsentInv'
<1>1. ASSUME NEW m \in Members, NEW c \in Creators,
             NEW direction \in {"left", "right", "super"}, SwipeFind(r, m, c, direction)
      PROVE  ConsentInv'
  <2>1. ASSUME NEW d \in Find(m, c, "creator"),
               Load(r, Holding("swipe_save", direction, d, FALSE,
                               connections[d], Swiped(connections[d], direction)))
        PROVE  ConsentInv'
    <3>1. d \in Live /\ connections[d].keyedBy = "creator" /\ Consented(connections[d])
      BY DEF Find, ConsentInv
    <3> DEFINE new == Swiped(connections[d], direction)
    <3>2. new \in InMemory
      BY Zenon, <3>1, LiveIsStored, EditTypes
    <3>3. EditConsented(Holding("swipe_save", direction, d, FALSE, connections[d], new))
      BY Zenon, <3>1, LiveIsStored, EditsConsented
    <3>4. Load(r, Holding("swipe_save", direction, d, FALSE, connections[d], new))
      BY Zenon, <2>1
    <3> HIDE DEF new
    <3> QED
      BY Zenon, <3>1, <3>2, <3>3, <3>4, TakeUp DEF SaveSteps
  <2>2. ASSUME NEW d \in ConnectionIds, FreshId(d),
               Load(r, Holding("swipe_save", direction, d, TRUE,
                               NewConnection(m, c), Swiped(NewConnection(m, c), direction)))
        PROVE  ConsentInv'
    <3> DEFINE old == NewConnection(m, c)
               new == Swiped(old, direction)
    <3>1. old \in Stored /\ new \in InMemory
      BY Zenon, NewConnectionType, EditTypes
    <3>2. EditConsented(Holding("swipe_save", direction, d, TRUE, old, new))
      BY Zenon, InsertsConsented
    <3>3. Load(r, Holding("swipe_save", direction, d, TRUE, old, new))
      BY Zenon, <2>2
    <3> HIDE DEF old, new
    <3> QED
      BY Zenon, <2>2, <3>1, <3>2, <3>3, BuildNew DEF SaveSteps
  <2> QED
    BY Zenon, <1>1, <2>1, <2>2 DEF SwipeFind
<1>2. ASSUME NEW m \in Members, NEW c \in Creators, LikeStart(r, m, c) PROVE ConsentInv'
  BY Zenon, <1>2, LeaveConsent DEF LikeStart, LikeRequest, Load
<1>3. ASSUME NEW m \in Members, NEW c \in Creators, CreateFind(r, m, c) PROVE ConsentInv'
  <2> DEFINE old == NewConnection(m, c)
             new == DirectMessageConnection(m, c)
  <2>1. old \in Stored /\ new \in InMemory
    BY NewConnectionType
  <2>2. PICK d \in ConnectionIds :
          FreshId(d) /\ Load(r, Holding("create_save", "right", d, TRUE, old, new))
    BY Zenon, <1>3 DEF CreateFind
  <2>3. EditConsented(Holding("create_save", "right", d, TRUE, old, new))
    BY Zenon, InsertsConsented
  <2> HIDE DEF old, new
  <2> QED
    BY Zenon, <2>1, <2>2, <2>3, BuildNew DEF SaveSteps
<1>4. ASSUME NEW d \in ConnectionIds, AcceptFind(r, d) \/ DeclineFind(r, d) PROVE ConsentInv'
  <2>1. d \in Live /\ connections[d].keyedBy = "creator" /\ Consented(connections[d])
    BY Zenon, <1>4 DEF AcceptFind, DeclineFind, IsPending, ConsentInv
  <2> DEFINE yes == Accepted(connections[d])
             no  == Declined(connections[d])
  <2>2. yes \in InMemory /\ no \in InMemory
    BY Zenon, <2>1, LiveIsStored, EditTypes
  <2>3. /\ EditConsented(Holding("respond_creator", "right", d, FALSE, connections[d], yes))
        /\ EditConsented(Holding("respond_save", "left", d, FALSE, connections[d], no))
    BY Zenon, <2>1, LiveIsStored, EditsConsented
  <2>4. \/ Load(r, Holding("respond_creator", "right", d, FALSE, connections[d], yes))
        \/ Load(r, Holding("respond_save", "left", d, FALSE, connections[d], no))
    BY Zenon, <1>4 DEF AcceptFind, DeclineFind
  <2> HIDE DEF yes, no
  <2> QED
    BY Zenon, <2>1, <2>2, <2>3, <2>4, TakeUp DEF SaveSteps, StatSteps
<1> QED
  BY <1>1, <1>2, <1>3, <1>4 DEF Arrive

\* Every step keeps the strengthened invariant.
LEMMA ConsentStep == TypeOK /\ ConsentInv /\ [Next]_vars => ConsentInv'
<1> SUFFICES ASSUME TypeOK, ConsentInv, [Next]_vars PROVE ConsentInv'
  OBVIOUS
<1>1. ASSUME NEW d \in ConnectionIds, Block(d) PROVE ConsentInv'
  <2>0. [connections[d] EXCEPT !.status = "blocked"] \in Stored
    BY <1>1, LiveIsStored DEF Block, Stored, Document, StatusEnum
  <2>1. Live' = Live /\ req' = req
    BY <1>1, <2>0, SentinelsAssumption DEF Block, Live, TypeOK
  <2>2. \A e \in Live : /\ Consented(connections'[e])
                        /\ Keeps(connections[e], connections'[e])
    BY <1>1, LiveIsStored DEF Block, Live, TypeOK, ConsentInv, Consented, Keeps, Agreed,
       Stored, Document
  <2>3. \A r \in Requests : CopyNotAhead(req[r]) => CopyNotAhead(req[r])'
    BY <2>1, <2>2 DEF CopyNotAhead, Keeps
  <2> QED
    BY <2>1, <2>2, <2>3 DEF ConsentInv, HoldsDoc, InsertIsFresh
<1>2. ASSUME NEW S \in SUBSET ConnectionIds, Unmatch(S) PROVE ConsentInv'
  <2>1. /\ Live' \subseteq Live /\ req' = req
        /\ \A d \in Live' : connections'[d] = connections[d]
    BY <1>2 DEF Unmatch, Live
  <2> QED
    BY <2>1 DEF ConsentInv, HoldsDoc, CopyNotAhead, InsertIsFresh
<1>3. CASE Restart
  BY <1>3 DEF Restart, ConsentInv, HoldsDoc, Live
<1>4. CASE UNCHANGED vars
  BY <1>4 DEF vars, ConsentInv, HoldsDoc, CopyNotAhead, InsertIsFresh, Live
<1> QED
  BY <1>1, <1>2, <1>3, <1>4, ContinueConsent, ArriveConsent DEF Next, Serve

\* ConsentInv holds in every reachable state: no save still to come, however
\* old its copy, can take away the consent of a connected document.
THEOREM ConsentInvariant == Spec => []ConsentInv
<1>1. Init => ConsentInv
  BY DEF Init, ConsentInv, Live, HoldsDoc
<1> QED
  BY <1>1, ConsentStep, TypeCorrect, PTL DEF Spec

\* A connected document of the swipe flow always carries the member's like
\* and the creator's acceptance, for any number of stale requests in flight.
THEOREM ConsentIsMutual == Spec => []MutualConsent
<1>1. ConsentInv => MutualConsent
  BY DEF ConsentInv, MutualConsent, Consented, Agreed
<1> QED
  BY <1>1, ConsentInvariant, PTL

=============================================================================
