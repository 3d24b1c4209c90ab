------------------------------ MODULE Connections ------------------------------
(***************************************************************************)
(* The CreatorConnection collection and the handlers that change it: swipe *)
(* and legacy like (members), accept and decline (creators), block, delete *)
(* and the creator's find-or-create for direct messages.                   *)
(*                                                                         *)
(* Node runs one handler at a time but switches between requests at every  *)
(* await, so a handler is a sequence of actions, one per database call.    *)
(* Between them it keeps the document it loaded (old) and its edited copy  *)
(* (new); Mongoose's save() writes only the paths that differ.             *)
(***************************************************************************)
EXTENDS Naturals, FiniteSets

CONSTANTS Members,        \* Member documents
          Creators,       \* Creator documents
          ConnectionIds,  \* ObjectIds of CreatorConnection documents
          Requests,       \* HTTP requests being served at the same time
          Absent,         \* no document has this _id
          Idle            \* the request slot is free

\* The collection is finite: countDocuments returns a number.
ASSUME ConnectionIdsFinite == IsFiniteSet(ConnectionIds)

VARIABLES connections,      \* the collection: _id -> document
          likes,            \* Member.likes: the creators a member has liked
          totalConnections, \* Creator.stats.totalConnections
          req               \* what each request has in memory

vars == <<connections, likes, totalConnections, req>>

-----------------------------------------------------------------------------
(* Documents.                                                              *)

\* The values the schema accepts for status.
StatusEnum == {"pending", "connected", "disconnected", "blocked"}

Directions == {"none", "right", "left"}

\* keyedBy: the creator path holds either the _id of a Creator document or,
\* when findOrCreateConnection wrote it, the _id of the creator's User.
Document(statuses) ==
  [member: Members, creator: Creators, keyedBy: {"creator", "user"},
   status: statuses, memberLiked: BOOLEAN, creatorLiked: BOOLEAN,
   creatorAccepted: BOOLEAN, memberSwiped: Directions, creatorSwiped: Directions]

Stored   == Document(StatusEnum)
InMemory == Document(StatusEnum \cup {"rejected"})

\* A document with the schema's defaults.
NewConnection(m, c) ==
  [member |-> m, creator |-> c, keyedBy |-> "creator",
   status |-> "pending", memberLiked |-> FALSE, creatorLiked |-> FALSE,
   creatorAccepted |-> FALSE, memberSwiped |-> "none", creatorSwiped |-> "none"]

Live == {d \in ConnectionIds : connections[d] # Absent}

SameKey(x, y) ==
  x.member = y.member /\ x.creator = y.creator /\ x.keyedBy = y.keyedBy

Find(m, c, key) ==
  {d \in Live : /\ connections[d].member = m
                /\ connections[d].creator = c
                /\ connections[d].keyedBy = key}

CountConnected(c) ==
  Cardinality({d \in Live : /\ connections[d].creator = c
                            /\ connections[d].keyedBy = "creator"
                            /\ connections[d].status = "connected"})

-----------------------------------------------------------------------------
(* Requests.                                                               *)

\* A like before it has looked for the connection.
LikeRequest == [pc: {"like_push", "like_find"}, member: Members, creator: Creators]

SaveSteps == {"swipe_save", "like_save", "create_save", "respond_save"}

StatSteps == {"respond_creator", "respond_count", "respond_stats"}

\* A request that holds a connection in memory.
DocRequest ==
  [pc: SaveSteps \cup StatSteps \cup {"swipe_likes"}, direction: {"left", "right", "super"},
   id: ConnectionIds, isNew: BOOLEAN, old: Stored, new: InMemory,
   total: Nat, count: Nat]

Holding(pc, direction, id, isNew, old, new) ==
  [pc |-> pc, direction |-> direction, id |-> id, isNew |-> isNew,
   old |-> old, new |-> new, total |-> 0, count |-> 0]

At(r, step) == req[r] # Idle /\ req[r].pc = step

HoldsDoc(r) == req[r] # Idle /\ req[r].pc \notin {"like_push", "like_find"}

\* new CreatorConnection() draws an ObjectId nobody uses or holds.
FreshId(d) ==
  /\ d \in ConnectionIds \ Live
  /\ \A r \in Requests : HoldsDoc(r) => req[r].id # d

TypeOK ==
  /\ connections \in [ConnectionIds -> Stored \cup {Absent}]
  /\ likes \in [Members -> SUBSET Creators]
  /\ totalConnections \in [Creators -> Nat]
  /\ req \in [Requests -> {Idle} \cup LikeRequest \cup DocRequest]

Init ==
  /\ connections = [d \in ConnectionIds |-> Absent]
  /\ likes = [m \in Members |-> {}]
  /\ totalConnections = [c \in Creators |-> 0]
  /\ req = [r \in Requests |-> Idle]

-----------------------------------------------------------------------------
(* save(): validation, then an insert or an update of the changed paths.   *)

\* Mutant: the schema's enum is not enforced.
AnyStatus(doc) == doc.status \in StatusEnum \cup {"rejected"}

Valid(doc) == doc.status \in StatusEnum

Changed(cur, old, new) == IF new = old THEN cur ELSE new

SaveDelta(cur, old, new) ==
  [cur EXCEPT !.status          = Changed(cur.status, old.status, new.status),
              !.memberLiked     = Changed(cur.memberLiked, old.memberLiked, new.memberLiked),
              !.creatorLiked    = Changed(cur.creatorLiked, old.creatorLiked, new.creatorLiked),
              !.creatorAccepted = Changed(cur.creatorAccepted, old.creatorAccepted, new.creatorAccepted),
              !.memberSwiped    = Changed(cur.memberSwiped, old.memberSwiped, new.memberSwiped),
              !.creatorSwiped   = Changed(cur.creatorSwiped, old.creatorSwiped, new.creatorSwiped)]

\* Mutant: the index on (creator, member) is not unique.
NoUniqueIndex(q) == Valid(q.new) /\ (q.isNew \/ q.id \in Live)

\* The unique index on (creator, member) rejects a second insert, and an
\* update of a document deleted meanwhile is a DocumentNotFoundError.
SaveSucceeds(q) ==
  /\ Valid(q.new)
  /\ IF q.isNew THEN \A d \in Live : ~SameKey(connections[d], q.new)
                ELSE q.id \in Live

Saved(q) ==
  [connections EXCEPT ![q.id] =
     IF q.isNew THEN q.new ELSE SaveDelta(@, q.old, q.new)]

\* One save(): continue with the request state after, or answer 500 when it throws.
Save(r, step, after) ==
  /\ At(r, step)
  /\ IF SaveSucceeds(req[r])
       THEN connections' = Saved(req[r]) /\ req' = [req EXCEPT ![r] = after]
       ELSE connections' = connections /\ req' = [req EXCEPT ![r] = Idle]
  /\ UNCHANGED <<likes, totalConnections>>

Load(r, q) ==
  /\ req' = [req EXCEPT ![r] = q]
  /\ UNCHANGED <<connections, likes, totalConnections>>

-----------------------------------------------------------------------------
(* POST /connections/swipe: swipeAction calling processSwipe.              *)

\* Mutant: only the exact direction 'right' counts as a like.
SuperIsNoLike(doc, direction) ==
  IF direction = "left"
    THEN [doc EXCEPT !.memberSwiped = "left", !.status = "rejected"]
    ELSE [doc EXCEPT !.memberSwiped = "right", !.memberLiked = direction = "right",
                     !.status = "pending"]

\* A left swipe asks for a status the schema does not have.
Swiped(doc, direction) ==
  IF direction = "left"
    THEN [doc EXCEPT !.memberSwiped = "left", !.status = "rejected"]
    ELSE [doc EXCEPT !.memberSwiped = "right", !.memberLiked = TRUE, !.status = "pending"]

SwipeFind(r, m, c, direction) ==
  /\ req[r] = Idle
  /\ \/ \E d \in Find(m, c, "creator") :
          /\ connections[d].memberSwiped = "none"
          /\ Load(r, Holding("swipe_save", direction, d, FALSE,
                             connections[d], Swiped(connections[d], direction)))
     \/ /\ Find(m, c, "creator") = {}
        /\ \E d \in ConnectionIds :
             /\ FreshId(d)
             /\ Load(r, Holding("swipe_save", direction, d, TRUE,
                                NewConnection(m, c), Swiped(NewConnection(m, c), direction)))

SwipeSave(r) == Save(r, "swipe_save", [req[r] EXCEPT !.pc = "swipe_likes"])

\* Only the exact direction 'right' is copied to Member.likes.
SwipeLikes(r) ==
  /\ At(r, "swipe_likes")
  /\ likes' = IF req[r].direction = "right"
                THEN [likes EXCEPT ![req[r].new.member] = @ \cup {req[r].new.creator}]
                ELSE likes
  /\ req' = [req EXCEPT ![r] = Idle]
  /\ UNCHANGED <<connections, totalConnections>>

-----------------------------------------------------------------------------
(* POST /members/swipe/like/:creatorId: likeCreator.                       *)

LikeStart(r, m, c) ==
  /\ req[r] = Idle
  /\ c \notin likes[m]
  /\ Load(r, [pc |-> "like_push", member |-> m, creator |-> c])

LikePush(r) ==
  /\ At(r, "like_push")
  /\ likes' = [likes EXCEPT ![req[r].member] = @ \cup {req[r].creator}]
  /\ req' = [req EXCEPT ![r].pc = "like_find"]
  /\ UNCHANGED <<connections, totalConnections>>

\* isConnected and totalCreatorConnections are not schema paths: only
\* memberLiked is written, and a new document has no swipe direction.
LikeFind(r) ==
  /\ At(r, "like_find")
  /\ LET m == req[r].member
         c == req[r].creator
     IN  \/ \E d \in Find(m, c, "creator") :
              Load(r, Holding("like_save", "right", d, FALSE, connections[d],
                              [connections[d] EXCEPT !.memberLiked = TRUE]))
         \/ /\ Find(m, c, "creator") = {}
            /\ \E d \in ConnectionIds :
                 /\ FreshId(d)
                 /\ Load(r, Holding("like_save", "right", d, TRUE, NewConnection(m, c),
                                    [NewConnection(m, c) EXCEPT !.memberLiked = TRUE]))

LikeSave(r) == Save(r, "like_save", Idle)

-----------------------------------------------------------------------------
(* POST /connections/:id/accept and /decline: handleConnectionResponse.    *)

Accepted(doc) ==
  [doc EXCEPT !.creatorLiked = TRUE, !.creatorAccepted = TRUE,
              !.creatorSwiped = "right", !.status = "connected"]

\* Mutant: decline uses a status the schema accepts.
DeclinedAsDisconnected(doc) ==
  [doc EXCEPT !.creatorLiked = FALSE, !.creatorAccepted = FALSE,
              !.creatorSwiped = "left", !.status = "disconnected"]

Declined(doc) ==
  [doc EXCEPT !.creatorLiked = FALSE, !.creatorAccepted = FALSE,
              !.creatorSwiped = "left", !.status = "rejected"]

IsPending(d) ==
  /\ d \in Live
  /\ connections[d].keyedBy = "creator"
  /\ connections[d].status = "pending"

AcceptFind(r, d) ==
  /\ req[r] = Idle
  /\ IsPending(d)
  /\ Load(r, Holding("respond_creator", "right", d, FALSE,
                     connections[d], Accepted(connections[d])))

DeclineFind(r, d) ==
  /\ req[r] = Idle
  /\ IsPending(d)
  /\ Load(r, Holding("respond_save", "left", d, FALSE,
                     connections[d], Declined(connections[d])))

\* updateCreatorConnectionStats runs before the accepted connection is saved.
StatsFindCreator(r) ==
  /\ At(r, "respond_creator")
  /\ Load(r, [req[r] EXCEPT !.pc = "respond_count",
                            !.total = totalConnections[req[r].old.creator]])

StatsCount(r) ==
  /\ At(r, "respond_count")
  /\ Load(r, [req[r] EXCEPT !.pc = "respond_stats",
                            !.count = CountConnected(req[r].old.creator)])

StatsSave(r) ==
  /\ At(r, "respond_stats")
  /\ totalConnections' = [totalConnections EXCEPT ![req[r].old.creator] =
                            Changed(@, req[r].total, req[r].count)]
  /\ req' = [req EXCEPT ![r].pc = "respond_save"]
  /\ UNCHANGED <<connections, likes>>

RespondSave(r) == Save(r, "respond_save", Idle)

-----------------------------------------------------------------------------
(* POST /creator/connections/find-or-create: findOrCreateConnection looks  *)
(* up and writes the caller's User _id, and connects without a like.       *)

DirectMessageConnection(m, c) ==
  [NewConnection(m, c) EXCEPT !.keyedBy = "user", !.status = "connected",
                              !.creatorSwiped = "right"]

CreateFind(r, m, c) ==
  /\ req[r] = Idle
  /\ Find(m, c, "user") = {}
  /\ \E d \in ConnectionIds :
       /\ FreshId(d)
       /\ Load(r, Holding("create_save", "right", d, TRUE, NewConnection(m, c),
                          DirectMessageConnection(m, c)))

CreateSave(r) == Save(r, "create_save", Idle)

-----------------------------------------------------------------------------
(* Handlers that are one database write.                                   *)

\* POST /connections/:id/block.
Block(d) ==
  /\ d \in Live
  /\ connections' = [connections EXCEPT ![d].status = "blocked"]
  /\ UNCHANGED <<likes, totalConnections, req>>

\* A user may delete the connections in which their own profile appears.
OwnedBy(S, m) == \A d \in S : connections[d].member = m

OwnedByCreator(S, c) ==
  \A d \in S : connections[d].creator = c /\ connections[d].keyedBy = "creator"

\* DELETE /connections/:id (one document) and POST /connections/bulk delete.
Unmatch(S) ==
  /\ S # {}
  /\ S \subseteq Live
  /\ \/ \E m \in Members : OwnedBy(S, m)
     \/ \E c \in Creators : OwnedByCreator(S, c)
  /\ connections' = [d \in ConnectionIds |-> IF d \in S THEN Absent ELSE connections[d]]
  /\ UNCHANGED <<likes, totalConnections, req>>

\* The Node process restarts: requests in flight are gone, the database stays.
Restart ==
  /\ \E r \in Requests : req[r] # Idle
  /\ req' = [r \in Requests |-> Idle]
  /\ UNCHANGED <<connections, likes, totalConnections>>

-----------------------------------------------------------------------------
\* The next step of a request already accepted by the server.
Continue(r) ==
  \/ SwipeSave(r) \/ SwipeLikes(r)
  \/ LikePush(r) \/ LikeFind(r) \/ LikeSave(r)
  \/ StatsFindCreator(r) \/ StatsCount(r) \/ StatsSave(r) \/ RespondSave(r)
  \/ CreateSave(r)

Arrive(r) ==
  \/ \E m \in Members, c \in Creators :
       \/ \E direction \in {"left", "right", "super"} : SwipeFind(r, m, c, direction)
       \/ LikeStart(r, m, c)
       \/ CreateFind(r, m, c)
  \/ \E d \in ConnectionIds : AcceptFind(r, d) \/ DeclineFind(r, d)

Serve ==
  \/ \E r \in Requests : Continue(r) \/ Arrive(r)
  \/ \E d \in ConnectionIds : Block(d)
  \/ \E S \in SUBSET ConnectionIds : Unmatch(S)

Next == Serve \/ Restart

Spec == Init /\ [][Next]_vars

\* Without a restart every awaited database call is answered.
FairSpec ==
  /\ Init /\ [][Serve]_vars
  /\ \A r \in Requests : WF_vars(Continue(r))

ASSUME SentinelsAssumption ==
  /\ Absent \notin Stored
  /\ Idle \notin LikeRequest \cup DocRequest

-----------------------------------------------------------------------------
(* Properties.                                                             *)

\* At most one document per (creator, member) key, although concurrent first
\* swipes, likes and find-or-creates all try to insert one.
UniquePair ==
  \A d, e \in Live : SameKey(connections[d], connections[e]) => d = e

\* Nobody is connected without both sides having agreed: a connected document
\* of the swipe flow carries the member's like and the creator's acceptance,
\* whatever stale copies the saves were computed from.
MutualConsent ==
  \A d \in Live :
    connections[d].keyedBy = "creator" /\ connections[d].status = "connected" =>
      /\ connections[d].memberLiked
      /\ connections[d].creatorLiked /\ connections[d].creatorAccepted
      /\ connections[d].creatorSwiped = "right"

\* The creator's side of an agreement.
Agreed(doc) == doc.creatorLiked /\ doc.creatorAccepted /\ doc.creatorSwiped = "right"

\* Whatever the creator had agreed to in x still holds in y.
Keeps(x, y) ==
  /\ x.creatorLiked => y.creatorLiked
  /\ x.creatorAccepted => y.creatorAccepted
  /\ x.creatorSwiped = "right" => y.creatorSwiped = "right"

Consented(doc) ==
  doc.keyedBy = "creator" =>
    doc.memberLiked /\ (doc.status = "connected" => Agreed(doc))

\* What a save of q would write: a consented document, or edits that only add
\* to the creator's agreement and connect only with it.
EditConsented(q) ==
  Valid(q.new) =>
    IF q.isNew
      THEN Consented(q.new)
      ELSE /\ q.new.memberLiked
           /\ Keeps(q.old, q.new)
           /\ q.new.creatorSwiped \in {q.old.creatorSwiped, "right"}
           /\ q.new.status = "connected" => q.old.status = "connected" \/ Agreed(q.new)

\* The copy a request loaded may be stale, but never ahead of the collection.
CopyNotAhead(q) == ~q.isNew /\ q.id \in Live => Keeps(q.old, connections[q.id])

\* An _id drawn for an insert is used by no document and by no other request.
InsertIsFresh(r) ==
  req[r].isNew /\ req[r].pc # "swipe_likes" =>
    /\ req[r].id \notin Live
    /\ \A s \in Requests \ {r} : HoldsDoc(s) => req[s].id # req[r].id

\* The inductive strengthening of MutualConsent: every save still to come,
\* from however old a copy, is one that keeps consent.
ConsentInv ==
  /\ \A d \in Live : Consented(connections[d])
  /\ \A r \in Requests : HoldsDoc(r) =>
       EditConsented(req[r]) /\ CopyNotAhead(req[r]) /\ InsertIsFresh(r)

\* A first right swipe is never lost while the server runs, not even when
\* another request inserts the pair's document between its findOne and its
\* save: it leads to a state with a liked document for the pair.
LikeRecorded ==
  \A m \in Members, c \in Creators :
    (\E r \in Requests : /\ At(r, "swipe_save") /\ req[r].isNew
                         /\ req[r].direction # "left"
                         /\ req[r].new.member = m /\ req[r].new.creator = c)
      ~> (\E d \in Find(m, c, "creator") : connections[d].memberLiked)

=============================================================================
