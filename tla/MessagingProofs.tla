--------------------------- MODULE MessagingProofs ---------------------------
(***************************************************************************)
(* Proofs about Messaging for any number of users, conversations, messages *)
(* and concurrent handlers: chat rooms stay isolated, and the counters a   *)
(* conversation keeps are bounded by what was really sent.                 *)
(***************************************************************************)
EXTENDS Messaging, FiniteSetTheorems, TLAPS

-----------------------------------------------------------------------------
(* Type correctness.                                                       *)

SendSteps == {"send_create", "send_save", "send_emit"}

\* A handler at a step has the shape of that step.
LEMMA RequestShape ==
  ASSUME TypeOK, NEW r \in Requests, req[r] # Idle
  PROVE  /\ req[r].pc = "init_create" => req[r] \in InitRequest
         /\ req[r].pc \in SendSteps => req[r] \in SendRequest
         /\ req[r].pc \in {"read_save", "read_mark"} => req[r] \in ReadRequest
         /\ req[r].pc = "delete_save" => req[r] \in DeleteRequest
         /\ req[r].pc = "join_enter" => req[r] \in JoinRequest
<1>1. req[r] \in Request
  BY DEF TypeOK
<1>2. /\ req[r] \in InitRequest => req[r].pc = "init_create"
      /\ req[r] \in SendRequest => req[r].pc \in SendSteps
      /\ req[r] \in ReadRequest => req[r].pc \in {"read_save", "read_mark"}
      /\ req[r] \in DeleteRequest => req[r].pc = "delete_save"
      /\ req[r] \in JoinRequest => req[r].pc = "join_enter"
  BY DEF InitRequest, SendRequest, ReadRequest, DeleteRequest, JoinRequest, SendSteps
<1> QED
  BY <1>1, <1>2 DEF Request, SendSteps

\* An open conversation and a stored message are documents of their schemas.
LEMMA DocumentTypes ==
  ASSUME TypeOK
  PROVE  /\ \A c \in Open : c \in ConversationIds /\ conversations[c] \in Conversation
         /\ \A m \in Stored : m \in MessageIds /\ messages[m] \in Message
BY DEF TypeOK, Open, Stored

\* The conversation a handler holds is open.
LEMMA HeldIsOpen ==
  ASSUME TypeOK, MessagingInv, NEW r \in Requests, req[r] # Idle,
         req[r].pc \notin {"init_create", "delete_save"}
  PROVE  /\ req[r].conversation \in Open
         /\ req[r].conversation \in ConversationIds
         /\ conversations[req[r].conversation] \in Conversation
<1>1. HeldConsistent(req[r])
  BY DEF MessagingInv
<1>2. req[r].conversation \in Open
  BY <1>1 DEF HeldConsistent
<1> QED
  BY <1>2, DocumentTypes

\* A handler that moves on to a request keeps the type of req.
LEMMA GotoType ==
  ASSUME TypeOK, NEW r \in Requests, NEW q \in Request \cup {Idle}, Goto(r, q)
  PROVE  req' \in [Requests -> Request \cup {Idle}]
BY DEF TypeOK, Goto

\* Steps that answer an arriving request keep the types.
LEMMA ArriveTypes ==
  ASSUME TypeOK, NEW r \in Requests, NEW u \in Users, Arrive(r, u)
  PROVE  TypeOK'
<1>1. CASE \E v \in Users : InitFind(r, u, v)
  <2>1. PICK v \in Users : InitFind(r, u, v)
    BY <1>1
  <2>2. [pc |-> "init_create", user |-> u, with |-> v] \in Request
    BY DEF Request, InitRequest
  <2> QED
    BY <2>1, <2>2, GotoType DEF InitFind, TypeOK, store, sockets
<1>2. CASE \E c \in ConversationIds : ReadFind(r, u, c)
  <2>1. PICK c \in ConversationIds : ReadFind(r, u, c)
    BY <1>2
  <2> DEFINE q == [pc |-> "read_save", conversation |-> c, user |-> u,
                   unread |-> conversations[c].unreadCount[Role[u]]]
  <2>2. conversations[c].unreadCount[Role[u]] \in Nat
    BY <2>1, DocumentTypes, RoleAssumption DEF ReadFind, Conversation
  <2>3. q \in Request
    BY <2>2 DEF Request, ReadRequest
  <2>4. Goto(r, q)
    BY <2>1 DEF ReadFind
  <2> HIDE DEF q
  <2> QED
    BY <2>1, <2>3, <2>4, GotoType DEF ReadFind, TypeOK, store, sockets
<1>3. CASE \E c \in ConversationIds : OpenChat(r, u, c)
  <2>1. PICK c \in ConversationIds : OpenChat(r, u, c)
    BY <1>3
  <2>2. [pc |-> "join_enter", conversation |-> c, user |-> u] \in Request
    BY DEF Request, JoinRequest
  <2>3. req' \in [Requests -> Request \cup {Idle}]
    BY <2>1, <2>2, GotoType DEF OpenChat
  <2> QED
    BY <2>1, <2>3 DEF OpenChat, TypeOK, store
<1>4. CASE \E socket \in BOOLEAN, c \in ConversationIds : SendFind(r, u, c, socket)
  <2>1. PICK socket \in BOOLEAN, c \in ConversationIds : SendFind(r, u, c, socket)
    BY <1>4
  <2> DEFINE d == conversations[c]
             q == [pc |-> "send_create", conversation |-> c, user |-> u, socket |-> socket,
                   total |-> d.totalMessages, unread |-> d.unreadCount[d.targetRole],
                   message |-> None]
  <2>2. d.totalMessages \in Nat /\ d.unreadCount[d.targetRole] \in Nat
    BY <2>1, DocumentTypes DEF SendFind, Conversation
  <2>3. q \in Request
    BY <2>2 DEF Request, SendRequest
  <2>4. Goto(r, q)
    BY <2>1 DEF SendFind
  <2> HIDE DEF q
  <2> QED
    BY <2>1, <2>3, <2>4, GotoType DEF SendFind, TypeOK, store, sockets
<1>5. CASE \E socket \in BOOLEAN, m \in MessageIds : DeleteFind(r, u, m, socket)
  <2>1. PICK socket \in BOOLEAN, m \in MessageIds : DeleteFind(r, u, m, socket)
    BY <1>5
  <2>2. [pc |-> "delete_save", message |-> m, socket |-> socket] \in Request
    BY DEF Request, DeleteRequest
  <2> QED
    BY <2>1, <2>2, GotoType DEF DeleteFind, TypeOK, store, sockets
<1> QED
  BY <1>1, <1>2, <1>3, <1>4, <1>5 DEF Arrive

\* A saved conversation keeps the schema's types.
LEMMA SentType ==
  ASSUME NEW q \in SendRequest, NEW d \in Conversation, q.message \in MessageIds
  PROVE  Sent(q, d) \in Conversation
<1> DEFINE unread == [d.unreadCount EXCEPT ![d.targetRole] = q.unread + 1]
<1>1. unread \in [Roles -> Nat] /\ q.total + 1 \in Nat
  BY DEF SendRequest, Conversation
<1>2. Sent(q, d) = [d EXCEPT !.lastMessage = q.message, !.totalMessages = q.total + 1,
                            !.unreadCount = unread]
  BY DEF Sent, Conversation
<1> HIDE DEF unread
<1>3. [d EXCEPT !.lastMessage = q.message, !.totalMessages = q.total + 1,
                !.unreadCount = unread] \in Conversation
  BY Zenon, <1>1 DEF Conversation
<1> QED
  BY <1>2, <1>3

\* Steps that carry on a handler keep the types.
LEMMA ContinueTypes ==
  ASSUME TypeOK, MessagingInv, NEW r \in Requests, Continue(r)
  PROVE  TypeOK'
<1>1. CASE InitCreate(r)
  <2>1. req[r] \in InitRequest
    BY <1>1, RequestShape DEF InitCreate, At
  <2> DEFINE d == [opener |-> req[r].user, target |-> Profile[req[r].with],
                   targetRole |-> Role[req[r].with], lastMessage |-> None,
                   totalMessages |-> 0, unreadCount |-> [role \in Roles |-> 0]]
  <2>2. d \in Conversation
    BY <2>1, RoleAssumption DEF InitRequest, Conversation, Profiles
  <2>3. PICK c \in ConversationIds : conversations' = [conversations EXCEPT ![c] = d]
    BY Zenon, <1>1 DEF InitCreate
  <2> HIDE DEF d
  <2> QED
    BY <1>1, <2>2, <2>3, GotoType DEF InitCreate, TypeOK, sockets
<1>2. CASE SendCreate(r)
  <2>1. req[r] \in SendRequest
    BY <1>2, RequestShape DEF SendCreate, At, SendSteps
  <2>2. conversations[req[r].conversation] \in Conversation
    BY <1>2, HeldIsOpen DEF SendCreate, At
  <2> DEFINE d == [conversation |-> req[r].conversation, sender |-> req[r].user,
                   recipient |-> conversations[req[r].conversation].target,
                   read |-> FALSE, isDeleted |-> FALSE, deletedAt |-> FALSE]
  <2>3. d \in Message
    BY <2>1, <2>2 DEF SendRequest, Conversation, Message
  <2>4. PICK m \in Unused :
          /\ messages' = [messages EXCEPT ![m] = d]
          /\ origin' = [origin EXCEPT ![m] = req[r].conversation]
          /\ Goto(r, [req[r] EXCEPT !.pc = "send_save", !.message = m])
    BY Zenon, <1>2 DEF SendCreate
  <2>5. m \in MessageIds
    BY DEF Unused
  <2>6. [req[r] EXCEPT !.pc = "send_save", !.message = m] \in Request
    BY Zenon, <2>1, <2>5 DEF SendRequest, Request
  <2>7. req[r].conversation \in ConversationIds
    BY <2>1 DEF SendRequest
  <2>8. req' \in [Requests -> Request \cup {Idle}]
    BY <2>4, <2>6, GotoType
  <2> HIDE DEF d
  <2> QED
    BY Zenon, <1>2, <2>3, <2>4, <2>5, <2>7, <2>8 DEF SendCreate, TypeOK, sockets
<1>3. CASE SendSave(r)
  <2>1. req[r] \in SendRequest
    BY <1>3, RequestShape DEF SendSave, At, SendSteps
  <2>2. conversations[req[r].conversation] \in Conversation
    BY <1>3, HeldIsOpen DEF SendSave, At
  <2>3. req[r].message \in MessageIds
    BY Zenon, <1>3 DEF SendSave, At, MessagingInv, HeldConsistent, Created
  <2>4. Sent(req[r], conversations[req[r].conversation]) \in Conversation
    BY <2>1, <2>2, <2>3, SentType
  <2>5. [req[r] EXCEPT !.pc = "send_emit"] \in Request
    BY <2>1 DEF SendRequest, Request
  <2>6. req' \in [Requests -> Request \cup {Idle}]
    BY <1>3, <2>5, GotoType DEF SendSave
  <2> QED
    BY Zenon, <1>3, <2>4, <2>6 DEF SendSave, TypeOK, sockets
<1>4. CASE SendEmit(r)
  <2>1. req[r].message \in MessageIds
    BY Zenon, <1>4 DEF SendEmit, At, MessagingInv, HeldConsistent, Created
  <2> QED
    BY <1>4, <2>1, GotoType DEF SendEmit, TypeOK, store
<1>5. CASE ReadSave(r)
  <2>1. req[r] \in ReadRequest
    BY <1>5, RequestShape DEF ReadSave, At
  <2>2. /\ conversations[req[r].conversation] \in Conversation
        /\ req[r].conversation \in ConversationIds
    BY <1>5, HeldIsOpen DEF ReadSave, At
  <2>3. [conversations[req[r].conversation] EXCEPT !.unreadCount[Role[req[r].user]] = 0]
          \in Conversation
    BY <2>2 DEF Conversation
  <2>4. [req[r] EXCEPT !.pc = "read_mark"] \in Request
    BY <2>1 DEF ReadRequest, Request
  <2>5. req' \in [Requests -> Request \cup {Idle}]
    BY <1>5, <2>4, GotoType DEF ReadSave
  <2> QED
    BY <1>5, <2>2, <2>3, <2>5 DEF ReadSave, TypeOK, sockets
<1>6. CASE ReadMark(r)
  <2>1. messages' \in [MessageIds -> Message \cup {Absent}]
    BY Zenon, <1>6, DocumentTypes DEF ReadMark, MarkRead, TypeOK, Message
  <2> QED
    BY <1>6, <2>1, GotoType DEF ReadMark, TypeOK, sockets
<1>7. CASE DeleteSave(r)
  <2>1. messages' \in [MessageIds -> Message \cup {Absent}]
    <3>1. req[r] \in DeleteRequest
      BY <1>7, RequestShape DEF DeleteSave, At
    <3>2. CASE req[r].message \notin Stored
      BY <1>7, <3>2 DEF DeleteSave, TypeOK
    <3>3. CASE req[r].message \in Stored
      <4>1. Deleted(messages[req[r].message], req[r].socket) \in Message
        BY Zenon, <3>1, <3>3, DocumentTypes DEF Message, DeleteRequest, Deleted
      <4> QED
        BY Zenon, <1>7, <3>3, <4>1 DEF DeleteSave, TypeOK
    <3> QED
      BY <3>2, <3>3
  <2> QED
    BY <1>7, <2>1, GotoType DEF DeleteSave, TypeOK, sockets
<1>8. CASE JoinEnter(r)
  <2>1. req[r] \in JoinRequest
    BY <1>8, RequestShape DEF JoinEnter, At
  <2> QED
    BY <1>8, <2>1, GotoType DEF JoinEnter, TypeOK, JoinRequest, store
<1> QED
  BY <1>1, <1>2, <1>3, <1>4, <1>5, <1>6, <1>7, <1>8 DEF Continue

\* Every step keeps the types, given that what handlers hold is consistent.
LEMMA TypeStep == TypeOK /\ MessagingInv /\ [Next]_vars => TypeOK'
<1> SUFFICES ASSUME TypeOK, MessagingInv, [Next]_vars PROVE TypeOK'
  OBVIOUS
<1>1. ASSUME NEW u \in Users, CloseChat(u) PROVE TypeOK'
  BY <1>1 DEF CloseChat, TypeOK, store
<1>2. ASSUME NEW u \in Users, NEW c \in ConversationIds, MarkAllAsRead(u, c) PROVE TypeOK'
  <2>1. messages' \in [MessageIds -> Message \cup {Absent}]
    BY Zenon, <1>2, DocumentTypes DEF MarkAllAsRead, MarkRead, TypeOK, Message
  <2> QED
    BY <1>2, <2>1 DEF MarkAllAsRead, TypeOK, sockets
<1>3. ASSUME NEW c \in ConversationIds, ClearConversation(c) PROVE TypeOK'
  BY <1>3 DEF ClearConversation, TypeOK, sockets
<1>4. ASSUME NEW u \in Users, Reconnect(u) PROVE TypeOK'
  BY <1>4 DEF Reconnect, TypeOK, store
<1>5. CASE Restart
  BY <1>5 DEF Restart, TypeOK, store
<1>6. CASE UNCHANGED vars
  BY <1>6 DEF vars, TypeOK
<1> QED
  BY <1>1, <1>2, <1>3, <1>4, <1>5, <1>6, ArriveTypes, ContinueTypes DEF Next, Serve

-----------------------------------------------------------------------------
(* The invariant.                                                          *)

Counted(d, c) ==
  /\ d.totalMessages <= Cardinality(Created(c))
  /\ \A role \in Roles :
       d.unreadCount[role] <= IF role = d.targetRole THEN d.totalMessages ELSE 0
  /\ d.lastMessage = None <=> d.totalMessages = 0
  /\ d.lastMessage # None => d.lastMessage \in Created(c)

\* The messages created in a conversation are finitely many.
LEMMA CreatedFinite ==
  ASSUME NEW c PROVE IsFiniteSet(Created(c)) /\ Cardinality(Created(c)) \in Nat
<1>1. Created(c) \in SUBSET MessageIds
  BY DEF Created
<1>2. IsFiniteSet(Created(c))
  BY <1>1, FS_Subset, FiniteIdsAssumption
<1> QED
  BY <1>2, FS_CardinalityType

\* After a step of r every other handler holds what it held.
LEMMA HeldAfterGoto ==
  ASSUME TypeOK, MessagingInv, NEW r \in Requests, NEW q, Goto(r, q),
         q # Idle => HeldConsistent(q)
  PROVE  \A s \in Requests : req'[s] # Idle => HeldConsistent(req'[s])
<1>1. \A s \in Requests : req'[s] = IF s = r THEN q ELSE req[s]
  BY DEF Goto, TypeOK
<1>2. \A s \in Requests : req[s] # Idle => HeldConsistent(req[s])
  BY DEF MessagingInv
<1> QED
  BY <1>1, <1>2

\* A step that changes neither conversations nor origin.
LEMMA QuietStep ==
  ASSUME MessagingInv, UNCHANGED <<conversations, origin>>,
         \A u \in Users : rooms'[u] \subseteq {c \in Open : u \in Participants(c)},
         \A e \in received' : origin[e[2]] \in Open /\ e[1] \in Participants(origin[e[2]]),
         \A s \in Requests : req'[s] # Idle => HeldConsistent(req'[s])
  PROVE  MessagingInv'
<1>1. Open' = Open
  BY DEF Open
<1>2. \A c : Participants(c)' = Participants(c) /\ Created(c)' = Created(c)
  BY DEF Participants, Created
<1>3. RoomIsolation'
  BY <1>1, <1>2 DEF RoomIsolation
<1>4. CountersBounded'
  BY <1>1, <1>2 DEF MessagingInv, CountersBounded
<1>5. \A s \in Requests : req'[s] # Idle => HeldConsistent(req[s])'
  BY <1>1, <1>2 DEF HeldConsistent
<1>6. (\A m \in MessageIds : origin[m] # None => origin[m] \in Open)'
  BY <1>1 DEF MessagingInv
<1> QED
  BY <1>3, <1>4, <1>5, <1>6 DEF MessagingInv

\* A save of an open conversation that keeps its participants.
LEMMA EditStep ==
  ASSUME TypeOK, MessagingInv, NEW c \in Open, NEW d \in Conversation,
         d.opener = conversations[c].opener, d.target = conversations[c].target,
         Counted(d, c),
         conversations' = [conversations EXCEPT ![c] = d],
         UNCHANGED <<origin, rooms, received>>,
         \A s \in Requests : req'[s] # Idle => HeldConsistent(req'[s])
  PROVE  MessagingInv'
<1>1. c \in ConversationIds /\ conversations'[c] = d
  BY DEF TypeOK, Open
<1>2. \A e \in Open : e # c => conversations'[e] = conversations[e]
  BY DEF TypeOK, Open
<1>3. Open' = Open
  BY <1>1, SentinelsAssumption DEF Open, TypeOK
<1>4. \A e \in Open : Participants(e)' = Participants(e)
  BY <1>1, <1>2 DEF Participants
<1>5. \A e : Created(e)' = Created(e)
  BY DEF Created
<1>6. RoomIsolation'
  BY <1>3, <1>4 DEF MessagingInv, RoomIsolation
<1>7. CountersBounded'
  <2>1. \A e \in Open : Counted(conversations'[e], e)
    BY <1>1, <1>2 DEF MessagingInv, CountersBounded, Counted
  <2> QED
    BY <2>1, <1>3, <1>5 DEF CountersBounded, Counted
<1>8. \A s \in Requests : req'[s] # Idle => HeldConsistent(req[s])'
  BY <1>3, <1>4, <1>5 DEF HeldConsistent
<1>9. (\A m \in MessageIds : origin[m] # None => origin[m] \in Open)'
  BY <1>3 DEF MessagingInv
<1> QED
  BY <1>6, <1>7, <1>8, <1>9 DEF MessagingInv

\* A new conversation has no messages and nobody in its room.
LEMMA InitCreateStep ==
  ASSUME TypeOK, MessagingInv, NEW r \in Requests, InitCreate(r)
  PROVE  MessagingInv'
<1> DEFINE d == [opener |-> req[r].user, target |-> Profile[req[r].with],
                 targetRole |-> Role[req[r].with], lastMessage |-> None,
                 totalMessages |-> 0, unreadCount |-> [role \in Roles |-> 0]]
<1>1. PICK c \in ConversationIds \ Open : conversations' = [conversations EXCEPT ![c] = d]
  BY Zenon DEF InitCreate
<1>2. d \in Conversation
  <2>1. req[r] \in InitRequest
    BY RequestShape DEF InitCreate, At
  <2> QED
    BY <2>1, RoleAssumption DEF InitRequest, Conversation, Profiles
<1>3. Counted(d, c)
  BY CreatedFinite DEF Counted
<1>4. \A s \in Requests : req'[s] # Idle => HeldConsistent(req'[s])
  BY HeldAfterGoto DEF InitCreate
<1> HIDE DEF d
<1>5. conversations'[c] = d /\ \A e \in Open : conversations'[e] = conversations[e]
  BY <1>1 DEF TypeOK, Open
<1>6. Open' = Open \cup {c}
  BY <1>1, <1>2, SentinelsAssumption DEF Open, TypeOK
<1>7. UNCHANGED <<origin, rooms, received>>
  BY DEF InitCreate, sockets
<1>8. \A e \in Open : Participants(e)' = Participants(e)
  BY <1>5 DEF Participants
<1>9. \A e : Created(e)' = Created(e)
  BY <1>7 DEF Created
<1>10. RoomIsolation'
  BY <1>6, <1>7, <1>8 DEF MessagingInv, RoomIsolation
<1>11. CountersBounded'
  <2>1. \A e \in Open' : Counted(conversations'[e], e)
    BY <1>3, <1>5, <1>6 DEF MessagingInv, CountersBounded, Counted
  <2> QED
    BY <2>1, <1>9 DEF CountersBounded, Counted
<1>12. \A s \in Requests : req'[s] # Idle => HeldConsistent(req[s])'
  BY <1>4, <1>6, <1>8, <1>9 DEF HeldConsistent
<1>13. (\A m \in MessageIds : origin[m] # None => origin[m] \in Open)'
  BY <1>6, <1>7 DEF MessagingInv
<1> QED
  BY <1>10, <1>11, <1>12, <1>13 DEF MessagingInv

\* A created message makes the count of its conversation's messages exceed
\* the total its handler loaded.
LEMMA SendCreateStep ==
  ASSUME TypeOK, MessagingInv, NEW r \in Requests, SendCreate(r)
  PROVE  MessagingInv'
<1>0. PICK c \in ConversationIds : c = req[r].conversation /\ c \in Open
  BY HeldIsOpen DEF SendCreate, At
<1>1. req[r] \in SendRequest /\ req[r].pc = "send_create"
  BY RequestShape DEF SendCreate, At, SendSteps
<1>2. req[r].unread <= req[r].total /\ req[r].total <= Cardinality(Created(c))
  BY <1>0 DEF SendCreate, At, MessagingInv, HeldConsistent
<1>3. PICK m \in Unused : /\ origin' = [origin EXCEPT ![m] = c]
                          /\ Goto(r, [req[r] EXCEPT !.pc = "send_save", !.message = m])
  BY Zenon, <1>0 DEF SendCreate
<1>4. m \in MessageIds /\ origin[m] = None /\ m \notin Created(c)
  BY <1>0, SentinelsAssumption DEF Unused, Created
<1>5. /\ Created(c)' = Created(c) \cup {m}
      /\ \A e \in Open : e # c => Created(e)' = Created(e)
  BY <1>0, <1>3, <1>4, SentinelsAssumption DEF Created, TypeOK, Open
<1>6. Cardinality(Created(c)') = Cardinality(Created(c)) + 1
  BY Zenon, <1>4, <1>5, CreatedFinite, FS_AddElement
<1>7. UNCHANGED <<conversations, rooms, received>>
  BY DEF SendCreate, sockets
<1>8. Open' = Open /\ \A e \in Open : Participants(e)' = Participants(e)
  BY <1>7 DEF Open, Participants
<1>9. \A e \in Open : /\ Created(e) \subseteq Created(e)'
                      /\ Cardinality(Created(e)) <= Cardinality(Created(e)')
                      /\ Cardinality(Created(e)) \in Nat /\ Cardinality(Created(e)') \in Nat
  <2>1. \A e : Cardinality(Created(e)) \in Nat
    BY CreatedFinite
  <2>2. ASSUME NEW e \in Open, e # c
        PROVE  Created(e)' = Created(e) /\ Cardinality(Created(e)') = Cardinality(Created(e))
    BY <2>2, <1>5
  <2> QED
    BY <2>1, <2>2, <1>5, <1>6
<1>10. RoomIsolation'
  <2>1. \A e \in received : origin'[e[2]] = origin[e[2]]
    <3>1. \A e \in received : e[2] \in MessageIds /\ origin[e[2]] \in Open
      BY DEF TypeOK, MessagingInv, RoomIsolation
    <3>2. None \notin Open
      BY SentinelsAssumption DEF Open
    <3> QED
      BY <3>1, <3>2, <1>3, <1>4 DEF TypeOK
  <2> QED
    BY <2>1, <1>7, <1>8 DEF MessagingInv, RoomIsolation
<1>11. CountersBounded'
  <2>1. \A e \in Open : Counted(conversations[e], e) /\ conversations[e].totalMessages \in Nat
    BY DocumentTypes DEF MessagingInv, CountersBounded, Counted, Conversation
  <2>2. ASSUME NEW e \in Open PROVE conversations[e].totalMessages <= Cardinality(Created(e)')
    BY <2>1, <1>9 DEF Counted
  <2> QED
    BY <2>1, <2>2, <1>7, <1>8, <1>9 DEF CountersBounded, Counted
<1>12. \A s \in Requests : req'[s] # Idle => HeldConsistent(req[s])'
  <2>1. ASSUME NEW s \in Requests, req'[s] # Idle PROVE HeldConsistent(req[s])'
    <3>1. CASE s = r
      <4>1. /\ req'[r].pc = "send_save" /\ req'[r].message = m /\ req'[r].conversation = c
            /\ req'[r].unread = req[r].unread /\ req'[r].total = req[r].total
        BY <1>0, <1>1, <1>3 DEF Goto, TypeOK, SendRequest
      <4>2. req[r].total < Cardinality(Created(c)')
        BY <1>1, <1>2, <1>6, CreatedFinite DEF SendRequest
      <4>3. m \in Created(c)'
        BY <1>5
      <4>4. c \in Open'
        BY <1>0, <1>8
      <4> QED
        BY <3>1, <4>1, <4>2, <4>3, <4>4, <1>2 DEF HeldConsistent, Created
    <3>2. CASE s # r
      <4>1. req'[s] = req[s] /\ HeldConsistent(req[s])
        BY <2>1, <3>2, <1>3 DEF Goto, TypeOK, MessagingInv
      <4>2. req[s].pc \in SendSteps => req[s].total \in Nat /\ req[s].conversation \in Open
        BY <4>1, <2>1, RequestShape DEF HeldConsistent, SendRequest, SendSteps
      <4>3. req[s].pc = "send_create" =>
              req[s].total <= Cardinality(Created(req[s].conversation)')
        BY <4>1, <4>2, <1>9 DEF HeldConsistent, SendSteps
      <4>4. req[s].pc \in {"send_save", "send_emit"} =>
              /\ req[s].message \in Created(req[s].conversation)'
              /\ req[s].total < Cardinality(Created(req[s].conversation)')
        BY <4>1, <4>2, <1>9 DEF HeldConsistent, SendSteps
      <4> QED
        BY <4>1, <4>3, <4>4, <1>8 DEF HeldConsistent, Created
    <3> QED
      BY <3>1, <3>2
  <2> QED
    BY <2>1
<1>13. (\A e \in MessageIds : origin[e] # None => origin[e] \in Open)'
  BY <1>0, <1>3, <1>8 DEF MessagingInv, TypeOK
<1> QED
  BY <1>10, <1>11, <1>12, <1>13 DEF MessagingInv

\* The counters a send saves are bounded by what was created meanwhile.
LEMMA SendSaveStep ==
  ASSUME TypeOK, MessagingInv, NEW r \in Requests, SendSave(r)
  PROVE  MessagingInv'
<1>0. PICK c \in ConversationIds : c = req[r].conversation /\ c \in Open
  BY HeldIsOpen DEF SendSave, At
<1>1. req[r] \in SendRequest /\ conversations[c] \in Conversation
  BY <1>0, RequestShape, DocumentTypes DEF SendSave, At, SendSteps
<1>2. /\ req[r].unread <= req[r].total /\ req[r].total < Cardinality(Created(c))
      /\ req[r].message \in Created(c) /\ req[r].message \in MessageIds
  BY <1>0 DEF SendSave, At, MessagingInv, HeldConsistent, Created
<1> DEFINE d == Sent(req[r], conversations[c])
<1>3. d \in Conversation
  BY <1>1, <1>2, SentType
<1>4. /\ d.opener = conversations[c].opener /\ d.target = conversations[c].target
      /\ d.targetRole = conversations[c].targetRole
      /\ d.lastMessage = req[r].message /\ d.totalMessages = req[r].total + 1
      /\ \A role \in Roles : d.unreadCount[role] =
           IF role = conversations[c].targetRole THEN req[r].unread + 1
           ELSE conversations[c].unreadCount[role]
  BY <1>1 DEF Sent, Conversation
<1>5. \A role \in Roles :
        role # conversations[c].targetRole => conversations[c].unreadCount[role] <= 0
  BY <1>0 DEF MessagingInv, CountersBounded
<1>6. Counted(d, c)
  <2>1. /\ req[r].total \in Nat /\ req[r].unread \in Nat
        /\ Cardinality(Created(c)) \in Nat
    BY <1>1, CreatedFinite DEF SendRequest
  <2>2. d.totalMessages <= Cardinality(Created(c)) /\ d.totalMessages # 0
    BY <2>1, <1>2, <1>4
  <2>3. ASSUME NEW role \in Roles
        PROVE  d.unreadCount[role] <= IF role = d.targetRole THEN d.totalMessages ELSE 0
    BY <2>1, <1>2, <1>4, <1>5
  <2>4. req[r].message # None
    BY <1>2, SentinelsAssumption
  <2> HIDE DEF d
  <2> QED
    BY <2>2, <2>3, <2>4, <1>2, <1>4 DEF Counted
<1>7. conversations' = [conversations EXCEPT ![c] = d]
  BY <1>0, <1>1 DEF SendSave, TypeOK
<1>8. \A s \in Requests : req'[s] # Idle => HeldConsistent(req'[s])
  <2> DEFINE q == IF req[r].socket THEN [req[r] EXCEPT !.pc = "send_emit"] ELSE Idle
  <2>1. Goto(r, q)
    BY DEF SendSave
  <2>2. q # Idle => HeldConsistent(q)
    BY <1>0, <1>1, <1>2 DEF HeldConsistent, SendRequest
  <2> HIDE DEF q
  <2> QED
    BY <2>1, <2>2, HeldAfterGoto
<1>9. UNCHANGED <<origin, rooms, received>>
  BY DEF SendSave, sockets
<1> HIDE DEF d
<1> QED
  BY Zenon, <1>0, <1>3, <1>4, <1>6, <1>7, <1>8, <1>9, EditStep

\* Resetting the unread count of a role keeps the counters bounded.
LEMMA ReadSaveStep ==
  ASSUME TypeOK, MessagingInv, NEW r \in Requests, ReadSave(r)
  PROVE  MessagingInv'
<1>0. PICK c \in ConversationIds : c = req[r].conversation /\ c \in Open
  BY HeldIsOpen DEF ReadSave, At
<1>1. req[r] \in ReadRequest /\ conversations[c] \in Conversation
  BY <1>0, RequestShape, DocumentTypes DEF ReadSave, At
<1>2. \A s \in Requests : req'[s] # Idle => HeldConsistent(req'[s])
  <2>1. HeldConsistent([req[r] EXCEPT !.pc = "read_mark"])
    BY <1>0, <1>1 DEF HeldConsistent, ReadRequest
  <2> QED
    BY <2>1, HeldAfterGoto DEF ReadSave
<1>3. UNCHANGED <<origin, rooms, received>>
  BY DEF ReadSave, sockets
<1>4. CASE req[r].unread = 0
  BY <1>2, <1>3, <1>4, QuietStep DEF ReadSave, MessagingInv, RoomIsolation
<1>5. CASE req[r].unread # 0
  <2> DEFINE d == [conversations[c] EXCEPT !.unreadCount[Role[req[r].user]] = 0]
  <2>1. /\ d \in Conversation
        /\ d.opener = conversations[c].opener /\ d.target = conversations[c].target
        /\ d.targetRole = conversations[c].targetRole
        /\ d.lastMessage = conversations[c].lastMessage
        /\ d.totalMessages = conversations[c].totalMessages /\ d.totalMessages \in Nat
        /\ \A role \in Roles : d.unreadCount[role] \in {0, conversations[c].unreadCount[role]}
    BY <1>1 DEF Conversation
  <2>2. conversations' = [conversations EXCEPT ![c] = d]
    BY <1>0, <1>5 DEF ReadSave, TypeOK
  <2> HIDE DEF d
  <2>3. Counted(conversations[c], c)
    BY <1>0 DEF MessagingInv, CountersBounded, Counted
  <2>4. Counted(d, c)
    BY <2>1, <2>3 DEF Counted
  <2> QED
    BY Zenon, <1>0, <1>2, <1>3, <2>1, <2>2, <2>4, EditStep
<1> QED
  BY <1>4, <1>5

\* Arriving requests hold what they have just loaded.
LEMMA ArriveStep ==
  ASSUME TypeOK, MessagingInv, NEW r \in Requests, NEW u \in Users, Arrive(r, u)
  PROVE  MessagingInv'
<1>1. /\ \A v \in Users : rooms[v] \subseteq {c \in Open : v \in Participants(c)}
      /\ \A e \in received : origin[e[2]] \in Open /\ e[1] \in Participants(origin[e[2]])
  BY DEF MessagingInv, RoomIsolation
<1>2. UNCHANGED <<conversations, origin, rooms, received>>
  BY Zenon DEF Arrive, InitFind, ReadFind, OpenChat, SendFind, DeleteFind, store, sockets
<1>3. SUFFICES \A s \in Requests : req'[s] # Idle => HeldConsistent(req'[s])
  BY <1>1, <1>2, QuietStep
<1>4. ASSUME NEW v \in Users, InitFind(r, u, v)
      PROVE  \A s \in Requests : req'[s] # Idle => HeldConsistent(req'[s])
  <2>1. HeldConsistent([pc |-> "init_create", user |-> u, with |-> v])
    BY DEF HeldConsistent
  <2> QED
    BY <1>4, <2>1, HeldAfterGoto DEF InitFind
<1>5. ASSUME NEW c \in ConversationIds, ReadFind(r, u, c)
      PROVE  \A s \in Requests : req'[s] # Idle => HeldConsistent(req'[s])
  <2> DEFINE q == [pc |-> "read_save", conversation |-> c, user |-> u,
                   unread |-> conversations[c].unreadCount[Role[u]]]
  <2>1. HeldConsistent(q)
    BY <1>5 DEF ReadFind, HeldConsistent
  <2>2. Goto(r, q)
    BY <1>5 DEF ReadFind
  <2> HIDE DEF q
  <2> QED
    BY <2>1, <2>2, HeldAfterGoto
<1>6. ASSUME NEW c \in ConversationIds, OpenChat(r, u, c)
      PROVE  \A s \in Requests : req'[s] # Idle => HeldConsistent(req'[s])
  <2> DEFINE q == IF u \in Participants(c)
                    THEN [pc |-> "join_enter", conversation |-> c, user |-> u] ELSE Idle
  <2>1. q # Idle => HeldConsistent(q)
    BY <1>6 DEF OpenChat, HeldConsistent
  <2>2. Goto(r, q)
    BY <1>6 DEF OpenChat
  <2> HIDE DEF q
  <2> QED
    BY <2>1, <2>2, HeldAfterGoto
<1>7. ASSUME NEW socket \in BOOLEAN, NEW c \in ConversationIds, SendFind(r, u, c, socket)
      PROVE  \A s \in Requests : req'[s] # Idle => HeldConsistent(req'[s])
  <2> DEFINE d == conversations[c]
             q == [pc |-> "send_create", conversation |-> c, user |-> u, socket |-> socket,
                   total |-> d.totalMessages, unread |-> d.unreadCount[d.targetRole],
                   message |-> None]
  <2>1. c \in Open /\ d \in Conversation
    BY <1>7, DocumentTypes DEF SendFind
  <2>2. /\ d.totalMessages <= Cardinality(Created(c))
        /\ d.unreadCount[d.targetRole] <= d.totalMessages
    BY <2>1 DEF MessagingInv, CountersBounded, Conversation
  <2>3. HeldConsistent(q)
    BY <2>1, <2>2 DEF HeldConsistent
  <2>4. Goto(r, q)
    BY <1>7 DEF SendFind
  <2> HIDE DEF q
  <2> QED
    BY <2>3, <2>4, HeldAfterGoto
<1>8. ASSUME NEW socket \in BOOLEAN, NEW m \in MessageIds, DeleteFind(r, u, m, socket)
      PROVE  \A s \in Requests : req'[s] # Idle => HeldConsistent(req'[s])
  <2>1. HeldConsistent([pc |-> "delete_save", message |-> m, socket |-> socket])
    BY DEF HeldConsistent
  <2> QED
    BY <1>8, <2>1, HeldAfterGoto DEF DeleteFind
<1> QED
  BY <1>4, <1>5, <1>6, <1>7, <1>8 DEF Arrive

\* Every step keeps the invariant.
LEMMA InvStep == TypeOK /\ MessagingInv /\ [Next]_vars => MessagingInv'
<1> SUFFICES ASSUME TypeOK, MessagingInv, [Next]_vars PROVE MessagingInv'
  OBVIOUS
<1>1. /\ \A u \in Users : rooms[u] \subseteq {c \in Open : u \in Participants(c)}
      /\ \A e \in received : origin[e[2]] \in Open /\ e[1] \in Participants(origin[e[2]])
      /\ \A s \in Requests : req[s] # Idle => HeldConsistent(req[s])
  BY DEF MessagingInv, RoomIsolation
<1>2. ASSUME NEW r \in Requests, SendEmit(r) PROVE MessagingInv'
  <2>1. /\ HeldConsistent(req[r]) /\ req[r].pc = "send_emit"
        /\ req[r].message \in Created(req[r].conversation)
    BY <1>2, <1>1 DEF SendEmit, At, HeldConsistent
  <2>2. origin[req[r].message] = req[r].conversation
    BY <2>1 DEF Created
  <2>3. \A e \in received' : origin[e[2]] \in Open /\ e[1] \in Participants(origin[e[2]])
    BY <1>1, <1>2, <2>2 DEF SendEmit
  <2>4. \A s \in Requests : req'[s] # Idle => HeldConsistent(req'[s])
    BY <1>2, HeldAfterGoto DEF SendEmit
  <2>5. UNCHANGED <<conversations, origin, rooms>>
    BY <1>2 DEF SendEmit, store
  <2> QED
    BY <1>1, <2>3, <2>4, <2>5, QuietStep
<1>3. ASSUME NEW r \in Requests, ReadMark(r) \/ DeleteSave(r) PROVE MessagingInv'
  <2>1. UNCHANGED <<conversations, origin, rooms, received>> /\ Goto(r, Idle)
    BY <1>3 DEF ReadMark, DeleteSave, sockets
  <2>2. \A s \in Requests : req'[s] # Idle => HeldConsistent(req'[s])
    BY <2>1, HeldAfterGoto
  <2> QED
    BY <1>1, <2>1, <2>2, QuietStep
<1>4. ASSUME NEW r \in Requests, JoinEnter(r) PROVE MessagingInv'
  <2>1. /\ req[r].conversation \in Open
        /\ req[r].user \in Participants(req[r].conversation)
    BY <1>1, <1>4 DEF JoinEnter, At, HeldConsistent
  <2>2. \A u \in Users : rooms'[u] \subseteq {c \in Open : u \in Participants(c)}
    BY <1>1, <1>4, <2>1 DEF JoinEnter, TypeOK
  <2>3. \A s \in Requests : req'[s] # Idle => HeldConsistent(req'[s])
    BY <1>4, HeldAfterGoto DEF JoinEnter
  <2>4. UNCHANGED <<conversations, origin, received>>
    BY <1>4 DEF JoinEnter, store
  <2> QED
    BY <1>1, <2>2, <2>3, <2>4, QuietStep
<1>5. ASSUME NEW u \in Users, CloseChat(u) \/ Reconnect(u) PROVE MessagingInv'
  <2>1. /\ UNCHANGED <<conversations, origin, received>>
        /\ \A v \in Users : rooms'[v] \subseteq rooms[v]
        /\ \A s \in Requests : req'[s] \in {Idle, req[s]}
    BY <1>5 DEF CloseChat, Reconnect, store, TypeOK
  <2>2. \A s \in Requests : req'[s] # Idle => HeldConsistent(req'[s])
    BY <1>1, <2>1
  <2>3. \A v \in Users : rooms'[v] \subseteq {c \in Open : v \in Participants(c)}
    BY <1>1, <2>1
  <2> QED
    BY <1>1, <2>1, <2>2, <2>3, QuietStep
<1>6. CASE Restart
  <2>1. /\ UNCHANGED <<conversations, origin, received>>
        /\ \A v \in Users : rooms'[v] = {}
        /\ \A s \in Requests : req'[s] = Idle
    BY <1>6 DEF Restart, store
  <2> QED
    BY <1>1, <2>1, QuietStep
<1>7. ASSUME NEW c \in ConversationIds,
             ClearConversation(c) \/ \E u \in Users : MarkAllAsRead(u, c)
      PROVE  MessagingInv'
  <2>1. UNCHANGED <<conversations, origin, rooms, received, req>>
    BY <1>7 DEF ClearConversation, MarkAllAsRead, sockets
  <2> QED
    BY <1>1, <2>1, QuietStep
<1>8. CASE UNCHANGED vars
  BY <1>1, <1>8, QuietStep DEF vars
<1> QED
  BY <1>2, <1>3, <1>4, <1>5, <1>6, <1>7, <1>8, ArriveStep, InitCreateStep,
     SendCreateStep, SendSaveStep, ReadSaveStep
  DEF Next, Serve, Continue

\* The types and the invariant hold in every reachable state.
LEMMA Invariance == Spec => [](TypeOK /\ MessagingInv)
<1>1. Init => TypeOK /\ MessagingInv
  BY DEF Init, TypeOK, MessagingInv, RoomIsolation, CountersBounded, Open
<1>2. TypeOK /\ MessagingInv /\ [Next]_vars => (TypeOK /\ MessagingInv)'
  BY TypeStep, InvStep
<1> QED
  BY <1>1, <1>2, PTL DEF Spec

-----------------------------------------------------------------------------
(* The theorems.                                                           *)

\* Conversations, messages, sockets and handlers keep their types.
THEOREM TypeCorrect == Spec => []TypeOK
BY Invariance, PTL

\* MessagingInv holds in every reachable state: what a handler has loaded
\* before its await bounds what it may still write.
THEOREM MessagingInvariant == Spec => []MessagingInv
BY Invariance, PTL

\* Users are only in the rooms of, and only receive messages of, their own
\* conversations: the participant check of join_chat suffices although sends
\* are emitted long after they were accepted.
THEOREM RoomsAreIsolated == Spec => []RoomIsolation
<1>1. MessagingInv => RoomIsolation
  BY DEF MessagingInv
<1> QED
  BY <1>1, Invariance, PTL

\* The counters conversation.save() writes from stale copies never exceed
\* what was really created.
THEOREM CountersAreBounded == Spec => []CountersBounded
<1>1. MessagingInv => CountersBounded
  BY DEF MessagingInv
<1> QED
  BY <1>1, Invariance, PTL

-----------------------------------------------------------------------------
(* Joining.                                                                *)

\* A step of a handler that is not entering a room leaves the joins alone.
LEMMA PresentKept ==
  ASSUME TypeOK, NEW u \in Users, NEW c \in ConversationIds, Present(u, c),
         NEW r \in Requests, ~At(r, "join_enter"), NEW q, Goto(r, q), rooms' = rooms
  PROVE  Present(u, c)'
<1>1. CASE c \in rooms[u]
  BY <1>1 DEF Present
<1>2. CASE c \notin rooms[u]
  <2>1. PICK s \in Requests :
          At(s, "join_enter") /\ req[s].user = u /\ req[s].conversation = c
    BY <1>2 DEF Present
  <2>2. req'[s] = req[s]
    BY <2>1 DEF Goto, TypeOK
  <2> QED
    BY <2>1, <2>2 DEF Present, At
<1> QED
  BY <1>1, <1>2

\* join_chat, once it has loaded the conversation, only adds to the rooms.
LEMMA PresentAfterEnter ==
  ASSUME TypeOK, NEW u \in Users, NEW c \in ConversationIds, Present(u, c),
         NEW r \in Requests, JoinEnter(r)
  PROVE  Present(u, c)'
<1>1. req[r] \in JoinRequest
  BY RequestShape DEF JoinEnter, At
<1>2. /\ req[r].conversation \in rooms'[req[r].user]
      /\ \A v \in Users : rooms[v] \subseteq rooms'[v]
  BY <1>1 DEF JoinEnter, TypeOK, JoinRequest
<1>3. CASE c \in rooms[u]
  BY <1>2, <1>3 DEF Present
<1>4. CASE c \notin rooms[u]
  <2>1. PICK s \in Requests :
          At(s, "join_enter") /\ req[s].user = u /\ req[s].conversation = c
    BY <1>4 DEF Present
  <2>2. CASE s = r
    BY <1>2, <2>1, <2>2 DEF Present
  <2>3. CASE s # r
    <3>1. req'[s] = req[s]
      BY <2>3 DEF JoinEnter, Goto, TypeOK
    <3> QED
      BY <2>1, <3>1 DEF Present, At
  <2> QED
    BY <2>2, <2>3
<1> QED
  BY <1>3, <1>4

\* The step of a participant whose chat is open, for each action.
LEMMA JoinStep ==
  ASSUME TypeOK, [Next]_vars, NEW u \in Users, NEW c \in ConversationIds,
         viewing'[u] = c, u \in Participants(c), viewing[u] = c => Present(u, c)
  PROVE  Present(u, c)' \/ Reconnect(u) \/ Restart
<1>1. ASSUME NEW r \in Requests, Continue(r) PROVE Present(u, c)'
  <2>1. viewing' = viewing /\ Present(u, c)
    BY <1>1 DEF Continue, InitCreate, SendCreate, SendSave, SendEmit, ReadSave, ReadMark,
                DeleteSave, JoinEnter, sockets
  <2>2. CASE JoinEnter(r)
    BY <2>1, <2>2, PresentAfterEnter
  <2>3. CASE ~JoinEnter(r)
    <3>1. ~At(r, "join_enter") /\ rooms' = rooms /\ \E q : Goto(r, q)
      BY <1>1, <2>3 DEF Continue, InitCreate, SendCreate, SendSave, SendEmit, ReadSave,
                        ReadMark, DeleteSave, At, sockets
    <3> QED
      BY <2>1, <3>1, PresentKept
  <2> QED
    BY <2>2, <2>3
<1>2. ASSUME NEW r \in Requests, NEW v \in Users, Arrive(r, v) PROVE Present(u, c)'
  <2>1. ASSUME NEW d \in ConversationIds, OpenChat(r, v, d) PROVE Present(u, c)'
    <3>1. CASE viewing[u] = c
      <4>1. ~At(r, "join_enter") /\ rooms' = rooms /\ \E q : Goto(r, q)
        BY <2>1 DEF OpenChat, At
      <4> QED
        BY <3>1, <4>1, PresentKept
    <3>2. CASE viewing[u] # c
      <4>1. v = u /\ d = c
        BY <2>1, <3>2 DEF OpenChat, TypeOK
      <4>2. req'[r] = [pc |-> "join_enter", conversation |-> c, user |-> u]
        BY <2>1, <4>1 DEF OpenChat, Goto, TypeOK
      <4>3. req'[r] \in Request
        BY <4>2 DEF Request, JoinRequest
      <4> QED
        BY <4>2, <4>3, SentinelsAssumption DEF Present, At
    <3> QED
      BY <3>1, <3>2
  <2>2. CASE ~ \E d \in ConversationIds : OpenChat(r, v, d)
    <3>1. /\ ~At(r, "join_enter") /\ rooms' = rooms /\ viewing' = viewing
          /\ \E q : Goto(r, q)
      BY <1>2, <2>2 DEF Arrive, InitFind, ReadFind, SendFind, DeleteFind, At, sockets
    <3> QED
      BY <3>1, PresentKept
  <2> QED
    BY <2>1, <2>2
<1>3. ASSUME NEW v \in Users, CloseChat(v) PROVE Present(u, c)'
  <2>1. v # u /\ viewing[u] = c
    BY <1>3, SentinelsAssumption DEF CloseChat, TypeOK
  <2>2. rooms'[u] = rooms[u] /\ req' = req
    BY <1>3, <2>1 DEF CloseChat, TypeOK
  <2> QED
    BY <2>1, <2>2 DEF Present, At
<1>4. ASSUME NEW v \in Users, Reconnect(v), v # u PROVE Present(u, c)'
  <2>1. viewing[u] = c /\ rooms'[u] = rooms[u]
    BY <1>4 DEF Reconnect, TypeOK
  <2>2. \A s \in Requests :
          At(s, "join_enter") /\ req[s].user = u => req'[s] = req[s]
    BY <1>4 DEF Reconnect
  <2> QED
    BY <2>1, <2>2 DEF Present, At
<1>5. UNCHANGED <<rooms, viewing, req>> => Present(u, c)'
  BY DEF Present, At
<1>6. ASSUME NEW v \in Users, NEW d \in ConversationIds,
             MarkAllAsRead(v, d) \/ ClearConversation(d)
      PROVE  Present(u, c)'
  <2>1. UNCHANGED <<rooms, viewing, req>>
    BY <1>6 DEF MarkAllAsRead, ClearConversation, sockets
  <2> QED
    BY <1>5, <2>1
<1>7. CASE UNCHANGED vars
  BY <1>5, <1>7 DEF vars
<1> QED
  BY <1>1, <1>2, <1>3, <1>4, <1>6, <1>7 DEF Next, Serve

\* "Join a chat room": no interleaving of joins, closes and other handlers
\* keeps a participant who opened a chat out of its room, as long as the
\* connection lasts.
THEOREM OpenedChatsAreJoined == Spec => OpenedIsJoined
<1>1. TypeOK /\ [Next]_vars =>
        [\A u \in Users, c \in ConversationIds :
           /\ viewing'[u] = c /\ u \in Participants(c)
           /\ viewing[u] = c => Present(u, c)
           => Present(u, c)' \/ Reconnect(u) \/ Restart]_vars
  BY JoinStep
<1> QED
  BY <1>1, Invariance, PTL DEF Spec, OpenedIsJoined
=============================================================================
