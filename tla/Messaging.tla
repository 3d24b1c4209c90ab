------------------------------- MODULE Messaging -------------------------------
(***************************************************************************)
(* Conversations between members and creators: the HTTP handlers of        *)
(* message.controller.js and the Socket.io handlers of messaging.socket.js *)
(* over one Conversation and one Message collection. A handler loads the   *)
(* conversation, waits for other database calls and then saves counters it *)
(* computed from the copy it loaded.                                       *)
(*                                                                         *)
(* req.user and socket.user are User documents, while a conversation names *)
(* its target by the _id of a Creator or Member profile, so Users and      *)
(* profiles are different identities here too.                             *)
(***************************************************************************)
EXTENDS Naturals, FiniteSets

CONSTANTS Users,            \* User._id
          Profile,          \* the _id of each user's Member or Creator document
          Role,             \* User.role
          ConversationIds, MessageIds,
          Requests,         \* handlers running at the same time
          Absent, None, Idle

Roles == {"member", "creator"}

Profiles == {Profile[u] : u \in Users}

ASSUME RoleAssumption == Role \in [Users -> Roles]
ASSUME ProfileAssumption ==
  /\ DOMAIN Profile = Users
  /\ \A u, v \in Users : Profile[u] = Profile[v] => u = v
  /\ Users \cap Profiles = {}
ASSUME FiniteIdsAssumption == IsFiniteSet(MessageIds)

VARIABLES conversations,  \* the Conversation collection: _id -> document
          messages,       \* the Message collection: _id -> document
          rooms,          \* user -> the chat rooms the user's socket is in
          currentChat,    \* user -> socket.currentChat
          viewing,        \* user -> the chat the user's page shows
          received,       \* the new_message events delivered: <<user, message>>
          origin,         \* history: the conversation each message was created in
          req             \* what each handler has in memory

vars == <<conversations, messages, rooms, currentChat, viewing, received, origin, req>>

store == <<conversations, messages, origin>>
sockets == <<rooms, currentChat, viewing, received>>

-----------------------------------------------------------------------------
(* Documents and handlers.                                                 *)

\* The first participant is the User who opened the conversation, the second
\* the profile it was opened with, in the role unreadCount is kept under.
Conversation ==
  [opener: Users, target: Profiles, targetRole: Roles,
   lastMessage: MessageIds \cup {None}, totalMessages: Nat, unreadCount: [Roles -> Nat]]

Message ==
  [conversation: ConversationIds, sender: Users, recipient: Profiles,
   read: BOOLEAN, isDeleted: BOOLEAN, deletedAt: BOOLEAN]

Open == {c \in ConversationIds : conversations[c] # Absent}
Stored == {m \in MessageIds : messages[m] # Absent}
Unused == {m \in MessageIds : origin[m] = None}

Participants(c) == {conversations[c].opener, conversations[c].target}

InitRequest == [pc: {"init_create"}, user: Users, with: Users]

\* send_create to send_emit carry the conversation's counters as loaded.
SendRequest ==
  [pc: {"send_create", "send_save", "send_emit"}, conversation: ConversationIds,
   user: Users, socket: BOOLEAN, total: Nat, unread: Nat,
   message: MessageIds \cup {None}]

ReadRequest ==
  [pc: {"read_save", "read_mark"}, conversation: ConversationIds, user: Users,
   unread: Nat]

DeleteRequest == [pc: {"delete_save"}, message: MessageIds, socket: BOOLEAN]

JoinRequest == [pc: {"join_enter"}, conversation: ConversationIds, user: Users]

Request ==
  InitRequest \cup SendRequest \cup ReadRequest \cup DeleteRequest \cup JoinRequest

ASSUME SentinelsAssumption ==
  /\ Absent \notin Conversation \cup Message
  /\ None \notin MessageIds \cup ConversationIds
  /\ Idle \notin Request

At(r, step) == req[r] # Idle /\ req[r].pc = step

Goto(r, q) == req' = [req EXCEPT ![r] = q]

TypeOK ==
  /\ conversations \in [ConversationIds -> Conversation \cup {Absent}]
  /\ messages \in [MessageIds -> Message \cup {Absent}]
  /\ rooms \in [Users -> SUBSET ConversationIds]
  /\ currentChat \in [Users -> ConversationIds \cup {None}]
  /\ viewing \in [Users -> ConversationIds \cup {None}]
  /\ received \subseteq Users \X MessageIds
  /\ origin \in [MessageIds -> ConversationIds \cup {None}]
  /\ req \in [Requests -> Request \cup {Idle}]

Init ==
  /\ conversations = [c \in ConversationIds |-> Absent]
  /\ messages = [m \in MessageIds |-> Absent]
  /\ rooms = [u \in Users |-> {}]
  /\ currentChat = [u \in Users |-> None]
  /\ viewing = [u \in Users |-> None]
  /\ received = {}
  /\ origin = [m \in MessageIds |-> None]
  /\ req = [r \in Requests |-> Idle]

-----------------------------------------------------------------------------
(* POST /conversations/init: createOrGetConversation.                      *)

\* The bounds: every handler under way finds an unused _id.
RoomForConversation ==
  Cardinality({r \in Requests : At(r, "init_create")})
    < Cardinality(ConversationIds \ Open)

RoomForMessage ==
  Cardinality({r \in Requests : At(r, "send_create")}) < Cardinality(Unused)

\* findOne({ 'participants.user': { $all: [currentUserId, targetUserId] } })
Existing(u, v) == {c \in Open : {u, Profile[v]} \subseteq Participants(c)}

InitFind(r, u, v) ==
  /\ req[r] = Idle
  /\ RoomForConversation
  /\ Role[u] # Role[v]
  /\ Existing(u, v) = {}
  /\ Goto(r, [pc |-> "init_create", user |-> u, with |-> v])
  /\ UNCHANGED <<store, sockets>>

InitCreate(r) ==
  /\ At(r, "init_create")
  /\ \E c \in ConversationIds \ Open :
       conversations' = [conversations EXCEPT ![c] =
         [opener |-> req[r].user, target |-> Profile[req[r].with],
          targetRole |-> Role[req[r].with], lastMessage |-> None,
          totalMessages |-> 0, unreadCount |-> [role \in Roles |-> 0]]]
  /\ Goto(r, Idle)
  /\ UNCHANGED <<messages, origin, sockets>>

-----------------------------------------------------------------------------
(* sendMessageToConversation and the socket's send_message. The sender is  *)
(* a User, so only the opener passes the participant check.                *)

SendFind(r, u, c, socket) ==
  /\ req[r] = Idle
  /\ RoomForMessage
  /\ c \in Open
  /\ u \in Participants(c)
  /\ LET d == conversations[c]
     IN  Goto(r, [pc |-> "send_create", conversation |-> c, user |-> u, socket |-> socket,
                  total |-> d.totalMessages, unread |-> d.unreadCount[d.targetRole],
                  message |-> None])
  /\ UNCHANGED <<store, sockets>>

\* Mutant: the sender is stored as the recipient.
SendCreateToSelf(r) ==
  /\ At(r, "send_create")
  /\ \E m \in Unused :
       /\ messages' = [messages EXCEPT ![m] =
            [conversation |-> req[r].conversation, sender |-> req[r].user,
             recipient |-> req[r].user,
             read |-> FALSE, isDeleted |-> FALSE, deletedAt |-> FALSE]]
       /\ origin' = [origin EXCEPT ![m] = req[r].conversation]
       /\ Goto(r, [req[r] EXCEPT !.pc = "send_save", !.message = m])
  /\ UNCHANGED <<conversations, sockets>>

SendCreate(r) ==
  /\ At(r, "send_create")
  /\ \E m \in Unused :
       /\ messages' = [messages EXCEPT ![m] =
            [conversation |-> req[r].conversation, sender |-> req[r].user,
             recipient |-> conversations[req[r].conversation].target,
             read |-> FALSE, isDeleted |-> FALSE, deletedAt |-> FALSE]]
       /\ origin' = [origin EXCEPT ![m] = req[r].conversation]
       /\ Goto(r, [req[r] EXCEPT !.pc = "send_save", !.message = m])
  /\ UNCHANGED <<conversations, sockets>>

\* Mutant: the total is raised twice.
SentTwice(q, d) ==
  [d EXCEPT !.lastMessage = q.message, !.totalMessages = q.total + 2,
            !.unreadCount[d.targetRole] = q.unread + 1]

\* The conversation d as saved by q: its counters are those q loaded, plus one.
Sent(q, d) ==
  [d EXCEPT !.lastMessage = q.message, !.totalMessages = q.total + 1,
            !.unreadCount[d.targetRole] = q.unread + 1]

SendSave(r) ==
  /\ At(r, "send_save")
  /\ conversations' = [conversations EXCEPT ![req[r].conversation] = Sent(req[r], @)]
  /\ Goto(r, IF req[r].socket THEN [req[r] EXCEPT !.pc = "send_emit"] ELSE Idle)
  /\ UNCHANGED <<messages, origin, sockets>>

\* io.to(`chat:${conversationId}`).emit('new_message', messageData)
SendEmit(r) ==
  /\ At(r, "send_emit")
  /\ received' = received \cup
       {<<u, req[r].message>> : u \in {v \in Users : req[r].conversation \in rooms[v]}}
  /\ Goto(r, Idle)
  /\ UNCHANGED <<store, rooms, currentChat, viewing>>

-----------------------------------------------------------------------------
(* mark_messages_read of the socket and read-all of the HTTP interface.    *)

ReadFind(r, u, c) ==
  /\ req[r] = Idle
  /\ c \in Open
  /\ Goto(r, [pc |-> "read_save", conversation |-> c, user |-> u,
              unread |-> conversations[c].unreadCount[Role[u]]])
  /\ UNCHANGED <<store, sockets>>

\* Setting a path to the value it was loaded with writes nothing.
ReadSave(r) ==
  /\ At(r, "read_save")
  /\ conversations' =
       IF req[r].unread = 0 THEN conversations
       ELSE [conversations EXCEPT ![req[r].conversation].unreadCount[Role[req[r].user]] = 0]
  /\ Goto(r, [req[r] EXCEPT !.pc = "read_mark"])
  /\ UNCHANGED <<messages, origin, sockets>>

\* updateMany({ conversation, recipient: user, read: false }, { read: true })
MarkRead(u, C) ==
  messages' = [m \in MessageIds |->
    IF m \in Stored /\ messages[m].conversation \in C /\ messages[m].recipient = u
      THEN [messages[m] EXCEPT !.read = TRUE] ELSE messages[m]]

ReadMark(r) ==
  /\ At(r, "read_mark")
  /\ MarkRead(req[r].user, {req[r].conversation})
  /\ Goto(r, Idle)
  /\ UNCHANGED <<conversations, origin, sockets>>

MarkAllAsRead(u, c) ==
  /\ MarkRead(u, {c})
  /\ UNCHANGED <<conversations, origin, sockets, req>>

-----------------------------------------------------------------------------
(* Deleting.                                                               *)

DeleteFind(r, u, m, socket) ==
  /\ req[r] = Idle
  /\ m \in Stored
  /\ messages[m].sender = u
  /\ Goto(r, [pc |-> "delete_save", message |-> m, socket |-> socket])
  /\ UNCHANGED <<store, sockets>>

\* The HTTP handler sets 'deleted', which is no path of the schema.
Deleted(d, socket) ==
  [d EXCEPT !.deletedAt = TRUE, !.isDeleted = d.isDeleted \/ socket]

\* The save of a message that is gone throws.
DeleteSave(r) ==
  /\ At(r, "delete_save")
  /\ messages' =
       IF req[r].message \notin Stored THEN messages
       ELSE [messages EXCEPT ![req[r].message] = Deleted(@, req[r].socket)]
  /\ Goto(r, Idle)
  /\ UNCHANGED <<conversations, origin, sockets>>

\* clearConversation removes the messages and leaves the conversation alone.
ClearConversation(c) ==
  /\ messages' = [m \in MessageIds |->
       IF m \in Stored /\ messages[m].conversation = c THEN Absent ELSE messages[m]]
  /\ UNCHANGED <<conversations, origin, sockets, req>>

-----------------------------------------------------------------------------
(* Chat rooms. Chat.jsx emits join_chat when the page is shown and         *)
(* leave_chat when it is closed.                                           *)

\* Mutant: no participant check.
OpenChatUnchecked(r, u, c) ==
  /\ req[r] = Idle
  /\ viewing[u] = None
  /\ c \in Open
  /\ viewing' = [viewing EXCEPT ![u] = c]
  /\ Goto(r, [pc |-> "join_enter", conversation |-> c, user |-> u])
  /\ UNCHANGED <<store, rooms, currentChat, received>>

OpenChat(r, u, c) ==
  /\ req[r] = Idle
  /\ viewing[u] = None
  /\ c \in Open
  /\ viewing' = [viewing EXCEPT ![u] = c]
  /\ Goto(r, IF u \in Participants(c)
               THEN [pc |-> "join_enter", conversation |-> c, user |-> u] ELSE Idle)
  /\ UNCHANGED <<store, rooms, currentChat, received>>

\* Mutant: the chat becomes current, but the socket does not enter its room.
JoinNoRoom(r) ==
  /\ At(r, "join_enter")
  /\ currentChat' = [currentChat EXCEPT ![req[r].user] = req[r].conversation]
  /\ Goto(r, Idle)
  /\ UNCHANGED <<store, rooms, received, viewing>>

\* The rest of join_chat, once the conversation has been loaded.
JoinEnter(r) ==
  /\ At(r, "join_enter")
  /\ rooms' = [rooms EXCEPT ![req[r].user] = @ \cup {req[r].conversation}]
  /\ currentChat' = [currentChat EXCEPT ![req[r].user] = req[r].conversation]
  /\ Goto(r, Idle)
  /\ UNCHANGED <<store, received, viewing>>

\* leave_chat does nothing unless the chat is the current one.
CloseChat(u) ==
  /\ viewing[u] # None
  /\ viewing' = [viewing EXCEPT ![u] = None]
  /\ IF currentChat[u] = viewing[u]
       THEN /\ rooms' = [rooms EXCEPT ![u] = @ \ {viewing[u]}]
            /\ currentChat' = [currentChat EXCEPT ![u] = None]
       ELSE UNCHANGED <<rooms, currentChat>>
  /\ UNCHANGED <<store, received, req>>

\* The connection is lost and re-established: the new socket is in no room,
\* and the client re-emits only join_room, which no handler listens to. A
\* join under way is the old socket's.
Reconnect(u) ==
  /\ rooms' = [rooms EXCEPT ![u] = {}]
  /\ currentChat' = [currentChat EXCEPT ![u] = None]
  /\ req' = [r \in Requests |->
       IF At(r, "join_enter") /\ req[r].user = u THEN Idle ELSE req[r]]
  /\ UNCHANGED <<store, received, viewing>>

\* The Node process restarts: handlers and sockets are gone.
Restart ==
  /\ rooms' = [u \in Users |-> {}]
  /\ currentChat' = [u \in Users |-> None]
  /\ req' = [r \in Requests |-> Idle]
  /\ UNCHANGED <<store, received, viewing>>

-----------------------------------------------------------------------------
Continue(r) ==
  \/ InitCreate(r)
  \/ SendCreate(r) \/ SendSave(r) \/ SendEmit(r)
  \/ ReadSave(r) \/ ReadMark(r)
  \/ DeleteSave(r) \/ JoinEnter(r)

Arrive(r, u) ==
  \/ \E v \in Users : InitFind(r, u, v)
  \/ \E c \in ConversationIds : ReadFind(r, u, c) \/ OpenChat(r, u, c)
  \/ \E socket \in BOOLEAN :
       \/ \E c \in ConversationIds : SendFind(r, u, c, socket)
       \/ \E m \in MessageIds : DeleteFind(r, u, m, socket)

Serve ==
  \/ \E r \in Requests : Continue(r) \/ \E u \in Users : Arrive(r, u)
  \/ \E u \in Users : CloseChat(u) \/ \E c \in ConversationIds : MarkAllAsRead(u, c)
  \/ \E c \in ConversationIds : ClearConversation(c)

Next == Serve \/ (\E u \in Users : Reconnect(u)) \/ Restart

Spec == Init /\ [][Next]_vars

-----------------------------------------------------------------------------
(* Properties.                                                             *)

\* A socket is only in the rooms of conversations its user takes part in and
\* has only been sent messages of such conversations, whatever joins, closes
\* and reconnects happen while sends are under way.
RoomIsolation ==
  /\ \A u \in Users : rooms[u] \subseteq {c \in Open : u \in Participants(c)}
  /\ \A e \in received : origin[e[2]] \in Open /\ e[1] \in Participants(origin[e[2]])

Created(c) == {m \in MessageIds : origin[m] = c}

\* Although saves are computed from stale copies, a conversation never counts
\* more messages than were created in it, never more unread ones than it
\* counts (and those only for its target), has a last message exactly when it
\* counts one, and that message is its own.
CountersBounded ==
  \A c \in Open : LET d == conversations[c] IN
    /\ d.totalMessages <= Cardinality(Created(c))
    /\ \A role \in Roles :
         d.unreadCount[role] <= IF role = d.targetRole THEN d.totalMessages ELSE 0
    /\ d.lastMessage = None <=> d.totalMessages = 0
    /\ d.lastMessage # None => d.lastMessage \in Created(c)

\* What a handler holds in memory agrees with the collections: the inductive
\* strengthening of CountersBounded and RoomIsolation.
HeldConsistent(q) ==
  /\ q.pc # "init_create" /\ q.pc # "delete_save" => q.conversation \in Open
  /\ q.pc = "join_enter" => q.user \in Participants(q.conversation)
  /\ q.pc \in {"send_create", "send_save", "send_emit"} => q.unread <= q.total
  /\ q.pc = "send_create" => q.total <= Cardinality(Created(q.conversation))
  /\ q.pc \in {"send_save", "send_emit"} =>
       /\ q.message \in Created(q.conversation)
       /\ q.total < Cardinality(Created(q.conversation))

MessagingInv ==
  /\ RoomIsolation
  /\ CountersBounded
  /\ \A m \in MessageIds : origin[m] # None => origin[m] \in Open
  /\ \A r \in Requests : req[r] # Idle => HeldConsistent(req[r])

\* u's socket is in c's room, or a handler is about to enter it.
Present(u, c) ==
  \/ c \in rooms[u]
  \/ \E r \in Requests : At(r, "join_enter") /\ req[r].user = u /\ req[r].conversation = c

\* "Join a chat room": from the moment a participant opens a chat until the page
\* is closed or the connection lost, the socket is in the chat's room or
\* join_chat is about to enter it, whatever joins of chats opened and closed
\* before, or of other users, end or are left meanwhile.
OpenedIsJoined ==
  [][\A u \in Users, c \in ConversationIds :
       /\ viewing'[u] = c /\ u \in Participants(c)
       /\ viewing[u] = c => Present(u, c)
       => Present(u, c)' \/ Reconnect(u) \/ Restart]_vars

=============================================================================
