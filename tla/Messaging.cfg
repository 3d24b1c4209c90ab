SPECIFICATION Spec
CONSTANTS
  member1 = member1
  creator1 = creator1
  memberProfile = memberProfile
  creatorProfile = creatorProfile
  Users = {member1, creator1}
  Profile <- MCProfile
  Role <- MCRole
  ConversationIds = {v1}
  MessageIds = {m1, m2}
  Requests = {r1, r2}
  Absent = Absent
  None = None
  Idle = Idle
SYMMETRY Symmetry
INVARIANTS TypeOK RoomIsolation CountersBounded
PROPERTY OpenedIsJoined
