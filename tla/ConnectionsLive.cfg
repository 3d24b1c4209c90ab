CONSTANTS
  Members = {m1}
  Creators = {c1}
  ConnectionIds = {d1, d2, d3}
  Requests = {r1, r2}
  Absent = Absent
  Idle = Idle
SPECIFICATION FairSpec
PROPERTY LikeRecorded
