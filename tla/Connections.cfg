CONSTANTS
  Members = {m1}
  Creators = {c1}
  ConnectionIds = {d1, d2, d3, d4}
  Requests = {r1, r2}
  Absent = Absent
  Idle = Idle
SPECIFICATION Spec
SYMMETRY Symmetry
INVARIANTS TypeOK UniquePair MutualConsent
