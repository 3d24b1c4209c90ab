SPECIFICATION Spec
CONSTANTS
  a = a  b = b  c = c  m = m  x = x
  None = None
  Sentinels = {a, b, c}
  Instances = {m, x}
  Master0 = m
  Flaky = {m}
  Quorum = 1
  MaxEpoch = 1
  MaxEvents = 2

SYMMETRY Symmetry
INVARIANTS TypeOK VotesDurable VotesUnique ElectedByMajority
PROPERTY ImplementsEpochLeader
