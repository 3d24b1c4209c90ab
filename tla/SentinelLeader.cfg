SPECIFICATION Spec
CONSTANTS
  a = a  b = b  c = c  m = m  x = x
  None = None
  Sentinels = {a, b, c}
  Instances = {m, x}
  Master0 = m
  Flaky = {m}
  Quorum = 2
  MaxEpoch = 2
  MaxEvents = 1

SYMMETRY Symmetry
INVARIANT OneLeaderPerEpoch
