SPECIFICATION Spec
CONSTANTS
  s1 = s1
  s2 = s2
  s3 = s3
  None = None
  Servers <- Three
  ConfiguredMaster <- Star
  DisklessSync = {s1}
  BacklogSize = 1
  Faults = {}
  MaxWrites = 2
  MaxOffset = 2
  MaxCommands = 2
  MaxFaults = 0
  MaxRestarts = 0
INVARIANTS
  ReplicaMatchesMaster
SYMMETRY Sym
CHECK_DEADLOCK FALSE
