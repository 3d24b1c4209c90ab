SPECIFICATION FairSpec
CONSTANTS
  s1 = s1
  s2 = s2
  s3 = s3
  None = None
  Servers <- Two
  ConfiguredMaster <- Pair
  DisklessSync = {s1}
  BacklogSize = 2
  Faults = {"link", "slave", "bgsave", "fsync", "dirfsync", "load", "backlog", "save", "ping"}
  MaxWrites = 2
  MaxOffset = 4
  MaxCommands = 1
  MaxFaults = 1
  MaxRestarts = 1
INVARIANTS
  TypeOK
  ReplicaMatchesMaster
  SameIdSameHistory
  AckedIsHeld
PROPERTY
  EventuallySynchronized
CHECK_DEADLOCK FALSE
