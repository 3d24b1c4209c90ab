SPECIFICATION FairSpec
CONSTANTS
  MaxCommands = 2
  MaxBase = 2
  MaxIncr = 3
  MaxFaults = 1
  MaxRestarts = 1
  Faults <- IOFaults
  Policies <- MCPolicies
  None = none
\* A server whose files cannot be loaded stays down
CHECK_DEADLOCK FALSE
INVARIANTS
  TypeOK
  ManifestFilesExist
  FilesAndBufferAreDataset
  AckedSurvivePowerLoss
  FsyncedIsDurable
PROPERTY
  EventuallyFsynced
