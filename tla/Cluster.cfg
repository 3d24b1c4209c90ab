SPECIFICATION FairSpec
CONSTANTS
  A = A
  R = R
  X = X
  None = None
  Nodes = {A, R, X}
  Name <- MCName
  Slots = {1, 2}
  Master0 <- Replicates
  Owner0 <- Serves
  Epoch0 <- Numbered
  Commands = {"takeover", "bump", "restart"}
  MaxEvents = 2
  MaxWins = 1
  MaxNet = 1
INVARIANTS
  CurrentEpochIsMax
  VotesUnique
  ReplicaServesNothing
  WonByVotes
PROPERTY
  EventuallyAgree
