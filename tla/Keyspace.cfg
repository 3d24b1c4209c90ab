CONSTANTS
  k1 = k1
  k2 = k2
  w = w
  Keys = {k1, k2}
  Clients = {w, a, b}
  Watchers = {w}
  Commands <- MCCommands
  Bodies <- MCBodies
  MaxElements = 2
  None = None
SPECIFICATION FairSpec
INVARIANTS TypeOK BlockingTables NoLostWakeup WatchedChangeAborts
PROPERTIES FirstBlockedFirstServed ServingEnds
