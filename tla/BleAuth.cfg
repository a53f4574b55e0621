SPECIFICATION FairSpec
CHECK_DEADLOCK FALSE
CONSTANTS
  a = a
  b = b
  f = f
  Clients <- ThreeClients
  NoClient = NoClient
  Fast <- FastClock
  Ahead = 2
  MaxSessions = 2
  MaxRecords = 2
  Day = 1
  MaxTime = 3
  MaxPairs = 3
  MaxPresses = 2
  MaxFaults = 1
INVARIANTS
  StoreOK
PROPERTIES
  SecretDroppedOnlyIfGone
  EvictsLeastRecent
  HoldersGetIn
