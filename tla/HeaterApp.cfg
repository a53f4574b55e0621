SPECIFICATION FairSpec
CONSTANTS
  QueueSize = 2
  Watts <- OnOff
  Commands <- AllCommands
  Gestures <- AllGestures
  MaxInputs = 4
INVARIANTS
  TypeOK
  RunConfined
  AlwaysAWayOut
PROPERTIES
  RunsInOrder
  BadHealthEndsRun
  StatesEnd
  OpenLoopStops
