SPECIFICATION FairSpec
CONSTANTS
  Words <- TwoWords
  NoKey = NoKey
  MaxUpdates = 2
  MaxFails = 1
  MaxCuts = 0
CHECK_DEADLOCK FALSE
PROPERTIES
  EventuallySaved
