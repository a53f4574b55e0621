SPECIFICATION FairSpec
CHECK_DEADLOCK FALSE
CONSTANTS
  Temps <- TwoTemps
  YThreshold = 1
  XThreshold = 2
  ScaleAfter = 2
  MaxPoints = 3
  MaxChunk = 2
  MaxTime = 4
  MaxRuns = 2
  MaxChart = 6
  MaxFaults = 1
INVARIANTS
  ChartOK
PROPERTIES
  CatchesUp
