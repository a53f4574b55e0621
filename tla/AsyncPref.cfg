SPECIFICATION FairSpec
CONSTANTS
  Words <- TwoWords
  NoKey = NoKey
  MaxUpdates = 3
  MaxFails = 2
  MaxCuts = 2
CHECK_DEADLOCK FALSE
INVARIANTS
  TypeOK
PROPERTIES
  StoredWhole
  NoRollback
  SavedUnlessFailed
  Repeated
