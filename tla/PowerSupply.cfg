SPECIFICATION FairSpec
CHECK_DEADLOCK FALSE
CONSTANTS
  MaxPdoObjects = 11
  Offers <- TwoOffers
  NoOffer = "none"
  Loads <- TwoHeads
  Targets <- Powers
  MaxCaps = 1
  MaxRejects = 1
  MaxResets = 1
  MaxSwaps = 2
  MaxSets = 1
INVARIANTS
  SupplySafe
  PlannedForHead
  DutyFitsContract
PROPERTIES
  ChangesUnloaded
  SupplySettles
