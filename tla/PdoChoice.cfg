SPECIFICATION ChoiceSpec
CONSTANTS
  Chargers <- AllChargers
  Resistances <- Heaters
  Powers <- Wattages
INVARIANTS
  ChoiceOK
  WithinCurrent
  DeliversAsked
  ServedIfPossible
  PlanStays
  DutyIsGiven
