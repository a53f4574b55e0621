SPECIFICATION FairSpec
CONSTANTS
  Heads = {h1, h2}
  NoHead = NoHead
  Parts <- TwoParts
  Cal = "cal"
  Adrc = "adrc"
  Blank = Blank
  MaxChanges = 2
  MaxTunes = 1
  MaxGlitches = 3
  MaxPlugs = 2
  MaxCuts = 1
INVARIANTS TypeOK HeadKeepsOwn UsesOwn
PROPERTIES GoneIsNoticed ComesIntoUse CalibratedUnlessFailed
