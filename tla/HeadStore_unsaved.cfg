SPECIFICATION FairSpec
CONSTANTS
  Heads = {h1}
  NoHead = NoHead
  Parts <- TwoParts
  Cal = "cal"
  Adrc = "adrc"
  Blank = Blank
  MaxChanges = 1
  MaxTunes = 0
  MaxGlitches = 1
  MaxPlugs = 1
  MaxCuts = 0
PROPERTIES CalibratedOnce
