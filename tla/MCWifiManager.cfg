CONSTANTS
  InitBackoff = 1
  MaxBackoff = 2
  MultiplierPct = 200
  JitterPct = 0
  FastTimeout = 1
  NormalTimeout = 2
  MaxAge = 3
  GenerationMod = 3
  Caches = {c1}
  Blank = Blank
  Torn = Torn
  Capacity = 2
SPECIFICATION FairSpec
PROPERTIES ImplementsLinkState ConnectingEnds Recovers
