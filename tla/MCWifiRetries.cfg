CONSTANTS
  InitBackoff = 2
  MaxBackoff = 3
  MultiplierPct = 150
  JitterPct = 75
  FastTimeout = 1
  NormalTimeout = 2
  MaxAge = 3
  GenerationMod = 3
  Caches = {c1, c2}
  Blank = Blank
  Torn = Torn
  Capacity = 2
SPECIFICATION HSpec
SYMMETRY Symmetry
INVARIANTS TypeOK WaitInBounds LinkAgreement CacheIsCurrent EveryIpCounted
PROPERTIES RetryPaced FastOnlyFirst
