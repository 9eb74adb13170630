CONSTANTS
  ConnectTimeout = 2
  InitialBackoff = 1
  BackoffJitter = 3
  BackoffMax = 2
  ClockMod = 11
  GenerationMod = 3
SPECIFICATION FairSpec
INVARIANTS TypeOK BackoffInBounds HeldOnlyConnected SendsOnKnownLink NoStaleSocket
PROPERTIES AttemptPaced StableLinkConnects
