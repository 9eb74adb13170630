CONSTANTS
  HeaderSize = 2
  Sizes <- MCTakenSizes
  Plugins = {1, 2}
  Accepts <- MCTakenAccepts
  GarbageMax = 2
  MinRegistered = 1
SPECIFICATION Spec
INVARIANT NeverMisframed
