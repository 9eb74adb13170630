CONSTANTS
  HeaderSize = 2
  Sizes <- MCSizes
  Plugins = {1, 2}
  Accepts <- MCAccepts
  GarbageMax = 2
  MinRegistered = 0
SPECIFICATION Spec
PROPERTY AllPluginsConsulted
