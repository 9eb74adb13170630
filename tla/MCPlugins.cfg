CONSTANTS
  MaxBlocks = 3
  CountMod = 5
  Buffers = {b1, b2, b3}
  NoBuffer = NoBuffer
SPECIFICATION PluginsSpec
SYMMETRY Symmetry
INVARIANTS TypeOK BuffersReturned MessageBuffersReturned
PROPERTIES CompletesWhole CompletesInTime
