CONSTANTS
  HeaderSize = 2
  Datagrams <- DatagramsDef
  Plugins = {0, 1}
  Offers <- OffersDef
  PacketsPerTick = 2
  InboxMax = 2
  GenerationMod = 3
SPECIFICATION FairSpec
INVARIANTS TypeOK BoundOnLink Drained
PROPERTIES ReadsCurrentLink TickReturns Rebinds
