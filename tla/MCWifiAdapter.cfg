CONSTANTS
  Event = {GOT_IP, DISCONNECTED}
  GotIp = GOT_IP
  Disconnected = DISCONNECTED
  NoEvent = NoEvent
  Capacity = 5
  MaxFailures = 2
SPECIFICATION AdapterSpec
INVARIANTS AdapterTypeOK CountersAgree WrittenSlots Balanced HandlersServed StationOwned
PROPERTY ImplementsLossyQueue
