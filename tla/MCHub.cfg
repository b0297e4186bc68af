SPECIFICATION FairSpec
CONSTANTS
  Clients = {a, b}
  BroadcastCap = 1
  SendCap = 1
  MaxEvents = 3
INVARIANTS
  NoPanic
  RegistryExact
  NoGaps
PROPERTIES
  ClosedIsForgotten
