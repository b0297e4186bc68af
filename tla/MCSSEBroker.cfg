SPECIFICATION FairBrokerSpec
CONSTANTS
  N = 3
  Calls = {p, q}
  ToAll = {q}
  Final = {p}
  Nil = Nil
  ChanCap = 1
INVARIANTS
  ListExact
  OfferedOnce
PROPERTIES
  LeaversLeave
