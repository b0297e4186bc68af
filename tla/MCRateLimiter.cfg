SPECIFICATION LimiterSpec
CONSTANTS
  c1 = c1
  c2 = c2
  h1 = h1
  Conns = {c1, c2}
  Hosts = {h1}
  Header <- OneProxied
  NoHeader = NoHeader
  Token = 2
  Capacity = 4
  PurgeAge = 4
  MaxTime = 6
INVARIANTS
  RateBounded
  SteadyNeverRefused
