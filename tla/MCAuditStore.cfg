SPECIFICATION Spec
CONSTANTS
  r1 = r1
  r2 = r2
  r3 = r3
  j1 = j1
  j2 = j2
  Reqs = {r1, r2, r3}
  pushed = pushed
  bot = bot
  FieldsOf <- Payloads
  Empty = Empty
  Backends = {"memory", "postgres"}
  DefaultLimit = 2
  MaxLimit = 3
  MaxTime = 1
  MaxRestarts = 1
  None = None
INVARIANTS
  CreatedIsKept
  MemoryPageExact
  PostgresPageExact
PROPERTIES
  AppendOnly
