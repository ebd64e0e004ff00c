SPECIFICATION Spec
CONSTANTS
  Instance = {i1, i2}
  Client = {c1, c2}
  Seeded = {c1, c2}
  Upsert = {u1, u2}
  Lookup = {l1}
  Limit = {0, 1, 2}
  SeedLimit = 3
  Fallback = 60
  Default = 50
  NoRow = NoRow
  Unknown = Unknown
  MaxCrashes = 1
INVARIANTS TypeOK AckedLimitUsed SeedsTogether ServesWithTables SomeGatewayStarts
CHECK_DEADLOCK FALSE
