SPECIFICATION FairSpec
CONSTANTS
  Keys = {k1, k2}
  Clients = {c1, c2}
  Ops = {"set", "get", "del"}
  TTLs = {1, 2}
  MaxTTL = 2
  Prefixed <- MCPrefixed
  FreshKeys = TRUE
  UseRedis = FALSE
  RedisFaults = FALSE
  DiskFaults = FALSE
  NoReq = NoReq
  MaxCalls = 3
  MaxCrashes = 0
INVARIANTS FileInSync
PROPERTIES LifeSpec EntriesLeave
