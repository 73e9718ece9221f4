SPECIFICATION Spec
CONSTANTS
  Keys = {k1, k2}
  Clients = {c1, c2}
  Ops = {"set", "get", "exists", "ttl", "extend", "del", "delprefix"}
  TTLs = {1, 2}
  MaxTTL = 2
  Prefixed <- MCPrefixed
  FreshKeys = TRUE
  UseRedis = TRUE
  RedisFaults = TRUE
  DiskFaults = FALSE
  NoReq = NoReq
  MaxCalls = 2
  MaxCrashes = 1
SYMMETRY Symmetry
INVARIANTS TypeOK EntryHasTimer PromiseHeld FileKeeps
