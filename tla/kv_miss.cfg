SPECIFICATION Spec
CONSTANTS
  Keys = {k1, k2}
  Clients = {c1}
  Ops = {"set", "get"}
  TTLs = {1}
  MaxTTL = 2
  Prefixed <- MCPrefixed
  FreshKeys = TRUE
  UseRedis = TRUE
  RedisFaults = FALSE
  DiskFaults = FALSE
  NoReq = NoReq
  MaxCalls = 1
  MaxCrashes = 0
INVARIANTS PromiseVisible
