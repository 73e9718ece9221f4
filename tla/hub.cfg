SPECIFICATION HubFairSpec
CONSTANTS
  None = None
  c1 = c1
  c2 = c2
  relayed = relayed
  Conns = {c1, c2, c3}
  Ids = {c1, c2, c3}
  IdOf <- OwnId
  Msgs = {m1, m2, relayed}
  From <- OneRelayed
  Audience <- ForAll
  Closers = {c1}
  CanStall = TRUE
INVARIANTS
  HubTypeOK
  EntryIsServed
  LiveIsRegistered
  OneWriter
  SameOrder
PROPERTY LiveClientsHear
CHECK_DEADLOCK FALSE
