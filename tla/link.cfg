SPECIFICATION LinkFairSpec
CONSTANTS
  None = None
  n2 = n2
  d1 = d1
  Conns = {c1, c2}
  Ids = {n1}
  IdOf <- AddressOf
  Msgs = {}
  From <- Nothing
  Audience <- Nobody
  Closers = {}
  CanStall = TRUE
  Senders = {g1, g2}
  MaxVersion = 2
INVARIANTS
  OneLiveLink
 
CHECK_DEADLOCK FALSE
