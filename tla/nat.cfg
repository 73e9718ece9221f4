SPECIFICATION FairSpec
CONSTANTS
  Self = self
  OtherKeys = {loop}
  Nodes = {}
  Devices = {d1}
  Target <- MCTarget
  Savers = {s1, s2}
  MaxRequests = 2
  MaxChanges = 1
  MaxExits = 1
INVARIANTS NatTypeOK OnlyOverlapTears
PROPERTIES RowsFollow NatFileFollows SendersDrain
