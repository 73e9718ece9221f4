SPECIFICATION MapFairSpec
CONSTANTS
  Self = self
  OtherKeys = {}
  Nodes = {node}
  MaxChanges = 1
  MaxExits = 1
PROPERTIES ServicesSettle ScanShows
