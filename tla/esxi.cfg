SPECIFICATION FairSpec
CONSTANTS
  Hosts = {h1, h2}
  MaxChanges = 2
  MaxExits = 1
INVARIANTS EsxiTypeOK DashboardAgrees
PROPERTIES StatusIsTold  EsxiStops
