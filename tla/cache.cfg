SPECIFICATION CacheSpec
CONSTANTS
  Servers = {s1, s2}
  Flushers = {f1, f2}
  Main = Main
  None = None
  MaxChanges = 3
  MaxExits = 1
SYMMETRY Symmetry
INVARIANTS
  CacheTypeOK
  FileCatchesUp
  ShutdownSaves
CHECK_DEADLOCK FALSE
