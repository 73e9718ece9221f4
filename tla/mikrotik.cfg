SPECIFICATION MtFairSpec
CONSTANTS
  Devices = {d1, d2}
  Rules = {r}
  None = None
INVARIANTS
  LastSaveIsRight
PROPERTIES
  RulesAreSeen
CHECK_DEADLOCK FALSE
