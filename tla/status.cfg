SPECIFICATION WatchSpec
CONSTANTS
  Servers = {me, node}
  Local = me
  Period = 1
  Threshold = 1
  Every = 1
  MaxRelays = 1
  None = None
INVARIANTS
  WatchTypeOK
  SilenceIsTold
  RecoveryIsTold
PROPERTIES
  NoFalseAlarm
