SPECIFICATION Spec
CONSTANTS
  Zone = 1
  Jitter = 1
  Slack = 0
  MaxTime = 2
  MaxMessages = 2
  MaxRestarts = 1
INVARIANTS FieldTypeOK OrderIsImmaterial
PROPERTIES NeverBack OneStateIsEnough
CHECK_DEADLOCK FALSE
