CONSTANTS
  User = {u1}
  HighWaterMark = 2
  MaxWork = 1
SPECIFICATION Spec
INVARIANT DisconnectedAtDtor
CHECK_DEADLOCK FALSE
