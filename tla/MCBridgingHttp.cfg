SPECIFICATION Spec
CONSTANTS
  MaxMsgs = 1
INVARIANTS NoLateWrite
CHECK_DEADLOCK FALSE
