SPECIFICATION Spec
CONSTANTS
  c1 = c1
  c2 = c2
  Calls <- MCCalls
  Retry = 2
  Cancellable = TRUE
INVARIANTS TypeOK NoLeak
PROPERTIES ErrorIsFinal OneLateDial CallsEnd HandoffSafe HandoffLive
CHECK_DEADLOCK FALSE
