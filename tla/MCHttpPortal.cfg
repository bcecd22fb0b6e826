SPECIFICATION Spec
CONSTANTS
  r1 = r1
  r2 = r2
  Requests <- MCRequests
INVARIANTS TypeOK ResponseAlive NoOrphan
PROPERTIES HandlersFreed
CHECK_DEADLOCK FALSE
