SPECIFICATION Spec
CONSTANTS
  MaxMsgs = 2
INVARIANTS TypeOK GraceRespected NoDataLost
PROPERTIES FirstEndEndsAll EndSpreads
CHECK_DEADLOCK FALSE
