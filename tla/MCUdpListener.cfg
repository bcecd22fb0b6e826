SPECIFICATION Spec
CONSTANTS
  a = a
  b = b
  s1 = s1
  s2 = s2
  None = None
  Sessions <- MCSessions
  MsgCap = 1
  Frame = 2
  Clients <- MCClients
  MaxMsgs = 3
INVARIANTS TypeOK NoUseAfterFree ExactMap
PROPERTIES InOrder ClosesFinish
CHECK_DEADLOCK FALSE
