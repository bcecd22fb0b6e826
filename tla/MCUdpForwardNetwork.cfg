SPECIFICATION Spec
CONSTANTS
  a = a
  s1 = s1
  s2 = s2
  None = None
  Sessions <- MCSessions
  Timed = TRUE
  ToNetwork = ""
  Clients <- MCClients
  Max = 1
  MaxPackets = 2
  MaxReplies = 0
INVARIANTS DialCanSucceed
CHECK_DEADLOCK FALSE
