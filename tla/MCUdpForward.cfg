SPECIFICATION Spec
CONSTANTS
  a = a
  s1 = s1
  s2 = s2
  None = None
  Sessions <- MCSessions
  Timed = TRUE
  ToNetwork = "udp"
  Clients <- MCClients
  Max = 1
  MaxPackets = 3
  MaxReplies = 1
INVARIANTS TypeOK OneReachableSession
PROPERTIES IdleSessionsEnd CloseEndsAll
CHECK_DEADLOCK FALSE
