SPECIFICATION Spec
CONSTANTS
  c1 = c1
  Conns <- MCConns
  MaxUnits = 3
  MaxErrors = 1
INVARIANTS TypeOK ClientBytesIntact NoOrphan
PROPERTIES SniffEnds EndsWithClient CloseEndsServe
CHECK_DEADLOCK FALSE
