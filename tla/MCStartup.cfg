SPECIFICATION Spec
CONSTANTS
  n1 = n1
  n2 = n2
  Names <- MCNames
  MaxItems = 4
  MaxRoutes = 2
SYMMETRY Symmetry
INVARIANTS TypeOK NamesResolved FailureCloses
CHECK_DEADLOCK FALSE
