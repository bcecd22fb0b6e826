SPECIFICATION Spec
CONSTANTS
  Lengths = {0, 1, 3}
  Size = 2
  Wait = 2
  MaxDatagrams = 3
  MaxAnswers = 1
PROPERTIES ImplementsDatagrams IdleEnds
CHECK_DEADLOCK FALSE
