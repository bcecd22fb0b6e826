SPECIFICATION HttpSpec
CONSTANTS
  c1 = c1
  Calls <- MCCalls
  Retry = 2
  Cancellable = TRUE
INVARIANTS OwnedStreamLives NoRequestLeak
PROPERTIES RequestsExit ImplementsConnect
CHECK_DEADLOCK FALSE
