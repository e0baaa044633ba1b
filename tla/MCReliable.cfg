SPECIFICATION FairSpec
CONSTANTS
  MaxMessages = 9
  MaxBacklog = 1
  WindowSize = 2
  MaxSequence = 8
  Lifetime = 2
INVARIANTS WindowsInStep
PROPERTIES DeliversOnce DeliversAll
CHECK_DEADLOCK FALSE
