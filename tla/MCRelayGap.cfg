SPECIFICATION RelaySpec
CONSTANTS
  RelayQueueSize = 1
  MaxMessages = 3
INVARIANTS NoGap
CHECK_DEADLOCK FALSE
