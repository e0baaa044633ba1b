SPECIFICATION FairSpec
CONSTANTS
  MaxMessages = 9
  MaxBacklog = 2
  MaxSequence = 6
  Lifetime = 3
  MaxSilence = 2
INVARIANTS LastNotForgotten
PROPERTIES DeliversNewest DeliversLast
CHECK_DEADLOCK FALSE
