SPECIFICATION FairSpec
CONSTANTS
  Channels = {ordered, unordered}
  Ordered = {ordered}
  ordered = ordered
  MaxMessages = 2
  MaxParts = 3
  MaxFragmentId = 2
INVARIANTS CollectionsEnd
PROPERTIES MessagesOnce MessagesAll
CHECK_DEADLOCK FALSE
