SPECIFICATION MCSpec
CONSTANTS
  Listening = Listening
  Link = Link
  Others = {pump}
  Closer = Closer
  Sweeper = Sweeper
  CommandQueueSize = 1
  MaxPosts = 4
  Main = Main
  ProxyThreads = {p}
  Threads = {Main, p}
  RingSize = 2
  QueueSize = 1
  Subscriptions = {0}
  Levels = {1, 2}
  MaxEntries = 5
INVARIANTS NoHandlerAfterStop NothingLost
PROPERTIES StopReturns PostsEnd EntriesShown QuitEnds
CHECK_DEADLOCK FALSE
