SPECIFICATION Spec
CONSTANTS
  Main = Main
  ProxyThreads = {p}
  Threads = {Main, p}
  RingSize = 2
  QueueSize = 1
  Subscriptions = {0}
  Levels = {1, 2}
  MaxEntries = 4
INVARIANTS NoPanic
CHECK_DEADLOCK FALSE
