SPECIFICATION MCSpec
CONSTANTS
  Client = Client
  Server = Server
  MaxAttempts = 2
  MaxStops = 1
  ToClient = 1
  ToServer = 1
  MaxInFlight <- InFlight
  MaxConnectAttempts = 1
  Timeout = 1
  LateRequests = FALSE
  RelayQueueSize = 1
  MaxMessages = 3
INVARIANTS GapMeansEnd
PROPERTIES HalfOpenEnds AttemptsEnd PumpsEnd
CHECK_DEADLOCK FALSE
