SPECIFICATION MCSpec
CONSTANTS
  i1 = i1
  NoGrant = NoGrant
  IP <- OneAddress
  MaxSessionsPerIP = 2
  MaxSessions = 0
  Scale = 2
  Rate = 1
  Burst = 2
  BlockDuration = 6
  SweepInterval = 2
  BucketIdleTime = 4
  MaxTime = 12
  InitiallyBanned = {}
  Client = Client
  Server = Server
  MaxAttempts = 2
  MaxStops = 1
  ToClient = 1
  ToServer = 2
  MaxInFlight <- InFlight
  MaxConnectAttempts = 1
  Timeout = 1
  LateRequests = TRUE
INVARIANTS RateLimit CapPerIP AttemptsAnswered
PROPERTIES BlockLasts ReportsAgree EndsForAReason
CHECK_DEADLOCK FALSE
