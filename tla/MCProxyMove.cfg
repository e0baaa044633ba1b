SPECIFICATION Spec
CONSTANTS
  c1 = c1
  c2 = c2
  i1 = i1
  main = main
  events = events
  NoClient = NoClient
  NoBackend = NoBackend
  Client <- OneClient
  IP <- OneIP
  IpOf <- HomeOfOne
  Backend <- TwoBackends
  BackendOrder <- MainFirst
  HealthFailures = 4
  MaxSessionsPerIP = 2
  MaxSessions = 0
  MaxAttempts = 3
  MaxCommands = 1
  Happens = {"move", "refuse"}
INVARIANTS MoveLands
CHECK_DEADLOCK FALSE
