SPECIFICATION Spec
CONSTANTS
  c1 = c1
  c2 = c2
  i1 = i1
  main = main
  events = events
  NoClient = NoClient
  NoBackend = NoBackend
  Client <- OneClient
  IP <- OneIP
  IpOf <- HomeOfOne
  Backend <- OneBackend
  BackendOrder <- MainOnly
  HealthFailures = 4
  MaxSessionsPerIP = 2
  MaxSessions = 0
  MaxAttempts = 2
  MaxCommands = 0
  Happens = {"leave", "timeout"}
INVARIANTS OwnBackendPeer
CHECK_DEADLOCK FALSE
