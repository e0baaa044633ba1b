SPECIFICATION Spec
CONSTANTS
  c1 = c1
  c2 = c2
  i1 = i1
  main = main
  events = events
  NoClient = NoClient
  NoBackend = NoBackend
  Client <- TwoClients
  IP <- OneIP
  IpOf <- HomeOfTwo
  Backend <- TwoBackends
  BackendOrder <- MainFirst
  HealthFailures = 1
  MaxSessionsPerIP = 2
  MaxSessions = 1
  MaxAttempts = 2
  MaxCommands = 2
  Happens = {"kick", "move", "ban", "unban", "backend", "maintenance", "silent", "probe"}
INVARIANTS TypeOK CapsHold TablesAgree HealthFollowsFailures
SYMMETRY Neighbours
CHECK_DEADLOCK FALSE
