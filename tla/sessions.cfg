SPECIFICATION Spec
CONSTANTS
  c1 = c1
  c2 = c2
  Clients = {c1, c2}
  SessionTtl = 2
  Window = 2
  MaxFailures = 2
  MaxSessions = 2
  MaxAttempts = 2
  MaxLogins = 3
  MaxWrong = 5
  MaxRestarts = 1
  MaxTime = 4
  MaxMcpSessions = 2
  MaxConnecting = 2
  MaxTransports = 5
  MaxMcpTime = 2
SYMMETRY ClientSymmetry
INVARIANTS
  AuthTypeOK
  AliveWhileUsed
  TablesBounded
  ThrottledForCause
  SessionsBounded
  ReplacedWereIdle
  SurvivorsWereLate
CHECK_DEADLOCK FALSE
