SPECIFICATION FairSpec
CONSTANTS
  a = a
  b = b
  d = d
  Calls = {a, b}
  Clients = {}
  SessionTtl = 1
  Window = 1
  MaxFailures = 1
  MaxSessions = 1
  MaxAttempts = 1
  MaxLogins = 2
  MaxWrong = 0
  MaxRestarts = 1
  MaxTime = 2
  MaxSaves = 1
  MaxLost = 1
INVARIANTS
  TypeOK
  TokenIsCurrent
  SignOutHolds
PROPERTY LoadingEnds
CHECK_DEADLOCK FALSE
