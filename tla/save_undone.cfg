SPECIFICATION Spec
CONSTANTS
  a = a
  b = b
  d = d
  Calls = {a, b}
  Clients = {}
  SessionTtl = 2
  Window = 1
  MaxFailures = 1
  MaxSessions = 1
  MaxAttempts = 1
  MaxLogins = 2
  MaxWrong = 0
  MaxRestarts = 0
  MaxTime = 1
  MaxSaves = 1
  MaxLost = 0
PROPERTY ShownPolicyNotOlder
CHECK_DEADLOCK FALSE
