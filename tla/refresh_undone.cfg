SPECIFICATION Spec
CONSTANTS
  c1 = c1
  c2 = c2
  c3 = c3
  None = None
  Clients = {c1, c2, c3}
  Ttl = 2
  ProbeTimeout = 2
  MaxTime = 4
  MaxRestarts = 0
  MaxUpdates = 0
  Inputs <- LimitsOnly
INVARIANT
  RefreshInvalidates
CHECK_DEADLOCK FALSE
