SPECIFICATION FairSpec
CONSTANTS
  c1 = c1
  c2 = c2
  c3 = c3
  None = None
  Clients = {c1, c2}
  Ttl = 1
  ProbeTimeout = 1
  MaxTime = 3
  MaxRestarts = 0
  MaxUpdates = 1
  Inputs <- LimitsOnly
INVARIANTS
  ServedIsRecent
  RefreshReadsAgain
  ControlInv
PROPERTY
  OverviewAnswered
CHECK_DEADLOCK FALSE
