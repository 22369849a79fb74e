SPECIFICATION FairSpec
CONSTANTS
  e1 = e1
  e2 = e2
  i1 = i1
  i2 = i2
  w1 = w1
  w2 = w2
  None = None
  Events = {e1}
  Instances = {i1}
  Eligible = {i1}
  Workers = {w1}
  DecisionOf <- OnlyStop
  AutomationEnabled = TRUE
  Cooldown = 1
  MaxActions = 1
  MaxEventAge = 1
  FunctionTimeout = 1
  Lease = 2
  RecoveryDelay = 1
  FaultKinds = {"store"}
  MaxFaults = 2
  MaxTime = 3
PROPERTY
  StoreOutageRetried
CHECK_DEADLOCK FALSE
