SPECIFICATION FairSpec
CONSTANTS
  e1 = e1
  e2 = e2
  i1 = i1
  i2 = i2
  w1 = w1
  w2 = w2
  None = None
  Events = {e1, e2}
  Instances = {i1}
  Eligible = {i1}
  Workers = {w1}
  DecisionOf <- TwoStops
  AutomationEnabled = TRUE
  Cooldown = 1
  MaxActions = 1
  MaxEventAge = 3
  FunctionTimeout = 3
  Lease = 4
  RecoveryDelay = 1
  FaultKinds = {"provider"}
  MaxFaults = 1
  MaxTime = 3
PROPERTY
  TimeoutRemainsResumable
CHECK_DEADLOCK FALSE
