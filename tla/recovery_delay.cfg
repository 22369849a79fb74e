SPECIFICATION ReconciledSpec
CONSTANTS
  e1 = e1
  e2 = e2
  i1 = i1
  w1 = w1
  None = None
  Events = {e1, e2, e3}
  Instances = {i1}
  Eligible = {i1}
  Workers = {w1}
  DecisionOf <- StopTwiceThenRecover
  AutomationEnabled = TRUE
  Cooldown = 0
  MaxActions = 1
  MaxEventAge = 1
  FunctionTimeout = 1
  Lease = 2
  RecoveryDelay = 1
  FaultKinds = {"operator"}
  MaxFaults = 1
  MaxTime = 2
  e3 = e3
  MaxReviews = 1
SYMMETRY SameStops
PROPERTY
  RecoveryDelayKept
CHECK_DEADLOCK FALSE
