SPECIFICATION FairSpec
CONSTANTS
  e1 = e1
  e2 = e2
  i1 = i1
  i2 = i2
  w1 = w1
  w2 = w2
  None = None
  Events = {e1, e2}
  Instances = {i1, i2}
  Eligible = {i1, i2}
  Workers = {w1}
  DecisionOf <- StopThenRecover
  AutomationEnabled = TRUE
  Cooldown = 1
  MaxActions = 2
  MaxEventAge = 1
  FunctionTimeout = 2
  Lease = 3
  RecoveryDelay = 1
  FaultKinds = {"provider", "operation"}
  MaxFaults = 1
  MaxTime = 3
PROPERTIES
  EventuallySettled
  SubmittedIsAudited
CHECK_DEADLOCK FALSE
