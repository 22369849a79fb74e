SPECIFICATION ReconciledSpec
CONSTANTS
  e1 = e1
  e2 = e2
  i1 = i1
  w1 = w1
  None = None
  Events = {e1, e2}
  Instances = {i1}
  Eligible = {i1}
  Workers = {w1}
  DecisionOf <- StopThenRecover
  AutomationEnabled = TRUE
  Cooldown = 1
  MaxActions = 1
  MaxEventAge = 1
  FunctionTimeout = 1
  Lease = 2
  RecoveryDelay = 1
  FaultKinds = {"store", "provider", "operation", "crash", "operator"}
  MaxFaults = 1
  MaxTime = 3
  e3 = e3
  MaxReviews = 1
INVARIANTS
  ReconcilerTypeOK
  StartsOnlyOwned
  RecoverableWasStopped
CHECK_DEADLOCK FALSE
