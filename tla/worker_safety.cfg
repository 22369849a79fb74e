SPECIFICATION Spec
CONSTANTS
  e1 = e1
  e2 = e2
  i1 = i1
  i2 = i2
  w1 = w1
  w2 = w2
  None = None
  Events = {e1, e2}
  Instances = {i1}
  Eligible = {i1}
  Workers = {w1, w2}
  DecisionOf <- StopThenRecover
  AutomationEnabled = TRUE
  Cooldown = 1
  MaxActions = 1
  MaxEventAge = 2
  FunctionTimeout = 1
  Lease = 2
  RecoveryDelay = 1
  FaultKinds = {"store", "provider", "operation", "crash", "duplicate", "operator"}
  MaxFaults = 1
  MaxTime = 3
SYMMETRY Symmetry
INVARIANTS
  TypeOK
  OneHolder
  AuditBeforeAction
  AuditIsTrue
  StartsOnlyOwned
  IndInv
PROPERTIES
  ActsUnderLease
  ImplementsClaims
CHECK_DEADLOCK FALSE
