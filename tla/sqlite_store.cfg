SPECIFICATION Spec
CONSTANTS
  e1 = e1
  e2 = e2
  i1 = i1
  Events = {e1, e2}
  Instances = {i1}
  DecisionOf <- StopThenRecover
  Lease = 1
  RecoveryDelay = 1
  MaxEventAge = 1
  ClockSkew = 1
  Retention = 3
  PublishTimes = {2}
  MaxTime = 5
INVARIANT StoreInv
PROPERTIES
  ImplementsContract
  SettledForGood
CHECK_DEADLOCK FALSE
