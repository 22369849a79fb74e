SPECIFICATION Spec
CONSTANTS
  i1 = i1
  i2 = i2
  i3 = i3
  i4 = i4
  Instances = {i1, i2, i3, i4}
  OutOfScope = {i4}
  Threshold = 1
  Scale = 1
  BudgetLimit = 1
  MaxActions = 2
  Recovery = TRUE
  MaxEventAge = 0
  ClockSkew = 1
  RecoveryDelay = 1
  Cooldown = 1
  Forms <- SomeForms
  Labelled <- AboutTheLimit
  MaxMessages = 2
  MaxSpend = 1
  MaxIntervals = 2
  MaxEdits = 1
  MaxFaults = 1
  MaxTime = 2
SYMMETRY InstanceSymmetry
INVARIANTS
  NotificationsInv
  StartsInLaterInterval
  StopsWereForetold
  ShownRatioDecides
PROPERTIES
  PreviewForetells
CHECK_DEADLOCK FALSE
