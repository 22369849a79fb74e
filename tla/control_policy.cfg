SPECIFICATION Spec
CONSTANTS
  c1 = c1
  c2 = c2
  c3 = c3
  None = None
  Clients = {c1, c2, c3}
  Ttl = 1
  ProbeTimeout = 1
  MaxTime = 0
  MaxRestarts = 1
  MaxUpdates = 3
  Inputs <- Patches
SYMMETRY Symmetry
INVARIANTS
  TypeOK
  ArmedByConsent
CHECK_DEADLOCK FALSE
