SPECIFICATION Spec
CONSTANTS
  Logins = {l1, l2, l3, l4}
  Threads = 3
  Remote = {k1, k2}
  LocalKey = k0
  Issued = {t1}
  Window = 1
  Limit = 1
  TokenTTL = 1
  MaxTime = 1
  MaxFaults = 1
  None = None
SYMMETRY MCSymmetry
CHECK_DEADLOCK FALSE
INVARIANTS
  OneLocalAgent
  UnlockFailsOnlyRaced
  RegisteredOnce
  ThrottleIsExact
  ThrottleIsBounded
