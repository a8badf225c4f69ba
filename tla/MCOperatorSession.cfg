SPECIFICATION Spec
CONSTANTS
  Sessions = {s1, s2}
  Requests = {r1, r2, r3}
  Modules = {"pm"}
  TTL = 2
  Window = 2
  Limit = 2
  MaxTime = 3
  MaxRestarts = 1
  None = None
SYMMETRY MCSymmetry
CHECK_DEADLOCK FALSE
INVARIANTS
  AttemptsAreBounded
  LogoutDropsIdentity
  SessionLasts
