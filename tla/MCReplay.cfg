\* The proportions of the code: a nonce is kept for two windows.
SPECIFICATION Spec
CONSTANTS
  Requests = {r1}
  Window = 6
  Keep = 12
  MaxWait = 1
  Skew = 6
  MaxTime = 20
  None = None
INVARIANT NeverReplayed
