\* Timestamps on both sides of the window and of the margin, which is 1.
SPECIFICATION Spec
CONSTANTS
  Requests = {r1, r2}
  Window = 3
  Keep = 6
  MaxWait = 2
  Skew = 4
  MaxTime = 16
  None = None
SYMMETRY MCSymmetry
INVARIANTS
  OnceUnlessAhead
  TwiceAtMost
  Remembered
