SPECIFICATION Spec
CONSTANTS
  Drafts = {d1, d2}
  Plans = {"first", "second"}
  Work <- MCWork
  Order <- MCOrder
  Handlers = {h1}
  MaxLosses = 0
  MaxRestarts = 0
  None = None
INVARIANT ChecksAnswer
CHECK_DEADLOCK FALSE
