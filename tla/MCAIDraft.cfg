SPECIFICATION Spec
CONSTANTS
  Drafts = {d1, d2}
  Plans = {"first", "second"}
  Work <- MCWork
  Order <- MCOrder
  Handlers = {h1, h2}
  MaxLosses = 1
  MaxRestarts = 1
  None = None
SYMMETRY MCSymmetry
INVARIANTS
  DraftTypeOK
  OneWriter
  DeliveredIsReviewed
  ApprovedIsComplete
  OnlyLossesDuplicate
\* All drafts may be approved.
CHECK_DEADLOCK FALSE
