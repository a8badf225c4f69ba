SPECIFICATION Spec
CONSTANTS
  Keys = {k1}
  Order <- MCOrder
  Stages <- MCStages
  Handlers = {h1, h2}
  MaxRequests = 3
  MaxLosses = 1
  MaxRestarts = 1
  None = None
INVARIANTS
  OrchestrationTypeOK
  RowsAreReal
  RetriesContinue
PROPERTY RetainedUnlessRaced
\* No more requests than the bound.
CHECK_DEADLOCK FALSE
