SPECIFICATION FairSpec
CONSTANTS
  Drafts = {1, 2, 3}
  Plans = {"first", "second"}
  Work <- MCTwins
  Order <- MCOneModule
  Handlers = {h1}
  MaxLosses = 0
  MaxRestarts = 0
  None = None
CONSTRAINT MCNamedInOrder
PROPERTY DistributionSettles
\* All drafts may be approved.
CHECK_DEADLOCK FALSE
