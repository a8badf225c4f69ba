SPECIFICATION ControlSpec
CONSTANTS
  Jobs = {j1, j2}
  Agents = {a1, a2}
  Keys = {k1, k2}
  Recipes = {"workspace_demo", "package_check"}
  RiskyRecipes = {"package_check"}
  Evidence = {"secret", "hidden"}
  Redact <- MCRedact
  MaxSequence = 0
  MaxCancels = 2
  None = None
SYMMETRY MCSymmetry
INVARIANTS
  OneActivePerAgent
  ApprovalGate
  ResultClosesLease
  SuccessIsEarned
  AuditTrailReplays
PROPERTY ClosedIsForever
