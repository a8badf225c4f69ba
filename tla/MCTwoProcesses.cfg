SPECIFICATION Spec
CONSTANTS
  Jobs = {j1}
  Agents = {a1}
  Keys = {k1}
  Recipes = {"workspace_demo", "package_check"}
  RiskyRecipes = {"package_check"}
  Evidence = {"transcript", "interruption"}
  Transcript = "transcript"
  Interruption = "interruption"
  Redact <- MCRedact
  MaxSequence = 0
  MaxCancels = 1
  None = None
  Processes = {p1, p2}
  IdentityOf <- MCSameDirectory
  MaxFaults = 0
INVARIANTS
  InterruptedMeansCrashed
