\* Every recipe is risky: another one is like a risky one approved at once.
SPECIFICATION FairSpec
CONSTANTS
  Jobs = {1, 2}
  Agents = {a1}
  Keys = {1, 2}
  Recipes = {"package_check"}
  RiskyRecipes = {"package_check"}
  Evidence = {"transcript", "interruption"}
  Transcript = "transcript"
  Interruption = "interruption"
  Redact <- MCRedact
  MaxSequence = 0
  MaxCancels = 1
  None = None
  Processes = {p1}
  IdentityOf <- MCSameDirectory
  MaxFaults = 1
CONSTRAINT MCNamedInOrder
INVARIANTS
  TypeOK
  LaunchIsLicensed
  AtMostOneLaunch
  SuccessIsReal
  ResultIsJournaled
  ReportsAreAcceptable
  WatchedJobIsOpen
PROPERTIES
  ImplementsContract
  QueuedJobCloses
