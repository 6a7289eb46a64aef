CONSTANTS
  AllTuples <- MCAllTuples
  Relations <- MCRelations
  Rewrites <- MCRewrites
  Preconditions <- MCPreconditions
  Mutations <- MCMutations
  LookupLimits = {0}
  Headers <- MCHeaders
  Start <- Viewer
  Goal <- MCGoal
  Clients = {"expand", "check"}
  ForgedZookies = FALSE
  DefaultDepth = 50
  NotANumber = NotANumber
  MaxRevision = 2
  MaxTime = 2
  FuzzWindow = 1
  GcWindow = 2
SPECIFICATION Spec
INVARIANT CheckAgreesWithExpand
