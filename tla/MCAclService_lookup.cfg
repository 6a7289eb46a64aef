\* Lookups of the documents Goal can view, with no limit, a limit of one
\* and one above the maximum, while writes add and remove the grants.
CONSTANTS
  AllTuples <- LookupTuples
  Relations <- MCRelations
  Rewrites <- MCRewrites
  Preconditions <- LookupPreconditions
  Mutations <- LookupMutations
  LookupLimits <- MCLookupLimits
  Headers <- LookupHeaders
  Start <- Viewer
  Goal <- MCGoal
  Clients = {"lookup"}
  ForgedZookies = FALSE
  DefaultDepth = 50
  NotANumber = NotANumber
  MaxRevision = 2
  MaxTime = 2
  FuzzWindow = 1
  GcWindow = 2
SPECIFICATION Spec
INVARIANT LookupCompleteBelowLimit
