\* Reads only, no zookies past the last revision; the changelog can fall
\* out of the GC window (MaxTime 3 > GcWindow 2) before a write.
CONSTANTS
  AllTuples <- MCAllTuples
  Relations <- MCRelations
  Rewrites <- MCRewrites
  Preconditions <- MCPreconditions
  Mutations <- MCMutations
  LookupLimits = {0}
  Headers <- MCHeaders
  Start <- Viewer
  Goal <- MCGoal
  Clients = {"read"}
  ForgedZookies = FALSE
  DefaultDepth = 50
  NotANumber = NotANumber
  MaxRevision = 2
  MaxTime = 3
  FuzzWindow = 1
  GcWindow = 2
SPECIFICATION Spec
INVARIANT UnpinnedReadNeverStale
