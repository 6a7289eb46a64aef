CONSTANTS
  AllTuples <- MCAllTuples
  Preconditions <- MCPreconditions
  Mutations <- MCMutations
  Relations <- MCRelations
  Rewrites <- MCRewrites
  Starts <- MCStarts
  Headers <- MCHeaders
  DefaultDepth = 50
  NotANumber = NotANumber
  ForgedZookies = TRUE
  MaxRequests = 1
  MaxRevision = 2
  MaxTime = 1
  FuzzWindow = 1
  GcWindow = 2
SPECIFICATION Spec
INVARIANT ExpandReadsOneSnapshot
