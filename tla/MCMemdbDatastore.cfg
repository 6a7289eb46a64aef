\* Up to four writes, each one or two mutations; the clock only moves the
\* changelog timestamps, which the history does not depend on.
CONSTANTS
  AllTuples <- MCAllTuples
  Preconditions <- MCPreconditions
  Mutations <- MCMutations
  MaxRevision = 4
  MaxTime = 1
  FuzzWindow = 1
  GcWindow = 2
SPECIFICATION HistSpec
PROPERTY ImplementsVersionedStore
\* The datastore alone has only writes and the clock, both capped by the
\* bounds above; a state with both at their cap has no successor.
CHECK_DEADLOCK FALSE
