CONSTANTS
  Relations <- AuditRelations
  Rewrites <- AuditRewrites
  Tuples <- AuditTuples
  Mode = "recursive"
  Starts <- AuditStarts
  Depths <- AuditDepths
  FailureSets <- AuditFailures

SPECIFICATION Spec
INVARIANT NoGoroutineLeak
