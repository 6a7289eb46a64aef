\* A namespace whose nested union holds a computed userset in
\* TUPLE_USERSET_OBJECT mode: expand() panics while building the closures,
\* so the process exits and the handler never answers.  The process really
\* stops there, hence no deadlock check.
CONSTANTS
  Relations <- AuditRelations
  Rewrites <- PanicRewrites
  Tuples <- AuditTuples
  Mode = "recursive"
  Starts <- AuditStarts
  Depths <- AuditDepths
  FailureSets <- AuditFailures

SPECIFICATION Spec
CHECK_DEADLOCK FALSE
PROPERTY ExpandReturns
