CONSTANTS
  Prefix <- MCPrefix
  Schemas <- MCSchemas
  TupleSets <- MCTupleSets
  Start <- MCStart
  Depth = 50
SPECIFICATION Spec
INVARIANT TypeOK NestedArrowRejected ExpandMatchesSchemaMeaning
\* A compile followed by one expansion ends: the final states have no step.
CHECK_DEADLOCK FALSE
