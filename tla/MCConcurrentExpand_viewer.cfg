CONSTANTS
  Relations <- FixtureRelations
  Rewrites <- FixtureRewrites
  Tuples <- FixtureTuples
  Mode = "shallow"
  Starts <- ViewerStarts
  Depths <- ViewerDepths
  FailureSets <- ViewerFailures

SPECIFICATION Spec

PROPERTY ImplementsAtomic ExpandReturns
