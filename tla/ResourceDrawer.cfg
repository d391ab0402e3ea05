SPECIFICATION RDFairSpec
CONSTANTS
  Objects = {a, b}
  None = None
  MaxPosts = 2
  Kinds <- MCKinds
  Visited <- MCVisited
  MaxMoves = 2
  MaxFailures = 1
  MaxOutages = 1
INVARIANTS
  RDTypeOK
  ShowsItsObject
  WaitsHaveAnswers
PROPERTIES
  AppliedWasValidated
  Settles
  ExecutionEnds
CHECK_DEADLOCK FALSE
