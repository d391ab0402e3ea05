SPECIFICATION LQFairSpec
CONSTANTS
  Calls = {c1, c2}
  Contexts = {east}
  Namespaces = {blue, red}
  None = None
  MaxVersion = 1
  MaxSwitches = 1
  MaxFailures = 1
  MaxOutages = 1
INVARIANTS
  LQTypeOK
  RowsOfCurrentKey
  LoadingHasLoad
PROPERTIES
  ImplementsPageRows
  Converges
CHECK_DEADLOCK FALSE
