SPECIFICATION WSFairSpec
CONSTANTS
  east = east
  west = west
  blue = blue
  Contexts = {east, west}
  None = None
  MaxPolls = 1
  Budgets <- MCBudgets
  Namespaces = {blue, red}
  Sections = {pods, nodes}
  HomeSection = pods
  DefaultNamespace = red
  ConfigNamespace <- MCConfigNamespace
  WarmUps = 1
  MaxRecent = 2
INVARIANTS
  WSTypeOK
  OneContext
  RecentFirst
  RecentDistinct
  OfflineHasReason
PROPERTIES
  EndsInKnownNamespace
  StartupEnds
  HealthConverges
CHECK_DEADLOCK FALSE
