SPECIFICATION Spec
CONSTANTS
  Calls = {c1, c2, c3}
  k1 = k1
  k2 = k2
  k3 = k3
  k4 = k4
  east = east
  west = west
  Keys = {k1, k2, k3, k4}
  Clusters = {east, west}
  ClusterOf <- TwoLanes
  Priorities = {0, 1, 2}
  Requests <- LaneRequests
  Retries = 1
  Limits = {1, 2}
  MaxUpdates = 1
  Cancellable = {c1}
  FetchResults = {"ok"}
  NoCall = NoCall
SYMMETRY CallSymmetry
INVARIANTS
  ExecutionIsExclusive
  OneSlotPerKey
  RunsWithinEntries
  NoIdleSlot
  EffectivePriorityIsBest
  NoCircularWait
PROPERTIES
  GrantsWithinLimit
  GrantsInQueueOrder
  PreemptsOnlyWorse
CHECK_DEADLOCK FALSE
