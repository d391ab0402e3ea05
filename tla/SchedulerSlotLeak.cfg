SPECIFICATION Spec
CONSTANTS
  Calls = {c1, c2}
  k1 = k1
  k2 = k2
  k3 = k3
  k4 = k4
  east = east
  west = west
  Keys = {k1, k2}
  Clusters = {east}
  ClusterOf <- OneLane
  Priorities = {0, 1}
  Requests <- SharedRequests
  Retries = 1
  Limits = {1}
  MaxUpdates = 0
  Cancellable = {c1, c2}
  FetchResults = {"ok"}
  NoCall = NoCall

INVARIANTS
  NoRowsWithoutExecutions
CHECK_DEADLOCK FALSE
