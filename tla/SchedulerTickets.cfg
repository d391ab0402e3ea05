SPECIFICATION Spec
CONSTANTS
  Calls = {c1, c2, c3}
  k1 = k1
  k2 = k2
  k3 = k3
  k4 = k4
  east = east
  west = west
  Keys = {k1, k2, k3}
  Clusters = {east}
  ClusterOf <- OneLane
  Priorities = {0, 1}
  Requests <- MixedRequests
  Retries = 1
  Limits = {2}
  MaxUpdates = 0
  Cancellable = {}
  FetchResults = {"ok"}
  NoCall = NoCall

PROPERTIES
  ReleaseRemovesOwnEntry
