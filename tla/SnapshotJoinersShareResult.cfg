SPECIFICATION SESpec
CONSTANTS
  Calls = {c1, c2}
  Keys = {k1}
  PersistedKeys = {k1}
  Outcomes = {"ok", "failed", "canceled"}
  Canceled = "canceled"
  None = None
  MaxVersion = 2
  MaxHydrations = 1
SYMMETRY CallSymmetry
INVARIANTS
  JoinersShareResult
