SPECIFICATION FairSpec
CONSTANTS
  None = None
  Keys = {k1, k2, k3, k4}
  Values = {v1, v2}
  CAPACITY = 4
INVARIANTS
  TableExact
PROPERTIES
  RefinesIndexMap
  CallReturns
