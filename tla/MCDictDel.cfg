SPECIFICATION Spec
CONSTANTS k1 = k1  k2 = k2  k3 = k3  k4 = k4
  Keys = {k1, k2, k3, k4}
  Values = {u, v}
  None = None
  NoTable = NoTable
  Hash <- MCHash
  BucketSizes <- MCBucketSizes
  InitBuckets = 2
  ForceResizeRatio = 2
  MaxEntries = 6
  AllowDel = TRUE
CHECK_DEADLOCK FALSE
INVARIANTS TablesConsistent LoadBounded
PROPERTIES DeleteTakesOne
