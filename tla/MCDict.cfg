SPECIFICATION Spec
CONSTANTS k1 = k1  k2 = k2  k3 = k3  k4 = k4
  Keys = {k1, k2, k3, k4}
  Values = {u, v}
  None = None
  NoTable = NoTable
  Hash <- MCHash
  BucketSizes <- MCBucketSizes
  InitBuckets = 2
  ForceResizeRatio = 2
  MaxEntries = 12
  AllowDel = FALSE
CHECK_DEADLOCK TRUE
INVARIANTS NoFatal
PROPERTIES StoreSpec ReadsCatchUp
