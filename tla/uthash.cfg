SPECIFICATION Spec
SYMMETRY Symmetry
CONSTANTS
  Obj = {o1, o2, o3, o4}
  Key = {k1, k2, k3}
  HashValue = {0, 1, 2, 3}
  INITIAL_BUCKETS = 1
  THRESH = 2
  MaxBuckets = 8
  NULL = NULL
INVARIANTS Fsck FindsAdded
PROPERTIES KeepsOrder
