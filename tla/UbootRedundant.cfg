CONSTANTS
  Names = {n1, n2}
  Vals = {v1, v2}
  Unset = Unset
  Bad = Bad
  UseRedundant = TRUE
  SameSegment = FALSE
  Capacity = 1
  StartFlags <- AroundWraps
  MaxUpdates = 4
  MaxBatch = 3
SPECIFICATION Spec
INVARIANTS ReadsLastUpdate UInv
PROPERTIES NeverUnreadable CrashAtomic
