CONSTANTS
  Offsets = {o1, o2, o3}
  Names = {x, y}
  Contents <- Sparse
  NoFS = NoFS
  None = None
  Dir = Dir
  Torn = Torn
  Hole = Hole
  d = d
  e = e
  Volumes = 2
  Cap = 3
  MaxCalls = 3
  Pitfalls = {}
SPECIFICATION Spec
INVARIANTS OpenFileLives
PROPERTIES ImplementsStore
SYMMETRY Symmetric
