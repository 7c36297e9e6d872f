CONSTANTS
  HostPaths <- ManyPaths
  Sinks <- AllSinks
  Damages = {"none", "short", "changed"}
  Bk = 2
  BufLen = 2
  MapMax = 6
  DestLen = 9
SPECIFICATION Spec
INVARIANTS ResourceIntact UndamagedApplies ProgressExact
