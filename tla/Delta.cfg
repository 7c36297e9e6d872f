CONSTANTS
  SegBlocks = 2
  CacheSizes = {1, 2, 8}
  DevBlocks = 14
  ReadBlocks = 2
  MaxReturn = 1
  Layouts <- Disjoint
  Patches <- AllPatches
SPECIFICATION Spec
INVARIANTS StreamExact DeviceExact
PROPERTIES UndamagedApplies
