CONSTANTS
  Segs <- ThreeSegs
  Blocks <- SixBlocks
  SegOf <- Halves
  Resources = {"r1", "r2"}
  TaskLists <- ManyTasks
  Archives <- ManyArchives
  Builds <- BothBuilds
  FaultKinds = {"write", "read"}
  MaxFaults = 2
  None = None
SPECIFICATION Spec
INVARIANTS SwitchLast ErrorHandlerLands SuccessOnMedia
PROPERTIES FailureStopsWrites Terminates
