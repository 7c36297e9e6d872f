CONSTANTS
  num_segments = 3
  Segs <- ThreeSegs
  Block <- TwoBlocks
  Vals = {a, b, c}
  a = a
  b = b
  c = c
  Zero = Zero
  Orig = Orig
  Torn = Torn
  UsePthreads = TRUE
  VerifyWrites = TRUE
  MinimizeWrites = FALSE
  HwTrim = FALSE
  EndOffset = 5
  WriteReqs <- MixedWrites
  ReadReqs <- ManyReads
  TrimReqs <- SomeTrims
  MaxOps = 3
  MaxFaults = 1
SPECIFICATION FairSpec
INVARIANTS TypeOK Durable OnlyLastAsyncUnreported ResetQuiesces FreeDrains FlushOrder
PROPERTIES CallsReturn
