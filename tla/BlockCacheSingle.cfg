CONSTANTS
  num_segments = 2
  Segs <- FourSegs
  Block <- TwoBlocks
  Vals = {a, b, c}
  a = a
  b = b
  c = c
  Zero = Zero
  Orig = Orig
  Torn = Torn
  UsePthreads = FALSE
  VerifyWrites = TRUE
  MinimizeWrites = FALSE
  HwTrim = FALSE
  EndOffset = 5
  WriteReqs <- EndWrites
  ReadReqs <- EndReads
  TrimReqs <- SomeTrims
  MaxOps = 4
  MaxFaults = 2
SPECIFICATION Spec
INVARIANTS NoErrorLost PastEndUntouched
