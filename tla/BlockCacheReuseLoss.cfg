CONSTANTS
  num_segments = 2
  Segs <- ThreeSegs
  Block <- TwoBlocks
  Vals = {a, b, c}
  a = a
  b = b
  c = c
  Zero = Zero
  Orig = Orig
  Torn = Torn
  UsePthreads = TRUE
  VerifyWrites = TRUE
  MinimizeWrites = FALSE
  HwTrim = FALSE
  EndOffset = 0
  WriteReqs <- MixedWrites
  ReadReqs <- NoReqs
  TrimReqs <- NoReqs
  MaxOps = 4
  MaxFaults = 0
SPECIFICATION Spec
INVARIANT DurableEvenIfReused
