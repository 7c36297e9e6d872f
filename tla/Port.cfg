CONSTANTS
  Streams <- ShortStreams
  MaxLen = 5
  Base = 2
  BufSize = 2
  InCap = 4
  OutCap = 2
  Needs = {0, 2}
  Total = 2
  Low = 0
  High = 2
SPECIFICATION Spec
INVARIANTS FramedExact LogExact
PROPERTIES Exits
