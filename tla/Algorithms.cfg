CONSTANTS
  StackSize = 16
  Primary = 2
  Logical = 3
  Wrap = 16
  GptMax = 3
  TableBlocks = 1
  BufLen = 3
  MaxTokens = 5
  MaxFile = 7
  B = 2
  Bits = 2
  StartLen = 3
  Unit = 3
  EndOffset = 7
  MaxSeg = 8
SPECIFICATION AllSpec
INVARIANTS EvalExact MbrTables GptTables MatchExact VectorExact
CHECK_DEADLOCK FALSE
