--------------------------- MODULE MCBlockCache ---------------------------
(* Small instances of BlockCache for TLC.                                  *)
EXTENDS BlockCacheProps, TLC

CONSTANTS a, b, c   \* model values written by callers

W(first, count, val, streamed) ==
  [first |-> first, count |-> count, val |-> val, streamed |-> streamed]
R(first, count) == [first |-> first, count |-> count]

\* Segments of two blocks: 0-1 is segment 0, 2-3 segment 1, 4-5 segment 2.
ThreeSegs == 0 .. 2
FourSegs  == 0 .. 3
TwoBlocks == 0 .. 1

\* Stream whole segments, in one piece and in halves; random-access writes
\* of a part of a segment (a boot record, a FAT block); overlap of the two.
Streams == {W(0, 2, a, TRUE), W(2, 2, b, TRUE)}
MixedWrites == {W(0, 2, a, TRUE), W(0, 1, b, FALSE), W(1, 2, b, TRUE), W(2, 2, a, TRUE), W(4, 1, c, FALSE)}
ManyReads == {R(0, 1), R(1, 3)}
SomeTrims == {R(0, 3), R(2, 2)}

\* Around the end of a media of five blocks: before, across and behind it.
EndWrites == {W(0, 2, a, TRUE), W(0, 1, b, FALSE), W(1, 2, b, TRUE), W(3, 2, c, FALSE), W(6, 2, c, TRUE)}
EndReads  == {R(0, 1), R(3, 3)}

NoReqs == {}

============================================================================
