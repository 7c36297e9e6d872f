----------------------------- MODULE FileMatch -----------------------------
(***************************************************************************)
(* fatfs_file_matches (fatfs.c), which require-fat-file-match uses: is a   *)
(* pattern inside a file that is read buffer by buffer?  A file, a pattern *)
(* and the buffer are sequences of bytes.                                  *)
(***************************************************************************)
EXTENDS Integers, Sequences

CONSTANT BufLen     \* sizeof(buffer), 4096
ASSUME MatchAssumption == BufLen \in Nat \ {0}

\* memmem: is p inside of s?
Within(p, s) == \E i \in 0 .. Len(s) - Len(p) : SubSeq(s, i + 1, i + Len(p)) = p

\* One pass of the loop: f_read fills the buffer behind the offset bytes kept
\* of the last pass; the first br bytes are searched, and their end is kept.
\* The bytes at pos and behind are still to be read.
Loop(file, p) ==
  LET pass[k \in 0 .. Len(file) + 1] ==
        IF k = 0 THEN [kept |-> <<>>, pos |-> 1, found |-> FALSE, end |-> FALSE]
        ELSE LET s == pass[k - 1]
                 room == BufLen - Len(s.kept)
                 left == Len(file) - s.pos + 1
                 br == IF left < room THEN left ELSE room
                 chunk == SubSeq(file, s.pos, s.pos + br - 1)
                 buffer == s.kept \o chunk
             IN  IF s.end \/ s.found THEN s
                 ELSE IF br = 0 THEN [s EXCEPT !.end = TRUE]
                 ELSE [kept |-> IF br >= Len(p) THEN SubSeq(buffer, br - Len(p) + 2, br)
                                ELSE SubSeq(buffer, 1, br),
                       pos |-> s.pos + br, end |-> FALSE,
                       found |-> Within(p, SubSeq(buffer, 1, br))]
  IN  pass[Len(file) + 1].found

FirstByteMissed(file, p) ==     \* variant: the search starts behind the first byte
  Loop(Tail(file \o <<"end">>), p)
fatfs_file_matches(file, p) ==
  Len(p) < BufLen /\ (p = <<>> \/ Loop(file, p))
=============================================================================
