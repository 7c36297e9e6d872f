---------------------------- MODULE PadToBlock ----------------------------
(***************************************************************************)
(* The pad-to-block writer of pad_to_block_writer.c: chunks of any size,   *)
(* at increasing offsets and with holes between them, become writes of     *)
(* whole blocks.  Pure operators on a writer                               *)
(*   [buffer, index, offset : struct pad_to_block_writer,                  *)
(*    out : what the destination holds, ok : the writer's contract]        *)
(* Sequences of bytes start at 1, offsets at 0.  Encryption, which replaces*)
(* the bytes of a block just before it is written, is left out.            *)
(***************************************************************************)
EXTENDS Integers, Sequences

CONSTANT Bk   \* FWUP_BLOCK_SIZE

ASSUME BlockAssumption == Bk \in Nat \ {0}

Least(a, b) == IF a <= b THEN a ELSE b
Zeros(n) == [i \in 1 .. n |-> 0]
Take(s, n) == SubSeq(s, 1, n)
Drop(s, n) == SubSeq(s, n + 1, Len(s))

\* A write of buf at offset off into o, which grows if it has to; what is
\* skipped at the end reads as zeros.
Overwrite(o, buf, off) ==
  [i \in 1 .. (IF Len(o) >= off + Len(buf) THEN Len(o) ELSE off + Len(buf)) |->
     IF off < i /\ i <= off + Len(buf) THEN buf[i - off]
     ELSE IF i <= Len(o) THEN o[i] ELSE 0]

ptbw_init(out) == [buffer |-> <<>>, index |-> 0, offset |-> 0, out |-> out, ok |-> TRUE]

\* block_cache_pwrite: whole blocks at block boundaries are expected of it.
CachePwrite(w, buf, off) ==
  [w EXCEPT !.out = Overwrite(w.out, buf, off),
            !.ok = @ /\ off % Bk = 0 /\ Len(buf) % Bk = 0]

\* The rest of the block is cleared and the block written.
ptbw_flush(w) ==
  IF w.index = 0 THEN w
  ELSE [CachePwrite(w, Take(w.buffer, w.index) \o Zeros(Bk - w.index), w.offset)
          EXCEPT !.index = 0]

\* What is left over, with zeros for a gap that ends in its block.
Gap(w, off) ==
  IF off > w.offset + w.index /\ off < w.offset + Bk THEN off - (w.offset + w.index) ELSE 0
Padded(w, off) == Take(w.buffer, w.index) \o Zeros(Gap(w, off))

\* The first part of ptbw_pwrite: what is left over from the last call is
\* completed, or flushed when the new chunk starts behind its block.
Leftovers(w, buf, off) ==
  LET n     == Least(Bk - Len(Padded(w, off)), Len(buf))
      block == Padded(w, off) \o Take(buf, n)
      w1    == [w EXCEPT !.buffer = block, !.index = Len(block), !.ok = @ /\ off >= w.offset + w.index]
  IN  IF w.index = 0 THEN [w |-> w, buf |-> buf, off |-> off, return |-> FALSE]
      ELSE IF w.offset + w.index + Gap(w, off) # off
      THEN [w |-> ptbw_flush([w EXCEPT !.ok = @ /\ off >= w.offset + w.index]), buf |-> buf, off |-> off,
            return |-> FALSE]
      ELSE [w |-> IF Len(block) = Bk THEN ptbw_flush(w1) ELSE w1,
            buf |-> Drop(buf, n), off |-> off + n, return |-> Len(block) < Bk]

\* The last part: more than one block goes out at once, except for the end of
\* the last one, which is kept.  A single whole block is kept too.
Blocks(w, buf, off) ==
  LET n  == IF Len(buf) > Bk THEN Len(buf) - (Len(buf) % Bk) ELSE 0
      w1 == IF n > 0 THEN CachePwrite(w, Take(buf, n), off) ELSE w
  IN  IF n = Len(buf) THEN w1
      ELSE [w1 EXCEPT !.buffer = Drop(buf, n), !.index = Len(buf) - n, !.offset = off + n]

\* A chunk that starts inside a block makes a leftover of zeros in front of it;
\* the call then starts over, and at most once, because the leftover ends where
\* the chunk starts.
ptbw_pwrite(w, buf, off) ==
  LET r   == Leftovers(w, buf, off)
      pad == r.off % Bk
      r2  == Leftovers([r.w EXCEPT !.buffer = Zeros(pad), !.index = pad, !.offset = r.off - pad],
                       r.buf, r.off)
  IN  IF r.return THEN r.w
      ELSE IF pad = 0 THEN Blocks(r.w, r.buf, r.off)
      ELSE IF r2.return THEN r2.w
      ELSE Blocks(r2.w, r2.buf, r2.off)

============================================================================
