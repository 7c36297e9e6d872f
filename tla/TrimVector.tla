----------------------------- MODULE TrimVector -----------------------------
(***************************************************************************)
(* The trim bit vector of block_cache.c: one bit per segment in an array   *)
(* of bytes, one flag for all segments behind the array, and the rounding  *)
(* of block_cache_trim.  Module BlockCache uses the set of segments that   *)
(* the bit vector stands for; here it is checked against that set.         *)
(*                                                                         *)
(* Offsets are in blocks.  A byte has Bits bits (8 in the code), the array *)
(* starts with StartLen bytes (65536, for 64 GiB) and grows in units of    *)
(* Unit bytes (4096).                                                      *)
(***************************************************************************)
EXTENDS Integers, FiniteSets

CONSTANTS
  B,           \* blocks per segment
  Bits, StartLen, Unit,
  EndOffset,   \* hard end_offset, 0 when unknown or soft
  MaxSeg       \* bound: segments 0 .. MaxSeg are addressed

ASSUME VectorAssumption ==
  /\ {B, Bits, StartLen, Unit} \subseteq Nat \ {0}
  /\ EndOffset \in Nat /\ MaxSeg \in Nat

VARIABLES
  trimmed,            \* trimmed[i]: the bits set in byte i of the array
  trimmed_remainder,  \* the segments behind the array are trimmed
  \* history
  gone,               \* segments trimmed and not written since
  outside             \* a byte behind the array was touched
vector == <<trimmed, trimmed_remainder, gone, outside>>

Segs == 0 .. MaxSeg
Byte == 0 .. Bits - 1
trimmed_len == Cardinality(DOMAIN trimmed)
trimmed_end_offset == StartLen * Bits * B

----------------------------------------------------------------------------
is_trimmed(s) ==
  IF s \div Bits >= trimmed_len THEN trimmed_remainder
  ELSE (s % Bits) \in trimmed[s \div Bits]

\* enlarge_trim_bitvector: the index rounded up to whole units, new bytes filled
\* with the value of the rest.
NewLength(ix) == ((ix + Unit - 1) \div Unit) * Unit
enlarge_trim_bitvector(ix) ==
  [i \in 0 .. NewLength(ix) - 1 |->
     IF i < trimmed_len THEN trimmed[i] ELSE IF trimmed_remainder THEN Byte ELSE {}]

\* Clear bit s, in an array that may just have grown.  Outside of the array
\* there is nothing of the vector's to change.
ClearBit(v, s) ==
  /\ trimmed' = [i \in DOMAIN v |-> IF i = s \div Bits THEN v[i] \ {s % Bits} ELSE v[i]]
  /\ outside' = (outside \/ s \div Bits \notin DOMAIN v)

\* A segment was written, or its write was given up.
clear_trimmed ==
  \E s \in Segs :
    /\ \/ /\ s \div Bits < trimmed_len
          /\ ClearBit(trimmed, s)
       \/ /\ s \div Bits >= trimmed_len /\ trimmed_remainder
          /\ ClearBit(enlarge_trim_bitvector(s \div Bits), s)
       \/ /\ s \div Bits >= trimmed_len /\ ~trimmed_remainder
          /\ UNCHANGED <<trimmed, outside>>
    /\ gone' = gone \ {s}
    /\ UNCHANGED trimmed_remainder

\* The segments that lie completely inside a range.
Inside(first, count) == {s \in Segs : first <= s * B /\ (s + 1) * B <= first + count}

\* The bits a trim sets in byte i, for segments begin .. end - 1: a part of one
\* byte, or the rest of the first, whole bytes, and the start of the last.
WholeLastByte(i, begin, end) == \* variant: the last byte is filled
  {b \in Byte : \/ i = begin \div Bits /\ begin % Bits <= b
                \/ begin \div Bits < i /\ i <= end \div Bits}
SetBits(i, begin, end) ==
  IF begin \div Bits = end \div Bits
  THEN {b \in Byte : i = begin \div Bits /\ begin % Bits <= b /\ b < end % Bits}
  ELSE {b \in Byte : \/ i = begin \div Bits /\ begin % Bits <= b
                     \/ begin \div Bits < i /\ i < end \div Bits
                     \/ i = end \div Bits /\ b < end % Bits}

\* The vector v after block_cache_trim of `count' blocks from `offset'.  Only
\* what the array could hold at the start is tracked.
Trim(v, offset, count) ==
  LET aligned == ((offset + B - 1) \div B) * B
      left    == ((count - (aligned - offset)) \div B) * B
      adjusted == IF offset + left <= trimmed_end_offset THEN left
                  ELSE trimmed_end_offset - offset
      begin   == aligned \div B
      end     == begin + adjusted \div B
  IN  IF left <= 0 \/ offset >= trimmed_end_offset THEN v
      ELSE [i \in DOMAIN v |-> v[i] \cup SetBits(i, begin, end)]

block_cache_trim ==
  \E offset \in 0 .. (MaxSeg + 1) * B, count \in 1 .. (MaxSeg + 1) * B :
    /\ offset + count <= (MaxSeg + 1) * B
    /\ trimmed' = Trim(trimmed, offset, count)
    /\ gone' = gone \cup Inside(offset, count)
    /\ UNCHANGED <<trimmed_remainder, outside>>

----------------------------------------------------------------------------
\* block_cache_init: nothing is trimmed, unless the destination has a hard end
\* inside the tracked range; then block_cache_trim_after its end, rounded up to
\* a segment.
block_cache_init ==
  LET zero  == [i \in 0 .. StartLen - 1 |-> {}]
      after == ((EndOffset + B - 1) \div B) * B
      known == EndOffset > 0 /\ after <= trimmed_end_offset
  IN  /\ trimmed_remainder = known
      /\ trimmed = IF known THEN Trim(zero, after, trimmed_end_offset - after) ELSE zero
      /\ gone = IF known THEN {s \in Segs : s * B >= after} ELSE {}
      /\ outside = FALSE

VectorNext == clear_trimmed \/ block_cache_trim
VectorSpec == block_cache_init /\ [][VectorNext]_vector

----------------------------------------------------------------------------
(* Properties                                                              *)

\* No read is answered with zeros for a segment that holds data: what the bit
\* vector calls trimmed has been trimmed, or lies past the end, and has not
\* been written since.  Nothing is said once a byte behind the array was
\* touched: NewLength makes no room for the first byte of a new unit.
NeverHidesData == ~outside => \A s \in Segs : is_trimmed(s) => s \in gone

\* Inside the range that is tracked from the start the vector is exact: the
\* byte-wise marking of block_cache_trim misses no whole segment.
TrackedExactly ==
  \A s \in Segs : s < StartLen * Bits => (is_trimmed(s) <=> s \in gone)

\* The bit vector says what was trimmed: never too much, and inside the tracked
\* range not too little either (block_cache_trim and the clearing of a bit by
\* a write).
VectorExact == NeverHidesData /\ TrackedExactly

=============================================================================
