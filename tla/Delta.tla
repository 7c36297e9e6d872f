------------------------------- MODULE Delta -------------------------------
(***************************************************************************)
(* Applying one delta resource: the patch in the archive is decoded with   *)
(* xdelta3 (fwup_xdelta3.c, the callbacks of fwup_apply.c) against a       *)
(* source partition that is read through the block cache, decrypted on the *)
(* way if it is an encrypted one (disk_crypto.c, read_segment of           *)
(* block_cache.c), while raw_write puts the new image through the same     *)
(* cache; then on-finish, or on-error if something failed.                 *)
(*                                                                         *)
(* One thread: who asks the cache waits for the writer, so that it finds   *)
(* what it would have found (module BlockCache).  The unit of data is a    *)
(* block (module PadToBlock is about what is smaller).  The content of a   *)
(* block is plain, or encrypted as block number lba of its partition;      *)
(* decrypting anything else gives noise.                                   *)
(***************************************************************************)
EXTENDS Integers, SequencesExt, FiniteSets, TLC

CONSTANTS
  SegBlocks,     \* blocks of a cache segment (128 KB, 256)
  CacheSizes,    \* numbers of cache segments to try
  DevBlocks,     \* blocks of the device
  ReadBlocks,    \* READ_SIZE of fwup_xdelta3.c, in blocks
  MaxReturn,     \* MAX_READ_RETURN_SIZE, in blocks
  Layouts,       \* [src, count, dst, last, src_key, dst_key] to try; last is the block on-finish and on-error write
  Patches        \* patches to try: [ops, ends], the source blocks to copy and insertions (New) that make the
                 \* new image, block by block, and where each window of them ends

New == -1
ASSUME DeltaAssumption ==
  /\ {SegBlocks, DevBlocks, ReadBlocks, MaxReturn} \subseteq Nat \ {0} /\ DevBlocks % SegBlocks = 0
  /\ CacheSizes \subseteq Nat \ {0}
  /\ Layouts \subseteq [src : Nat, count : Nat, dst : Nat, last : Nat, src_key : BOOLEAN, dst_key : BOOLEAN]
  /\ Patches \subseteq [ops : Seq(Nat \cup {New}), ends : Seq(Nat)]
  /\ \A p \in Patches : /\ p.ends # <<>> /\ Last(p.ends) = Len(p.ops)
                        /\ \A i \in DOMAIN p.ends : p.ends[i] > 0 /\ \A j \in 1 .. i - 1 : p.ends[j] < p.ends[i]

VARIABLES
  layout, patch, slots,   \* what is being applied, and how large the cache is
  damage,                 \* what happens to the patch: "none", "short" (its last window is missing)
  pc,
  dev,                    \* the device
  segs,                   \* the segments in use, the least recently used one first
  decrypt,                \* decrypt_callback: the base_offset of the source, or Off
  xd,                     \* struct xdelta_state, with the decoder's own state
  got                     \* what process_resource has read
input == <<layout, patch, slots, damage>>
vars == <<input, pc, dev, segs, decrypt, xd, got>>

----------------------------------------------------------------------------
(* Contents and disk_crypto                                                *)

Off == -DevBlocks - 1     \* no block is as far from base_offset
Plain(v) == [lba |-> Off, v |-> v]
Noise == Plain([at |-> Off, of |-> "noise"])

\* Block b with base_offset base.
disk_crypto_encrypt(c, base, b) == [lba |-> b - base, v |-> c.v]
disk_crypto_decrypt(c, base, b) == IF c.lba = b - base THEN Plain(c.v) ELSE Noise

\* The image on the device before (old) and after the update, block by block,
\* and the other blocks.
OldBlock(b) == [at |-> b, of |-> "old"]
Other(b) == Plain([at |-> b, of |-> "other"])
Image == patch.ops
Blocks == 0 .. DevBlocks - 1
Source == layout.src .. layout.src + layout.count - 1
Destination == layout.dst .. layout.dst + Len(Image) - 1
NewBlock(i) == IF Image[i] = New THEN [at |-> i, of |-> "new"] ELSE OldBlock(Image[i])
Before(b) ==
  IF b \in Source
  THEN IF layout.src_key THEN disk_crypto_encrypt(Plain(OldBlock(b - layout.src)), layout.src, b)
                         ELSE Plain(OldBlock(b - layout.src))
  ELSE Other(b)

----------------------------------------------------------------------------
(* The cache, as an operator on c = [dev, segs]                            *)

InSegment == 0 .. SegBlocks - 1
SegOf(b) == b \div SegBlocks
Block(s, i) == s * SegBlocks + i
Fresh(s) == [at |-> s, data |-> [i \in InSegment |-> Noise], valid |-> {}, dirty |-> {}, streamed |-> TRUE]

\* read_segment: decrypts whatever it reads, if a callback is set.
read_segment(c, s, base) ==
  [i \in InSegment |-> IF base = Off THEN c.dev[Block(s, i)]
                       ELSE disk_crypto_decrypt(c.dev[Block(s, i)], base, Block(s, i))]
LoadsOver(c, seg, base) == [seg EXCEPT !.data = read_segment(c, seg.at, base), !.valid = InSegment] \* variant: what is new is lost
make_segment_valid(c, seg, base) ==
  LET loaded == read_segment(c, seg.at, base)
  IN  IF seg.valid = InSegment THEN seg
      ELSE [seg EXCEPT !.data = [i \in InSegment |-> IF i \in seg.valid THEN @[i] ELSE loaded[i]], !.valid = InSegment]

\* flush_segment writes the whole segment.
Written(device, seg) == [b \in Blocks |-> IF SegOf(b) = seg.at THEN seg.data[b % SegBlocks] ELSE device[b]]
flush_segment(c, k, base) ==
  LET seg == make_segment_valid(c, c.segs[k], base)
  IN  IF c.segs[k].dirty = {} THEN c
      ELSE [dev |-> Written(c.dev, seg), segs |-> [c.segs EXCEPT ![k] = [seg EXCEPT !.dirty = {}]]]

\* get_segment: afterwards the segment is the last one of segs.
get_segment(c, s, base) ==
  LET hit == {k \in DOMAIN c.segs : c.segs[k].at = s}
      k == CHOOSE x \in hit : TRUE
      full == flush_segment(c, 1, base)
  IN  IF hit # {} THEN [c EXCEPT !.segs = RemoveAt(@, k) \o <<c.segs[k]>>]
      ELSE IF Len(c.segs) < slots THEN [c EXCEPT !.segs = Append(@, Fresh(s))]
      ELSE [full EXCEPT !.segs = Append(Tail(@), Fresh(s))]

\* block_cache_pwrite of one block.
block_cache_pwrite(c, b, content, streamed, base) ==
  LET g == get_segment(c, SegOf(b), base)
      k == Len(g.segs)
      old == g.segs[k]
      seg == [old EXCEPT !.data[b % SegBlocks] = content, !.valid = @ \cup {b % SegBlocks},
                         !.dirty = @ \cup {b % SegBlocks}, !.streamed = @ /\ streamed]
  IN  IF streamed /\ old.streamed /\ seg.dirty = InSegment
      THEN [dev |-> Written(g.dev, seg), segs |-> [g.segs EXCEPT ![k] = [seg EXCEPT !.dirty = {}]]]
      ELSE [g EXCEPT !.segs[k] = seg]

\* block_cache_pread of blocks b .. b + n - 1, segment by segment.
Loaded(c, s, base) ==
  LET g == get_segment(c, s, base)
      k == Len(g.segs)
  IN  [g EXCEPT !.segs[k] = make_segment_valid(g, @, base)]
block_cache_pread(c, b, n, base) ==
  LET read[i \in 0 .. n] ==
        IF i = 0 THEN [c |-> c, data |-> <<>>]
        ELSE LET r == read[i - 1]
                 l == Loaded(r.c, SegOf(b + i - 1), base)
             IN  [c |-> l, data |-> Append(r.data, Last(l.segs).data[(b + i - 1) % SegBlocks])]
  IN  read[n]
block_cache_flush(c, base) ==
  LET flushed[k \in 0 .. Len(c.segs)] == IF k = 0 THEN c ELSE LET r == flushed[k - 1] IN flush_segment(r, k, base)
  IN  flushed[Len(c.segs)]

\* raw_write of blocks, from block first on.
Stored(content, b) == IF layout.dst_key THEN disk_crypto_encrypt(content, layout.dst, b) ELSE content
raw_write(c, first, blocks, base) ==
  LET put[i \in 0 .. Len(blocks)] ==
        IF i = 0 THEN c
        ELSE LET r == put[i - 1]
                 b == first + i - 1
             IN  block_cache_pwrite(r, b, Stored(blocks[i], b), TRUE, base)
  IN  put[Len(blocks)]

Cache == [dev |-> dev, segs |-> segs]
Becomes(c) == dev' = c.dev /\ segs' = c.segs

----------------------------------------------------------------------------
(* The resource                                                            *)

Init ==
  /\ layout \in Layouts /\ patch \in Patches /\ slots \in CacheSizes /\ damage \in {"none", "short"}
  /\ \A i \in DOMAIN Image : Image[i] < layout.count
  \* The new image goes to the partition that is not running (README.md, A/B).
  /\ Source \cup Destination \cup {layout.last} \subseteq Blocks
  /\ Source \cap Destination = {} /\ layout.last \notin Source \cup Destination
  /\ pc = "resource" /\ dev = [b \in Blocks |-> Before(b)] /\ segs = <<>>
  /\ decrypt = Off /\ got = <<>>
  \* received: windows of the patch that are in; win, ip: the window and the
  \* instruction last decoded; out: avail_out; blk, cur: the source block held
  /\ xd = [received |-> 0, header |-> FALSE, win |-> 0, ip |-> 0, busy |-> FALSE, out |-> <<>>,
           bytes_already_reported |-> 0, blk |-> Off, cur |-> <<>>, end_of_patch |-> FALSE]

\* run_task finds that the size in the archive is not that of the resource:
\* the source and its decryption are set up.
SetUp ==
  /\ pc = "resource" /\ pc' = "read"
  /\ decrypt' = IF layout.src_key THEN layout.src ELSE Off
  /\ UNCHANGED <<input, dev, segs, xd, got>>

Fail == pc' = "error"

\* xdelta_read_source_callback: what is behind the source is not read.
SourceCount(offset) ==
  IF ReadBlocks > layout.count \/ offset > layout.count - ReadBlocks THEN layout.count - offset ELSE ReadBlocks
xdelta_read_source_block(blkno) ==
  LET offset == blkno * ReadBlocks
      r == block_cache_pread(Cache, layout.src + offset, SourceCount(offset), decrypt)
  IN  /\ Becomes(r.c)
      /\ xd' = [xd EXCEPT !.header = TRUE, !.blk = blkno, !.cur = r.data]
      /\ UNCHANGED <<input, pc, decrypt, got>>

\* process_resource: what xdelta_read returns is hashed and written; if it
\* returns nothing, length and hash must be right.  run_task then clears the
\* callback, which it does not do after an error.
ClearDecrypt == decrypt' = Off
Target == [i \in DOMAIN Image |-> Plain(NewBlock(i))]
EndOfResource ==
  /\ IF got = Target THEN pc' = "finish" /\ ClearDecrypt ELSE Fail /\ UNCHANGED decrypt
  /\ UNCHANGED <<dev, segs, got>>
WriteOut(blocks) ==
  /\ Becomes(raw_write(Cache, layout.dst + Len(got), blocks, decrypt))
  /\ got' = got \o blocks
  /\ UNCHANGED <<pc, decrypt>>
process_resource(blocks) == IF blocks = <<>> THEN EndOfResource ELSE WriteOut(blocks)

\* xdelta_read_impl, first: enough has accumulated to be returned.
Waiting == Len(xd.out) - xd.bytes_already_reported
TooEarly == Waiting >= MaxReturn    \* variant: takes the last block away from xdelta_consume
Enough == Waiting > MaxReturn
FirstPiece == SubSeq(xd.out, 1, MaxReturn)  \* variant: the same piece again
Piece == SubSeq(xd.out, xd.bytes_already_reported + 1, xd.bytes_already_reported + MaxReturn)
ReturnEarly ==
  /\ pc = "read" /\ Enough
  /\ process_resource(Piece)
  /\ xd' = [xd EXCEPT !.bytes_already_reported = @ + MaxReturn]
  /\ UNCHANGED input

\* What xd3_decode_input says next: it decodes a window that is in up to an
\* instruction that needs another block of the source.
WindowEnd == patch.ends[xd.win]
Stops == {j \in xd.ip + 1 .. WindowEnd : Image[j] # New /\ Image[j] \div ReadBlocks # xd.blk}
Stop == IF Stops = {} THEN WindowEnd + 1 ELSE CHOOSE j \in Stops : \A k \in Stops : j <= k
Decoded == [xd EXCEPT !.ip = Stop - 1,
                      !.out = @ \o [k \in 1 .. Stop - 1 - xd.ip |->
                                      LET i == Image[xd.ip + k]
                                      IN  IF i = New THEN Plain(NewBlock(xd.ip + k))
                                          ELSE xd.cur[(i % ReadBlocks) + 1]]]
Event ==
  IF xd.busy THEN IF xd.ip = WindowEnd THEN "OUTPUT" ELSE IF xd.ip + 1 \in Stops THEN "GETSRCBLK" ELSE "DECODE"
  ELSE IF xd.received = xd.win THEN "INPUT" ELSE IF ~xd.header THEN "GOTHEADER" ELSE "WINSTART"
Asks(e) == pc = "read" /\ ~Enough /\ Event = e

\* XD3_INPUT: xdelta_read_more.  After the end of the patch xdelta_read
\* returns nothing.
Available == Len(patch.ends) - (IF damage = "short" THEN 1 ELSE 0)
ReadMore ==
  /\ Asks("INPUT") /\ ~xd.end_of_patch
  /\ \/ xd' = (IF xd.received < Available THEN [xd EXCEPT !.received = @ + 1]
               ELSE [xd EXCEPT !.end_of_patch = TRUE]) /\ pc' = pc
     \/ Fail /\ xd' = xd             \* the archive cannot be read
  /\ UNCHANGED <<input, dev, segs, decrypt, got>>
ReadNothing == Asks("INPUT") /\ xd.end_of_patch /\ process_resource(<<>>) /\ UNCHANGED <<input, xd>>

GotHeader == Asks("GOTHEADER") /\ xdelta_read_source_block(0)
WinStart == /\ Asks("WINSTART") /\ xd' = [xd EXCEPT !.busy = TRUE, !.win = @ + 1]
            /\ UNCHANGED <<input, pc, dev, segs, decrypt, got>>
GetSrcBlk == Asks("GETSRCBLK") /\ xdelta_read_source_block(Image[xd.ip + 1] \div ReadBlocks)
Decode == /\ Asks("DECODE") /\ xd' = Decoded
          /\ UNCHANGED <<input, pc, dev, segs, decrypt, got>>

\* XD3_OUTPUT: xdelta_consume, then XD3_WINFINISH.  A wrong window is caught by
\* its checksum, most likely.
Consumed == [xd EXCEPT !.out = <<>>, !.bytes_already_reported = 0, !.busy = FALSE]
Output ==
  /\ Asks("OUTPUT")
  /\ \/ process_resource(SubSeq(xd.out, xd.bytes_already_reported + 1, Len(xd.out))) /\ xd' = Consumed
     \/ Noise \in ToSet(xd.out) /\ Fail /\ UNCHANGED <<dev, segs, decrypt, xd, got>>
  /\ UNCHANGED input

----------------------------------------------------------------------------
(* After the resource                                                      *)

\* A function that changes one block: it reads the block's segment, writes the
\* block, and the cache is flushed at the end of the update.
Updated == Plain([at |-> layout.last, of |-> "updated"])
Update(c) == LET r == block_cache_pread(c, layout.last, 1, decrypt)
                 w == block_cache_pwrite(r.c, layout.last, Updated, FALSE, decrypt)
             IN  block_cache_flush(w, decrypt)
Finish == /\ pc = "finish" /\ pc' = "done" /\ Becomes(Update(Cache))
          /\ UNCHANGED <<input, decrypt, xd, got>>

\* On an error the cache is emptied and on-error runs.  The callback is still
\* set: only the end of a resource clears it.
OnError == /\ pc = "error" /\ pc' = "failed" /\ Becomes(Update([Cache EXCEPT !.segs = <<>>]))
           /\ UNCHANGED <<input, decrypt, xd, got>>

Ended == pc \in {"done", "failed"} /\ UNCHANGED vars
Next == \/ SetUp \/ ReturnEarly \/ ReadMore \/ GotHeader \/ WinStart \/ GetSrcBlk \/ Decode \/ Output
        \/ ReadNothing \/ Finish \/ OnError \/ Ended
Spec == Init /\ [][Next]_vars

----------------------------------------------------------------------------
(* Properties                                                              *)

\* Segments with blocks b .. b + n - 1.
Segments(b, n) == {SegOf(x) : x \in b .. b + n - 1}
Touched == Segments(layout.src, layout.count) \cup Segments(layout.dst, Len(Image)) \cup {SegOf(layout.last)}

\* Decryption happens where the cache loads a segment, whatever the segment is
\* for.  That does no harm if the cache never gives a segment back before the
\* end, and the source has its segments for itself.
Separate ==
  layout.src_key =>
    /\ slots >= Cardinality(Touched)
    /\ Segments(layout.src, layout.count) \cap (Segments(layout.dst, Len(Image)) \cup {SegOf(layout.last)}) = {}

\* What xdelta_read returns, piece by piece, is the new image: no block twice,
\* none left out, in order.  What was reported of a window is part of it, and
\* the block of the source the decoder holds is the old image: it is only read
\* inside of its bounds.
StreamExact ==
  /\ xd.bytes_already_reported \in 0 .. Len(xd.out)
  /\ Separate => /\ \E n \in 0 .. Len(Target) : got = SubSeq(Target, 1, n)
                 /\ \A i \in DOMAIN xd.cur : xd.cur[i] = Plain(OldBlock(xd.blk * ReadBlocks + i - 1))

\* The only thing that makes an undamaged patch fail is that the archive cannot
\* be read (xdelta_read_more): the pieces xdelta_read_impl cuts the windows into
\* are never taken for the end of the resource.
UndamagedApplies ==
  [][Separate /\ damage = "none" /\ pc = "read" /\ pc' = "error" => Event = "INPUT" /\ ~xd.end_of_patch]_vars

\* After a success the new image is on the device.  Without Separate this does
\* not hold (README.md, section 6).
FinalBits ==
  pc = "done" => \A i \in DOMAIN Target : LET b == layout.dst + i - 1 IN dev[b] = Stored(Target[i], b)
SeparateFinalBits == Separate => FinalBits

\* Nothing else on the device changes, at any moment: neither the source nor
\* the blocks next to the destination.  The exception is on-error after an
\* encrypted delta (see ErrorHandlerFresh).
OthersKept ==
  Separate /\ ~(pc = "failed" /\ layout.src_key) =>
    \A b \in Blocks \ (Destination \cup {layout.last}) : dev[b] = Before(b)

\* The device holds the new image after a success, and at any moment the old
\* content everywhere else.
DeviceExact == SeparateFinalBits /\ OthersKept

\* on-error starts afresh: what it does not change keeps its content.  It does
\* not (README.md, section 6).
ErrorHandlerFresh ==
  pc = "failed" => \A b \in Blocks : SegOf(b) = SegOf(layout.last) /\ b # layout.last => dev[b] = Before(b)
=============================================================================
