---------------------------- MODULE BlockCache ----------------------------
(***************************************************************************)
(* The write-back block cache of fwup (block_cache.c): the segments the    *)
(* main thread works on, the single asynchronous writer thread, the two    *)
(* condition-variable handshakes between them, and the destination.        *)
(*                                                                         *)
(* Two threads.  "main" runs the block_cache_* calls one at a time;        *)
(* "writer" is writer_worker.  A region between pthread_mutex_lock and     *)
(* pthread_mutex_unlock (or pthread_cond_wait) is one step.  Everything    *)
(* outside the lock that the other thread can observe is a step of its     *)
(* own: each system call, each unlocked look at bad_offset, and each       *)
(* change of a segment.                                                    *)
(*                                                                         *)
(* Data: an offset is a segment number, a segment has a few blocks, and a  *)
(* block holds one Value.  The trim bit vector is the set it represents    *)
(* (module TrimVector is about the bit vector itself).                     *)
(***************************************************************************)
EXTENDS Integers, Sequences, FiniteSets

CONSTANTS
  num_segments,     \* slots of the cache (64 by default, at least 8)
  Segs,             \* segment numbers of the destination
  Block,            \* block numbers inside a segment, 0 .. B-1
  Vals,             \* what callers write
  Zero, Orig, Torn, \* zero fill; content before the update; damaged content
  UsePthreads,      \* the build: USE_PTHREADS or not
  VerifyWrites,     \* verify_writes
  MinimizeWrites,   \* minimize_writes
  HwTrim,           \* hw_trim_enabled
  EndOffset,        \* hard end_offset in blocks, 0 when unknown or soft
  WriteReqs,        \* the block_cache_pwrite calls to try
  ReadReqs,         \* the block_cache_pread calls to try
  TrimReqs,         \* the block_cache_trim calls to try
  MaxOps,           \* bound: calls before block_cache_free
  MaxFaults         \* bound: failures of the destination

Value == Vals \cup {Zero, Orig, Torn}
Slot  == 0 .. num_segments - 1
NULL  == -1
B     == Cardinality(Block)

\* The part of one request that falls into one segment, never an empty one.
Chunk == [seg : Segs, blocks : (SUBSET Block) \ {{}}]

\* How block_cache_pwrite and block_cache_pread break `count' blocks from
\* block address `first' into segment-sized chunks: a misaligned head, then
\* whole segments, then whatever is left.
Chunks(first, count) ==
  LET s0 == first \div B
      s1 == (first + count - 1) \div B
  IN  [i \in 1 .. s1 - s0 + 1 |->
         [seg    |-> s0 + i - 1,
          blocks |-> {b \in Block : /\ first <= (s0 + i - 1) * B + b
                                    /\ (s0 + i - 1) * B + b < first + count}]]

\* The segments block_cache_trim affects: the start rounded up and what is
\* left of the count rounded down to segment boundaries.
TrimSegs(first, count) ==
  {s \in Segs : first <= s * B /\ (s + 1) * B <= first + count}

\* What BLKDISCARD is asked to drop for a trim of `count' blocks from
\* `first'.  mmc_trim fills the range with {offset, offset + count}; the
\* kernel takes the second number as a length, and refuses a range that
\* leaves the device.
DiscardSegs(first, count) ==
  LET T     == TrimSegs(first, count)
      start == CHOOSE s \in T : \A t \in T : s <= t
      len   == start + Cardinality(T)
  IN  IF T = {} \/ start + len > Cardinality(Segs) THEN {}
      ELSE {s \in Segs : start <= s /\ s < start + len}

WriteReq == [first : Nat, count : Nat \ {0}, val : Vals, streamed : BOOLEAN]
ReadReq  == [first : Nat, count : Nat \ {0}]

ASSUME ConstAssumption ==
  /\ num_segments \in Nat \ {0}
  /\ Segs \subseteq Nat /\ Segs # {}
  /\ Block \subseteq Nat /\ Block # {} /\ IsFiniteSet(Block)
  /\ UsePthreads \in BOOLEAN /\ VerifyWrites \in BOOLEAN
  /\ MinimizeWrites \in BOOLEAN /\ HwTrim \in BOOLEAN
  /\ EndOffset \in Nat /\ MaxOps \in Nat /\ MaxFaults \in Nat

\* Requests address the destination: fwup.conf offsets are not negative, and
\* the bounded destination of a run holds all of them.
ASSUME ReqAssumption ==
  /\ WriteReqs \subseteq WriteReq
  /\ ReadReqs \subseteq ReadReq
  /\ TrimReqs \subseteq ReadReq
  /\ \A r \in WriteReqs \cup ReadReqs : /\ Chunks(r.first, r.count) \in Seq(Chunk)
                                       /\ Chunks(r.first, r.count) # <<>>

VARIABLES
  \* struct block_cache
  segments,      \* segments[s]: one struct block_cache_segment per slot
  timestamp,     \* LRU clock
  trimmed,       \* segments whose trim bit is set
  seg_to_write,  \* slot handed to the writer thread, or NULL
  bad_offset,    \* offset of a failed write, or NULL (a negative offset)
  running,       \* cleared to make the writer exit
  cond,          \* threads inside pthread_cond_wait on bc->cond
  \* the main thread
  pc,            \* where the main thread is
  op,            \* the call it is in: name, remaining chunks, value, streamed
  cur,           \* the segment get_segment or the flush loop picked
  ret,           \* who called flush_segment or the segment write
  todo,          \* segments a flush, trim or reset loop still has to visit
  \* the writer thread
  wpc, woff,     \* where it is; its local variable offset
  \* the destination
  disk,          \* disk[off][b]: content of each block
  \* history of a run, read by the properties and by no guard of the code
  ops, faults,   \* used up so far
  logical,       \* what a reader of the cache ought to see
  damaged,       \* segments whose last write since a reset went wrong
  reported,      \* a call returned an error since the last reset
  lastAsync,     \* offset most recently handed to the writer thread
  reused         \* an evicted slot was reused while the writer still had it

cacheVars  == <<segments, timestamp, trimmed>>
asyncVars  == <<seg_to_write, bad_offset, running, cond>>
mainVars   == <<pc, op, cur, ret, todo>>
writerVars == <<wpc, woff>>
destVars   == <<disk, faults, damaged>>
histVars   == <<ops, logical, reported, lastAsync, reused>>
vars == <<cacheVars, asyncVars, mainVars, writerVars, destVars, histVars>>

Segment == [in_use : BOOLEAN, offset : Segs, last_access : Nat, streamed : BOOLEAN,
            data : [Block -> Value], valid : SUBSET Block, dirty : SUBSET Block]
Op == [name : {"none", "pwrite", "pread", "trim", "flush", "reset"}, chunks : Seq(Chunk),
       val : Value, streamed : BOOLEAN, discard : SUBSET Segs]
Call(name, chunks) == [name |-> name, chunks |-> chunks, val |-> Zero,
                       streamed |-> FALSE, discard |-> {}]

MainPc == {"idle", "get", "body", "drop", "flush", "valid",
           "async_check", "async_lock", "recheck",
           "sync_check", "sync_lock", "sync_wait",
           "wr_begin", "wr_pwrite", "wr_verify", "join", "freed"}
WriterPc == {"top", "begin", "pwrite", "verify", "failed", "done", "exited"}

----------------------------------------------------------------------------
(* The destination.                                                        *)

\* calculate_io_size: the blocks of a segment that are on the media, and the
\* case it refuses.  A segment that starts exactly at the end is not refused.
OneTooMany(off) == {b \in Block : EndOffset = 0 \/ off * B + b <= EndOffset}  \* variant
IoBlocks(off) == {b \in Block : EndOffset = 0 \/ off * B + b < EndOffset}
PastEnd(off)  == EndOffset > 0 /\ off * B > EndOffset

\* read_segment: zeros for a trimmed segment, else the media padded with zeros.
ReadSegment(off) ==
  [b \in Block |-> IF off \notin trimmed /\ b \in IoBlocks(off)
                   THEN disk[off][b] ELSE Zero]

\* What the content of slot s makes of segment off on the media.
Written(off, data) ==
  [b \in Block |-> IF b \in IoBlocks(off) THEN data[b] ELSE disk[off][b]]
Damage(off) == Written(off, [b \in Block |-> Torn])
SameOnDisk(off, data) == \A b \in IoBlocks(off) : disk[off][b] = data[b]

\* --minimize-writes: skip a write that would change nothing.
Skips(readable, seg) == readable /\ SameOnDisk(seg.offset, seg.data)

MayFail == faults < MaxFaults

\* The pwrite and pread calls of verified_segment_write; the kernel and the
\* media are outside the repository.  A write succeeds, fails part-way, or
\* claims to succeed and leaves something else behind.  The segment counts as
\* damaged unless what is left behind happens to be what was written.
pwrite_ok(off, data) ==
  /\ disk' = [disk EXCEPT ![off] = Written(off, data)]
  /\ damaged' = damaged \ {off}
  /\ UNCHANGED faults
pwrite_bad(off, data) ==
  /\ MayFail
  /\ faults' = faults + 1
  /\ disk' = [disk EXCEPT ![off] = Damage(off)]
  /\ damaged' = IF \A b \in IoBlocks(off) : data[b] = Torn THEN damaged \ {off}
                ELSE damaged \cup {off}

----------------------------------------------------------------------------
(* Condition variable.  pthread_cond_broadcast wakes every waiter; a waiter *)
(* may also wake up for no reason.                                          *)

broadcast == cond' = {}
Wait(t) == cond' = cond \cup {t}

SpuriousWakeup ==
  /\ \E t \in cond : cond' = cond \ {t}
  /\ UNCHANGED <<cacheVars, seg_to_write, bad_offset, running, mainVars,
                 writerVars, destVars, histVars>>

\* The segment the writer thread owns.
InFlight(s) == seg_to_write = s

\* Whether wait_for_write_completion(s) has to wait.
NeverWaits(s) == FALSE          \* variant: the call is forgotten
wait_for_write_completion(s) == InFlight(s)

----------------------------------------------------------------------------
(* The main thread: starting and ending calls.                             *)

Finish(result) ==
  /\ pc' = "idle"
  /\ reported' = (reported \/ result = "error")

\* Calls are made one at a time, at most MaxOps of them.
Start(o, where) ==
  /\ pc = "idle"
  /\ ops < MaxOps
  /\ ops' = ops + 1
  /\ op' = o
  /\ pc' = where
  /\ UNCHANGED <<segments, timestamp, asyncVars, cur, ret, writerVars, destVars,
                 reported, lastAsync, reused>>

InUse(S) == {s \in S : segments[s].in_use}
WhollyDirty(S) == {s \in InUse(S) : segments[s].dirty = Block}  \* variant: partly dirty is clean
Dirty(S) == {s \in InUse(S) : segments[s].dirty # {}}
Cached(off) == {s \in InUse(Slot) : segments[s].offset = off}
IsMru(s, S) == \A t \in S : segments[s].last_access >= segments[t].last_access  \* variant
IsLru(s, S) == \A t \in S : segments[s].last_access <= segments[t].last_access
Lowest(s, S) == \A t \in S : s <= t

block_cache_pwrite ==
  \E r \in WriteReqs :
    /\ Start([Call("pwrite", Chunks(r.first, r.count))
                EXCEPT !.val = r.val, !.streamed = r.streamed], "get")
    /\ UNCHANGED <<trimmed, todo, logical>>

block_cache_pread ==
  \E r \in ReadReqs :
    /\ Start(Call("pread", Chunks(r.first, r.count)), "get")
    /\ UNCHANGED <<trimmed, todo, logical>>

\* block_cache_trim marks the segments before it waits for any of them; the
\* loop over the cached ones is DropSegment.
block_cache_trim ==
  \E r \in TrimReqs :
    LET T == TrimSegs(r.first, r.count) IN
    /\ Start([Call("trim", <<>>) EXCEPT !.discard = DiscardSegs(r.first, r.count)], "drop")
    /\ trimmed' = trimmed \cup T
    /\ todo' = {s \in InUse(Slot) : segments[s].offset \in T}
    /\ logical' = [off \in Segs |-> IF off \in T THEN [b \in Block |-> Zero]
                                    ELSE logical[off]]

block_cache_reset ==
  /\ Start(Call("reset", <<>>), "drop")
  /\ todo' = InUse(Slot)
  /\ UNCHANGED <<trimmed, logical>>

\* flush_segment returns at once for a clean or unused segment, so only the
\* dirty ones are left to visit.
block_cache_flush ==
  /\ Start(Call("flush", <<>>), "flush")
  /\ todo' = Dirty(Slot)
  /\ UNCHANGED <<trimmed, logical>>

block_cache_free ==
  /\ pc = "idle"
  /\ running' = FALSE
  /\ broadcast
  /\ pc' = "join"
  /\ UNCHANGED <<cacheVars, seg_to_write, bad_offset, op, cur, ret, todo,
                 writerVars, destVars, histVars>>

\* pthread_join, then every segment is discarded.
FreeJoin ==
  /\ pc = "join"
  /\ wpc = "exited"
  /\ segments' = [s \in Slot |-> [segments[s] EXCEPT !.in_use = FALSE]]
  /\ pc' = "freed"
  /\ UNCHANGED <<timestamp, trimmed, asyncVars, op, cur, ret, todo,
                 writerVars, destVars, histVars>>

----------------------------------------------------------------------------
(* get_segment                                                             *)

\* variant: a slot is taken over without clearing the flags of its old content
KeepsFlags(s, off) ==
  [segments[s] EXCEPT !.in_use = TRUE, !.offset = off, !.last_access = timestamp,
                      !.streamed = TRUE]

\* init_segment keeps the data buffer of the slot and clears all its flags.
Initialized(s, off) ==
  [segments[s] EXCEPT !.in_use = TRUE, !.offset = off, !.last_access = timestamp,
                      !.streamed = TRUE, !.valid = {}, !.dirty = {}]

UseSlot(s, seg) ==
  /\ segments' = [segments EXCEPT ![s] = seg]
  /\ timestamp' = timestamp + 1
  /\ cur' = s
  /\ pc' = "body"

Target == Head(op.chunks)

\* A hit: wait_for_write_completion, then touch the segment.
get_segment_hit ==
  /\ pc = "get" /\ "main" \notin cond
  /\ \E s \in Cached(Target.seg) :
       \/ /\ wait_for_write_completion(s)
          /\ Wait("main")
          /\ UNCHANGED <<segments, timestamp, cur, pc>>
       \/ /\ ~wait_for_write_completion(s)
          /\ UseSlot(s, [segments[s] EXCEPT !.last_access = timestamp])
          /\ UNCHANGED cond
  /\ UNCHANGED <<trimmed, seg_to_write, bad_offset, running, op, ret, todo,
                 writerVars, destVars, histVars>>

\* A miss: the first unused slot, or else the least recently used one, which
\* is flushed first when it is dirty and taken at once when it is clean.
get_segment_miss ==
  /\ pc = "get"
  /\ Cached(Target.seg) = {}
  /\ LET free == Slot \ InUse(Slot) IN
     \/ \E s \in free :
          /\ Lowest(s, free)
          /\ UseSlot(s, Initialized(s, Target.seg))
          /\ UNCHANGED <<ret, reused>>
     \/ \E s \in Slot \ Dirty(Slot) :
          /\ free = {} /\ IsLru(s, Slot)
          /\ UseSlot(s, Initialized(s, Target.seg))
          /\ reused' = (reused \/ InFlight(s))
          /\ UNCHANGED ret
     \/ \E s \in Dirty(Slot) :
          /\ free = {} /\ IsLru(s, Slot)
          /\ cur' = s
          /\ ret' = "evict"
          /\ pc' = "valid"
          /\ UNCHANGED <<segments, timestamp, reused>>
  /\ UNCHANGED <<trimmed, asyncVars, op, todo, writerVars, destVars,
                 ops, logical, reported, lastAsync>>

----------------------------------------------------------------------------
(* block_segment_pwrite, block_segment_pread                               *)

\* The end of one iteration of the chunk loops.
NextChunk ==
  /\ op' = [op EXCEPT !.chunks = Tail(op.chunks)]
  /\ IF Len(op.chunks) = 1 THEN Finish("ok")
     ELSE pc' = "get" /\ UNCHANGED reported

Copied(seg) ==
  [seg EXCEPT !.data = [b \in Block |-> IF b \in Target.blocks THEN op.val ELSE seg.data[b]],
              !.valid = @ \cup Target.blocks,
              !.dirty = @ \cup Target.blocks]

\* A segment all of whose blocks were streamed goes out at once.
StreamOut(seg) == op.streamed /\ seg.streamed /\ seg.dirty = Block

block_segment_pwrite ==
  /\ pc = "body" /\ op.name = "pwrite"
  /\ logical' = [logical EXCEPT ![segments[cur].offset] =
                   [b \in Block |-> IF b \in Target.blocks THEN op.val
                                    ELSE logical[segments[cur].offset][b]]]
  /\ LET seg == Copied(segments[cur]) IN
     \/ /\ StreamOut(seg)
        /\ segments' = [segments EXCEPT ![cur] = seg]
        /\ pc' = IF UsePthreads THEN "async_check" ELSE "wr_begin"
        /\ ret' = "stream"
        /\ UNCHANGED <<op, reported>>
     \/ /\ ~StreamOut(seg)
        /\ segments' = [segments EXCEPT ![cur] =
                          [seg EXCEPT !.streamed = @ /\ op.streamed]]
        /\ NextChunk
        /\ UNCHANGED ret
  /\ UNCHANGED <<timestamp, trimmed, asyncVars, cur, todo, writerVars, destVars,
                 ops, lastAsync, reused>>

\* make_segment_valid: read and merge what the segment does not hold yet.
Merged(seg) ==
  LET d == ReadSegment(seg.offset) IN
  [seg EXCEPT !.data = [b \in Block |-> IF b \in seg.valid THEN seg.data[b] ELSE d[b]],
              !.valid = Block]

\* It does nothing when every block is valid; otherwise the read can fail,
\* always when the segment lies past the end of the media.
MakeValidOk(seg)  == seg.valid = Block \/ seg.offset \in trimmed \/ ~PastEnd(seg.offset)
MakeValidBad(seg) == /\ seg.valid # Block /\ seg.offset \notin trimmed
                     /\ \/ PastEnd(seg.offset) /\ UNCHANGED faults
                        \/ MayFail /\ faults' = faults + 1

block_segment_pread ==
  /\ pc = "body" /\ op.name = "pread"
  /\ \/ /\ MakeValidOk(segments[cur])
        /\ segments' = [segments EXCEPT ![cur] = Merged(segments[cur])]
        /\ NextChunk
        /\ UNCHANGED faults
     \/ /\ MakeValidBad(segments[cur])
        /\ Finish("error")
        /\ UNCHANGED <<segments, op>>
  /\ UNCHANGED <<timestamp, trimmed, asyncVars, cur, ret, todo, writerVars, disk,
                 damaged, ops, logical, lastAsync, reused>>

----------------------------------------------------------------------------
(* flush_segment and the loops over segments                               *)

\* block_cache_flush: from the least to the most recently used segment.
FlushNext ==
  /\ pc = "flush"
  /\ \/ /\ todo = {}
        /\ Finish("ok")
        /\ UNCHANGED <<cur, ret, todo>>
     \/ \E s \in todo :
          /\ IsLru(s, todo)
          /\ cur' = s
          /\ ret' = "flush"
          /\ todo' = todo \ {s}
          /\ pc' = "valid"
          /\ UNCHANGED reported
  /\ UNCHANGED <<cacheVars, asyncVars, op, writerVars, destVars,
                 ops, logical, lastAsync, reused>>

\* Leaving do_sync_write and whoever called it.  flush_segment marks the
\* segment clean and not trimmed whatever happened; get_segment then gives
\* the slot away, the flush loop goes on, and block_segment_pwrite (the build
\* without threads) keeps the flags of a segment it failed to write.
SegmentDone(ok) ==
  LET seg == segments[cur]
      clean == [seg EXCEPT !.dirty = {}]
  IN
  \/ /\ ret = "evict" /\ ok
     /\ UseSlot(cur, Initialized(cur, Target.seg))
     /\ trimmed' = trimmed \ {seg.offset}
     /\ UNCHANGED <<op, reported>>
  \/ /\ ret = "flush" /\ ok
     /\ segments' = [segments EXCEPT ![cur] = clean]
     /\ trimmed' = trimmed \ {seg.offset}
     /\ pc' = "flush"
     /\ UNCHANGED <<timestamp, op, cur, reported>>
  \/ /\ ret \in {"evict", "flush"} /\ ~ok
     /\ segments' = [segments EXCEPT ![cur] = clean]
     /\ trimmed' = trimmed \ {seg.offset}
     /\ Finish("error")
     /\ UNCHANGED <<timestamp, op, cur>>
  \/ /\ ret = "stream" /\ ok
     /\ segments' = [segments EXCEPT ![cur] = [clean EXCEPT !.valid = Block]]
     /\ trimmed' = trimmed \ {seg.offset}
     /\ NextChunk
     /\ UNCHANGED <<timestamp, cur>>
  \/ /\ ret = "stream" /\ ~ok
     /\ Finish("error")
     /\ UNCHANGED <<segments, trimmed, timestamp, op, cur>>

\* flush_segment of a dirty segment begins with make_segment_valid.
flush_segment ==
  /\ pc = "valid"
  /\ \/ /\ MakeValidOk(segments[cur])
        /\ segments' = [segments EXCEPT ![cur] = Merged(segments[cur])]
        /\ pc' = IF UsePthreads THEN "sync_check" ELSE "wr_begin"
        /\ UNCHANGED <<timestamp, trimmed, op, cur, faults, reported>>
     \/ /\ MakeValidBad(segments[cur])
        /\ SegmentDone(FALSE)
  /\ UNCHANGED <<asyncVars, ret, todo, writerVars, disk, damaged,
                 ops, logical, lastAsync, reused>>

\* The loops of block_cache_trim and block_cache_reset: wait until the writer
\* is done with the segment, then give it back.
DropSegment ==
  /\ pc = "drop" /\ "main" \notin cond
  /\ \E s \in todo :
       /\ Lowest(s, todo)
       /\ \/ /\ wait_for_write_completion(s)
             /\ Wait("main")
             /\ UNCHANGED <<segments, todo>>
          \/ /\ ~wait_for_write_completion(s)
             /\ segments' = [segments EXCEPT ![s].in_use = FALSE]
             /\ todo' = todo \ {s}
             /\ UNCHANGED cond
  /\ UNCHANGED <<timestamp, trimmed, seg_to_write, bad_offset, running, pc, op, cur,
                 ret, writerVars, destVars, histVars>>

\* After the loop, block_cache_trim issues the hardware trim.
TrimDone ==
  /\ pc = "drop" /\ op.name = "trim" /\ todo = {}
  /\ disk' = [off \in Segs |-> IF HwTrim /\ off \in op.discard
                               THEN [b \in Block |-> Zero] ELSE disk[off]]
  /\ Finish("ok")
  /\ UNCHANGED <<cacheVars, asyncVars, op, cur, ret, todo, writerVars, faults, damaged,
                 ops, logical, lastAsync, reused>>

\* After the loop, block_cache_reset forgets a failed write: what readers see
\* from now on is what is on the media.
ResetDone ==
  /\ pc = "drop" /\ op.name = "reset" /\ todo = {}
  /\ bad_offset' = NULL
  /\ pc' = "idle"
  /\ reported' = FALSE
  /\ damaged' = {}
  /\ logical' = [off \in Segs |-> ReadSegment(off)]
  /\ UNCHANGED <<cacheVars, seg_to_write, running, cond, op, cur, ret, todo,
                 writerVars, disk, faults, ops, lastAsync, reused>>

----------------------------------------------------------------------------
(* do_async_write                                                          *)

Errored == bad_offset # NULL

\* check_async_error before starting
async_check ==
  /\ pc = "async_check"
  /\ \/ Errored /\ Finish("error")
     \/ ~Errored /\ pc' = "async_lock" /\ UNCHANGED reported
  /\ UNCHANGED <<cacheVars, asyncVars, op, cur, ret, todo, writerVars, destVars,
                 ops, logical, lastAsync, reused>>

\* Wait for the previous segment, hand over this one.
async_lock ==
  /\ pc = "async_lock" /\ "main" \notin cond
  /\ \/ /\ seg_to_write # NULL
        /\ Wait("main")
        /\ UNCHANGED <<seg_to_write, pc, lastAsync>>
     \/ /\ seg_to_write = NULL
        /\ seg_to_write' = cur
        /\ broadcast
        /\ lastAsync' = segments[cur].offset
        /\ pc' = "recheck"
  /\ UNCHANGED <<cacheVars, bad_offset, running, op, cur, ret, todo, writerVars,
                 destVars, ops, logical, reported, reused>>

\* check_async_error after a hand-over (best effort), and after waiting for a
\* segment that was already on its way.
NoRecheck ==                    \* variant: the second check is left out
  /\ pc = "recheck"
  /\ SegmentDone(TRUE)
  /\ UNCHANGED <<asyncVars, ret, todo, writerVars, destVars,
                 ops, logical, lastAsync, reused>>
check_async_error ==
  /\ pc = "recheck"
  /\ SegmentDone(~Errored)
  /\ UNCHANGED <<asyncVars, ret, todo, writerVars, destVars,
                 ops, logical, lastAsync, reused>>

----------------------------------------------------------------------------
(* do_sync_write                                                           *)

sync_check ==
  /\ pc = "sync_check"
  /\ \/ Errored /\ SegmentDone(FALSE)
     \/ /\ ~Errored
        /\ pc' = "sync_lock"
        /\ UNCHANGED <<cacheVars, op, cur, reported>>
  /\ UNCHANGED <<asyncVars, ret, todo, writerVars, destVars,
                 ops, logical, lastAsync, reused>>

\* Either this very segment is already on its way, or write it from here.
sync_lock ==
  /\ pc = "sync_lock"
  /\ pc' = IF InFlight(cur) THEN "sync_wait" ELSE "wr_begin"
  /\ UNCHANGED <<cacheVars, asyncVars, op, cur, ret, todo, writerVars, destVars, histVars>>

sync_wait ==
  /\ pc = "sync_wait" /\ "main" \notin cond
  /\ \/ InFlight(cur) /\ Wait("main") /\ UNCHANGED pc
     \/ ~InFlight(cur) /\ pc' = "recheck" /\ UNCHANGED cond
  /\ UNCHANGED <<cacheVars, seg_to_write, bad_offset, running, op, cur, ret, todo,
                 writerVars, destVars, histVars>>

\* A failed synchronous write is remembered like an asynchronous one, in the
\* build with threads.
SyncFailed ==
  /\ bad_offset' = IF UsePthreads THEN segments[cur].offset ELSE bad_offset
  /\ SegmentDone(FALSE)
  /\ UNCHANGED <<seg_to_write, running, cond>>

----------------------------------------------------------------------------
(* verified_segment_write, called by the main thread                       *)

\* calculate_io_size, then the comparison of --minimize-writes
wr_begin ==
  /\ pc = "wr_begin"
  /\ LET seg == segments[cur]
         skip == Skips(MinimizeWrites, seg)
     IN
     \/ PastEnd(seg.offset) /\ SyncFailed
     \/ /\ ~PastEnd(seg.offset) /\ skip
        /\ SegmentDone(TRUE)
        /\ UNCHANGED asyncVars
     \/ /\ ~PastEnd(seg.offset) /\ ~skip
        /\ pc' = "wr_pwrite"
        /\ UNCHANGED <<cacheVars, asyncVars, op, cur, reported>>
  /\ UNCHANGED <<ret, todo, writerVars, destVars, ops, logical, lastAsync, reused>>

NotVerified == SegmentDone(TRUE)   \* variant: the result is not read back
AfterPwrite ==
  IF VerifyWrites THEN pc' = "wr_verify" /\ UNCHANGED <<cacheVars, op, cur, reported>>
  ELSE SegmentDone(TRUE)

wr_pwrite ==
  /\ pc = "wr_pwrite"
  /\ LET seg == segments[cur] IN
     \/ pwrite_ok(seg.offset, seg.data) /\ AfterPwrite /\ UNCHANGED asyncVars
     \/ pwrite_bad(seg.offset, seg.data) /\ AfterPwrite /\ UNCHANGED asyncVars
     \/ pwrite_bad(seg.offset, seg.data) /\ SyncFailed
  /\ UNCHANGED <<ret, todo, writerVars, ops, logical, lastAsync, reused>>

\* Reading back can fail by itself, or show that the write went wrong.
wr_verify ==
  /\ pc = "wr_verify"
  /\ LET seg == segments[cur]
         same == SameOnDisk(seg.offset, seg.data)
     IN
     \/ same /\ SegmentDone(TRUE) /\ UNCHANGED <<asyncVars, faults>>
     \/ ~same /\ SyncFailed /\ UNCHANGED faults
     \/ same /\ MayFail /\ faults' = faults + 1 /\ SyncFailed
  /\ UNCHANGED <<ret, todo, writerVars, disk, damaged, ops, logical, lastAsync, reused>>

----------------------------------------------------------------------------
(* writer_worker                                                           *)

WriterUnchanged == UNCHANGED <<cacheVars, mainVars, histVars>>

\* The loop from the lock up to the next unlock or wait.  A pending segment
\* is started, or skipped when a write has failed before; the thread exits
\* only after that.
ExitOrWait ==
  IF running THEN wpc' = "top" /\ cond' = {"writer"}
  ELSE wpc' = "exited" /\ broadcast

\* After an error the pending segment is dropped so that nobody waits for it.
StaysPending ==                 \* variant: the segment stays pending
  /\ Wait("writer")
  /\ UNCHANGED <<seg_to_write, wpc>>
SkipAfterError ==
  /\ seg_to_write' = NULL
  /\ ExitOrWait

WorkWhileRunning == seg_to_write # NULL /\ running   \* variant: exits with work pending
HasWork == seg_to_write # NULL

writer_top ==
  /\ wpc = "top" /\ "writer" \notin cond
  /\ \/ /\ HasWork /\ ~Errored
        /\ wpc' = "begin"
        /\ UNCHANGED <<seg_to_write, cond>>
     \/ HasWork /\ Errored /\ SkipAfterError
     \/ /\ ~HasWork
        /\ \/ running /\ Wait("writer") /\ UNCHANGED wpc
           \/ ~running /\ wpc' = "exited" /\ UNCHANGED cond
        /\ UNCHANGED seg_to_write
  /\ UNCHANGED <<bad_offset, running, woff, destVars>>
  /\ WriterUnchanged

\* Outside the lock: the start of verified_segment_write.  thread_verify_temp
\* exists only when writes are verified; the pread of --minimize-writes into a
\* null buffer fails and the comparison is skipped.
writer_begin ==
  /\ wpc = "begin"
  /\ LET seg == segments[seg_to_write]
         skip == Skips(MinimizeWrites /\ VerifyWrites, seg)
     IN
     /\ woff' = seg.offset
     /\ wpc' = IF PastEnd(seg.offset) THEN "failed"
               ELSE IF skip THEN "done" ELSE "pwrite"
  /\ UNCHANGED <<asyncVars, destVars>>
  /\ WriterUnchanged

AfterWriterPwrite == wpc' = IF VerifyWrites THEN "verify" ELSE "done"

writer_pwrite ==
  /\ wpc = "pwrite"
  /\ \/ pwrite_ok(woff, segments[seg_to_write].data) /\ AfterWriterPwrite
     \/ pwrite_bad(woff, segments[seg_to_write].data) /\ AfterWriterPwrite
     \/ pwrite_bad(woff, segments[seg_to_write].data) /\ wpc' = "failed"
  /\ UNCHANGED <<asyncVars, woff>>
  /\ WriterUnchanged

writer_verify ==
  /\ wpc = "verify"
  /\ LET same == SameOnDisk(woff, segments[seg_to_write].data) IN
     \/ same /\ wpc' = "done" /\ UNCHANGED faults
     \/ ~same /\ wpc' = "failed" /\ UNCHANGED faults
     \/ same /\ MayFail /\ faults' = faults + 1 /\ wpc' = "failed"
  /\ UNCHANGED <<asyncVars, woff, disk, damaged>>
  /\ WriterUnchanged

WrongOffset ==                  \* variant: the clock of the segment, not its offset
  /\ wpc = "failed"
  /\ bad_offset' = Cardinality(Segs) + segments[seg_to_write].last_access
  /\ wpc' = "done"
  /\ UNCHANGED <<seg_to_write, running, cond, woff, destVars>>
  /\ WriterUnchanged

\* bad_offset is set before the lock is taken again.
writer_failed ==
  /\ wpc = "failed"
  /\ bad_offset' = segments[seg_to_write].offset
  /\ wpc' = "done"
  /\ UNCHANGED <<seg_to_write, running, cond, woff, destVars>>
  /\ WriterUnchanged

writer_done ==
  /\ wpc = "done"
  /\ seg_to_write' = NULL
  /\ ExitOrWait
  /\ UNCHANGED <<bad_offset, running, woff, destVars>>
  /\ WriterUnchanged

----------------------------------------------------------------------------
\* block_cache_init.  Everything past a hard end counts as trimmed.  A fresh
\* slot's buffer holds whatever malloc returned.
Init ==
  /\ segments = [s \in Slot |->
       [in_use |-> FALSE, offset |-> CHOOSE o \in Segs : TRUE, last_access |-> 0,
        streamed |-> FALSE, data |-> [b \in Block |-> Torn], valid |-> {}, dirty |-> {}]]
  /\ timestamp = 0
  /\ trimmed = {s \in Segs : EndOffset > 0 /\ s * B >= EndOffset}
  /\ seg_to_write = NULL /\ bad_offset = NULL
  /\ running = UsePthreads
  /\ cond = {}
  /\ pc = "idle" /\ op = Call("none", <<>>) /\ cur = 0 /\ ret = "none"
  /\ todo = {}
  /\ wpc = IF UsePthreads THEN "top" ELSE "exited"
  /\ woff = CHOOSE o \in Segs : TRUE
  /\ disk = [o \in Segs |-> [b \in Block |-> Orig]]
  /\ ops = 0 /\ faults = 0
  /\ logical = [o \in Segs |-> ReadSegment(o)]
  /\ damaged = {} /\ reported = FALSE /\ lastAsync = NULL /\ reused = FALSE

StartCall == \/ block_cache_pwrite \/ block_cache_pread \/ block_cache_trim
             \/ block_cache_reset \/ block_cache_flush \/ block_cache_free

MainStep ==
  \/ get_segment_hit \/ get_segment_miss
  \/ block_segment_pwrite \/ block_segment_pread
  \/ FlushNext \/ flush_segment \/ DropSegment \/ TrimDone \/ ResetDone \/ FreeJoin
  \/ async_check \/ async_lock \/ check_async_error
  \/ sync_check \/ sync_lock \/ sync_wait
  \/ wr_begin \/ wr_pwrite \/ wr_verify

WriterStep ==
  \/ writer_top \/ writer_begin \/ writer_pwrite \/ writer_verify
  \/ writer_failed \/ writer_done

Freed == pc = "freed" /\ UNCHANGED vars

Next == StartCall \/ MainStep \/ WriterStep \/ SpuriousWakeup \/ Freed

\* Both threads are scheduled; the caller is free to stop calling.
Spec == Init /\ [][Next]_vars
FairSpec == Spec /\ WF_vars(MainStep) /\ WF_vars(WriterStep)

============================================================================
