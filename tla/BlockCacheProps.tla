-------------------------- MODULE BlockCacheProps --------------------------
(***************************************************************************)
(* What fwup relies on the block cache for, stated over module BlockCache: *)
(* readers see the last write, a successful flush means the data is on the *)
(* media, failures are reported, writes land in order, the two threads do  *)
(* not touch the same segment, and every call returns.                     *)
(***************************************************************************)
EXTENDS BlockCache

CacheTypes  == /\ segments \in [Slot -> Segment]
               /\ timestamp \in Nat
               /\ trimmed \subseteq Segs
AsyncTypes  == /\ seg_to_write \in Slot \cup {NULL}
               /\ bad_offset \in Segs \cup {NULL}
               /\ running \in BOOLEAN
               /\ cond \subseteq {"main", "writer"}
MainTypes   == /\ pc \in MainPc
               /\ op \in Op
               /\ cur \in Slot
               /\ ret \in {"none", "evict", "flush", "stream"}
               /\ todo \subseteq Slot
WriterTypes == wpc \in WriterPc /\ woff \in Segs
DestTypes   == /\ disk \in [Segs -> [Block -> Value]]
               /\ faults \in Nat
               /\ damaged \subseteq Segs
HistTypes   == /\ ops \in Nat
               /\ logical \in [Segs -> [Block -> Value]]
               /\ reported \in BOOLEAN
               /\ lastAsync \in Segs \cup {NULL}
               /\ reused \in BOOLEAN

\* The range of every variable of the cache, the two threads, the media and
\* the history.
TypeOK == CacheTypes /\ AsyncTypes /\ MainTypes /\ WriterTypes /\ DestTypes /\ HistTypes

----------------------------------------------------------------------------
(* The inductive invariant behind the proofs                               *)

\* Where the main thread is inside flush_segment or a segment write, and
\* where it is on its way to hand a segment over.
SegPcs   == {"valid", "sync_check", "sync_lock", "sync_wait", "recheck",
             "wr_begin", "wr_pwrite", "wr_verify"}
AsyncPcs == {"async_check", "async_lock"}

\* A chunk is left wherever the code looks at the next one, and the writer
\* thread has a segment wherever it uses it.
ChunkLeft ==
  /\ pc \in {"get", "body"} \cup AsyncPcs => op.chunks # <<>>
  /\ pc \in SegPcs /\ ret \in {"evict", "stream"} => op.chunks # <<>>
  /\ pc \in SegPcs => ret # "none"
  /\ pc \in AsyncPcs => ret = "stream"
WriterHasSegment ==
  wpc \in {"begin", "pwrite", "verify", "failed", "done"} => seg_to_write # NULL

\* The writer's segment is in use and, unless a slot was reused, completely
\* valid, so that no later read can be merged into it.
WriterSegment == seg_to_write # NULL =>
  /\ segments[seg_to_write].in_use
  /\ segments[seg_to_write].valid = Block \/ reused
DirtyIsValid == \A s \in Slot : segments[s].dirty \subseteq segments[s].valid

\* The segment the main thread works on, and those a flush still has to visit,
\* are in use; past every wait the current one is not the writer's; and only a
\* complete one is handed over.
CurInUse ==
  /\ pc \in {"body"} \cup AsyncPcs \cup SegPcs => segments[cur].in_use
  /\ pc \in {"flush"} \cup SegPcs /\ (pc = "flush" \/ ret = "flush") =>
       \A s \in todo : segments[s].in_use
Elsewhere ==
  (\/ pc \in {"body", "wr_begin", "wr_pwrite", "wr_verify"} \cup AsyncPcs
   \/ pc = "recheck" /\ ret # "stream") => (seg_to_write # cur \/ reused)
HandsOverComplete == pc \in AsyncPcs => segments[cur].valid = Block

\* Without threads nothing is ever handed over.  The writer exits only when
\* nothing more can be handed to it, and free returns only after that.
NoThreads == ~UsePthreads => seg_to_write = NULL /\ pc \notin AsyncPcs
WriterExit ==
  /\ UsePthreads /\ ~running => pc \in {"join", "freed"}
  /\ wpc = "exited" => ~running /\ seg_to_write = NULL
  /\ pc = "freed" => wpc = "exited"

\* Who may use which segment, and when.
Handoff == /\ WriterSegment /\ DirtyIsValid /\ CurInUse /\ Elsewhere
           /\ HandsOverComplete /\ NoThreads /\ WriterExit

\* The inductive invariant: types and the hand-off between the threads.
IInv == TypeOK /\ ChunkLeft /\ WriterHasSegment /\ Handoff

----------------------------------------------------------------------------
(* Reading and writing                                                     *)

\* What block_cache_pread would return for segment off now.
View(off) ==
  [x \in Block |->
     IF \E s \in Cached(off) : x \in segments[s].valid
     THEN segments[CHOOSE s \in Cached(off) : TRUE].data[x]
     ELSE ReadSegment(off)[x]]

\* Between calls a reader gets the last thing written to (or trimmed from)
\* every block on the media, whether it is cached, in the writer thread's
\* hands or already written back, as long as no call has failed.  Excused are
\* a segment the media has damaged and a run in which get_segment has reused
\* a slot that was still being written (see DurableEvenIfReused).
Coherent ==
  (pc = "idle" /\ ~reported /\ ~reused) =>
     \A off \in Segs \ damaged : \A x \in IoBlocks(off) : View(off)[x] = logical[off][x]

\* The last call before block_cache_free was a block_cache_flush, and no call
\* returned an error: fwup_apply reports success.
Success == pc = "freed" /\ op.name = "flush" /\ ~reported

\* On success everything written and not trimmed is on the media, the segment
\* that was in the writer thread's hands during the flush included.
Durable ==
  (Success /\ ~reused) =>
     \A off \in Segs \ (damaged \cup trimmed) :
        \A x \in IoBlocks(off) : disk[off][x] = logical[off][x]

\* The same without the excuse for a reused slot.
DurableEvenIfReused ==
  Success => \A off \in Segs \ (damaged \cup trimmed) :
                \A x \in IoBlocks(off) : disk[off][x] = logical[off][x]

\* The blocks past a hard end_offset are never written, whatever segment
\* straddles the end (calculate_io_size).
PastEndUntouched ==
  EndOffset > 0 =>
     \A off \in Segs : \A x \in Block : off * B + x >= EndOffset => disk[off][x] = Orig

\* A trim changes nothing on the media outside the trimmed segments, also when
\* it is passed on to the device (mmc_trim).  This does not hold: the
\* range that mmc_trim passes on is too long (README.md, section 6).
TrimOnlyRange ==
  [][(pc = "drop" /\ op.name = "trim" /\ pc' = "idle") =>
        \A off \in Segs \ trimmed : disk'[off] = disk[off]]_vars

----------------------------------------------------------------------------
(* Errors                                                                  *)

\* A failed write nobody has been told of is that of the segment handed to
\* the writer thread last: do_async_write's second check and do_sync_write's
\* first one leave no other window.  Excused is a reused slot, because the writer
\* takes the offset it reports from the slot and not from its own copy.
OnlyLastAsyncUnreported ==
  (pc \in {"idle", "freed"} /\ ~reported /\ ~reused /\ Errored) => bad_offset = lastAsync

\* On success no write has failed, and nobody wrote to a segment that starts
\* behind the end of the media.  A segment that starts exactly at the end is not
\* covered: calculate_io_size lets it through with a length of zero.
NoErrorLost ==
  Success => /\ damaged = {} /\ ~Errored
             /\ \A off \in Segs : (EndOffset > 0 /\ off * B > EndOffset) =>
                  \A x \in Block : logical[off][x] = Zero

\* After block_cache_reset the writer is idle and its failure forgotten, so
\* the on-error handler starts from a quiet cache: no write of the failed
\* task can land, or fail, under it.
ResetQuiesces ==
  (pc = "idle" /\ op.name = "reset") => seg_to_write = NULL /\ ~Errored

\* block_cache_free lets the writer finish what it was given.
FreeDrains == pc = "freed" => seg_to_write = NULL

----------------------------------------------------------------------------
(* The two threads                                                         *)

Untouched(s) ==
  /\ segments'[s].data = segments[s].data
  /\ segments'[s].offset = segments[s].offset
  /\ segments'[s].in_use

\* While the writer thread has a segment, the main thread neither writes into
\* it nor moves it to another offset nor gives it up.  There is one hole:
\* get_segment takes a clean least recently used slot without asking whether it
\* is still being written.
UntouchedUnlessReused ==
  [][\A s \in Slot : (seg_to_write = s /\ seg_to_write' = s) => (Untouched(s) \/ reused')]_vars

\* When the flush loop is about to write a segment, every cached segment that
\* was used before it is already on the media, but for the one the writer
\* thread may still have.
FlushOrder ==
  (pc = "wr_pwrite" /\ ret = "flush" /\ ~reported /\ ~reused) =>
     \A t \in InUse(Slot) :
        segments[t].last_access < segments[cur].last_access =>
           \/ segments[t].offset \in trimmed \cup damaged
           \/ SameOnDisk(segments[t].offset, segments[t].data)
           \/ InFlight(t)

\* Every call returns, also after a failed write and while both threads use
\* the same condition variable (CHANGELOG v1.13.1 fixed a hang here), and
\* every segment handed to the writer thread is taken off its hands.
CallsReturn == /\ pc \notin {"idle", "freed"} ~> pc \in {"idle", "freed"}
               /\ seg_to_write # NULL ~> seg_to_write = NULL

============================================================================
