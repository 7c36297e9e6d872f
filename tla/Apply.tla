------------------------------- MODULE Apply -------------------------------
(***************************************************************************)
(* Applying a firmware update (fwup_apply.c): one task is chosen, its      *)
(* on-init, on-resource and on-finish events run in this order, on-error   *)
(* runs after a failure, and what the handlers wrote is flushed to the     *)
(* destination.                                                            *)
(*                                                                         *)
(* A handler is a list of functions, each of which uses one block or one   *)
(* 128 KB segment of the destination.  What a block holds is named by the  *)
(* event that wrote it.  Of the block cache this module keeps which blocks *)
(* are dirty, when each segment was used, the one in the writer thread's   *)
(* hands and whether a write has failed; module BlockCache is about the    *)
(* cache itself.  A power failure can happen in every state: what it       *)
(* leaves is media, so an invariant of media is a promise for every such   *)
(* moment.                                                                 *)
(***************************************************************************)
EXTENDS Integers, Sequences, FiniteSets

CONSTANTS
  Segs,         \* segments of the destination the functions use
  Blocks,       \* blocks of these segments
  SegOf,        \* SegOf[b]: the segment that block b lies in
  Resources,    \* names of file-resources
  None,         \* nothing there
  TaskLists,    \* configurations to try: the tasks of fwup.conf, in order
  Archives,     \* archives to try: their entries after meta.conf, in order
  Builds,       \* builds to try: with (TRUE) or without the writer thread
  FaultKinds,   \* what the destination may refuse: "write", "read"
  MaxFaults     \* bound: failures of the destination

Event == {"on-init", "on-resource", "on-finish", "on-error"}
Value == Event \cup {"old", "torn"}

\* What a function of functions.c does to the destination.  "stream" fills the
\* segment of its block with streamed data (raw_write, and raw_memset, which
\* every event allows); "write" changes one block (mbr_write, gpt_write,
\* uboot_*, a small raw_memset, the fat_* functions, which sync FatFs before
\* they return); "read" only reads (uboot_recover of a good environment, the
\* source of a fat_cp); "full" is a fat_write that stops half-way and leaves a
\* sector in FatFs; "error" fails and touches nothing (error(), a wrong hash or
\* length).
Fun  == [op : {"stream", "write", "read", "full", "error"}, block : Blocks]

\* A task: does its name have the prefix asked for, are its requirements met,
\* is each of its resources described in meta.conf, and its handlers.
IsTask(t) ==
  /\ DOMAIN t = {"matches", "applicable", "described", "init", "resources", "finish", "error"}
  /\ {t.matches, t.applicable, t.described} \subseteq BOOLEAN
  /\ {t.init, t.finish, t.error} \subseteq Seq(Fun)
  /\ DOMAIN t.resources \subseteq Resources
  /\ \A r \in DOMAIN t.resources : t.resources[r] \in Seq(Fun)

\* An entry of the archive: the resource it holds, and whether its size and
\* sparse map agree with meta.conf ("misfit" if not).  The path of a malformed
\* one is not that of a resource.
Entry == [name : Resources, state : {"usable", "misfit", "malformed"}]

ASSUME ApplyAssumption ==
  /\ Builds \subseteq BOOLEAN
  /\ FaultKinds \subseteq {"write", "read"} /\ MaxFaults \in Nat
  /\ \A l \in TaskLists : \A i \in DOMAIN l : IsTask(l[i])
  /\ \A a \in Archives : a \in Seq(Entry)
  /\ IsFiniteSet(Resources)
  /\ SegOf \in [Blocks -> Segs]
  /\ None \notin Value \cup Resources
                    \cup [seg : Segs, val : Event] \cup [block : Blocks, val : Event]

VARIABLES
  threads,       \* the build: USE_PTHREADS or not
  pc,            \* where fwup_apply and run_task are
  task, funs,    \* the task; the functions left of the current handler
  archive,       \* entries not yet read
  current,       \* the resource whose handler runs
  processed,     \* resources whose handler has succeeded
  rc,            \* "ok" or "error"
  complete,      \* progress_report_complete was called
  \* struct fwup_progress
  total_units, current_units,
  \* FatFs and the block cache
  fat,           \* [block, val] that FatFs has not written to the cache yet, or None
  dirty,         \* dirty[b]: what waits to be written to b, or None
  last_access, timestamp,
  flying,        \* [seg, val] in the writer thread's hands, or None
  bad_offset,    \* a write has failed (a non-negative bad_offset)
  \* the destination
  media, faults,
  \* history
  want,          \* what the handlers wrote, as they see it
  resetAt        \* faults when the error handler started, or -1
evVars    == <<task, funs, archive, current, processed>>
progVars  == <<complete, total_units, current_units>>
cacheVars == <<fat, dirty, last_access, timestamp>>
asyncVars == <<flying, bad_offset>>
destVars  == <<media, faults>>
vars == <<threads, pc, rc, evVars, progVars, cacheVars, asyncVars, destVars, want, resetAt>>

----------------------------------------------------------------------------
(* The block cache and FatFs, as the handlers use them                     *)

MayFail(kind) == kind \in FaultKinds /\ faults < MaxFaults

\* m with all of segment s set to v.
Fill(m, s, v) == [b \in Blocks |-> IF SegOf[b] = s THEN v ELSE m[b]]

\* The segment the writer thread has; get_segment waits for it.
InFlight(s) == flying # None /\ flying.seg = s

\* get_segment marks a segment as used now, whether it is read or written.
Use(s) == /\ last_access' = [last_access EXCEPT ![s] = timestamp]
          /\ timestamp' = timestamp + 1

IsDirty(s) == \E b \in Blocks : SegOf[b] = s /\ dirty[b] # None
Dirty == {s \in Segs : IsDirty(s)}
AnyOrder(s) == TRUE             \* variant: the segments are not sorted
LeastRecent(s) == \A t \in Dirty : last_access[s] <= last_access[t]

\* A segment that is dirty in all of its blocks is not read before it is used.
MustRead(s) == \E b \in Blocks : SegOf[b] = s /\ dirty[b] = None

\* flush_segment of segment s of a flush or an eviction, with its outcome: the
\* blocks that are not dirty are written as they were read.  A segment that
\* could not be written is clean afterwards all the same.  A failed write sets
\* bad_offset, with threads; a failed read does not.
FlushOk(s) ==
  /\ ~bad_offset
  /\ media' = [b \in Blocks |-> IF SegOf[b] = s /\ dirty[b] # None THEN dirty[b] ELSE media[b]]
  /\ dirty' = Fill(dirty, s, None)
  /\ UNCHANGED <<bad_offset, faults>>
FlushBad(s) ==
  /\ dirty' = Fill(dirty, s, None)
  /\ \/ bad_offset /\ UNCHANGED <<media, bad_offset, faults>>
     \/ /\ ~bad_offset /\ MayFail("write")
        /\ media' = Fill(media, s, "torn")
        /\ bad_offset' = threads
        /\ faults' = faults + 1
     \/ /\ ~bad_offset /\ MayFail("read") /\ MustRead(s)
        /\ faults' = faults + 1
        /\ UNCHANGED <<media, bad_offset>>

\* block_cache_reset waits for the writer thread, drops every segment and
\* forgets a failed write.
KeepsError ==                   \* variant: the failed write is remembered
  /\ flying = None
  /\ dirty' = [b \in Blocks |-> None]
  /\ want' = media
  /\ UNCHANGED <<fat, last_access, timestamp, flying, bad_offset>>
block_cache_reset ==
  /\ flying = None
  /\ bad_offset' = FALSE
  /\ dirty' = [b \in Blocks |-> None]
  /\ want' = media
  /\ UNCHANGED <<fat, last_access, timestamp, flying>>

\* variant: after an error the segment stays pending
StaysPending ==
  /\ flying # None /\ ~bad_offset
  /\ \/ /\ media' = Fill(media, flying.seg, flying.val)
        /\ flying' = None
        /\ UNCHANGED <<faults, bad_offset>>
     \/ /\ MayFail("write")
        /\ bad_offset' = TRUE
        /\ faults' = faults + 1
        /\ UNCHANGED <<media, flying>>
  /\ UNCHANGED <<pc, rc, evVars, progVars, cacheVars, want, resetAt, threads>>

\* The writer thread finishes a segment, or drops it after an earlier error.
writer_worker ==
  /\ flying # None
  /\ flying' = None
  /\ \/ bad_offset /\ UNCHANGED <<media, faults, bad_offset>>
     \/ /\ ~bad_offset
        /\ media' = Fill(media, flying.seg, flying.val)
        /\ UNCHANGED <<faults, bad_offset>>
     \/ /\ ~bad_offset /\ MayFail("write")
        /\ media' = Fill(media, flying.seg, "torn")
        /\ bad_offset' = TRUE
        /\ faults' = faults + 1
  /\ UNCHANGED <<pc, rc, evVars, progVars, cacheVars, want, resetAt, threads>>

----------------------------------------------------------------------------
(* Starting                                                                *)

\* find_task: the first task that matches and is applicable.
find_task(l) ==
  {i \in 1 .. Len(l) : /\ l[i].matches /\ l[i].applicable
                       /\ \A j \in 1 .. i - 1 : ~(l[j].matches /\ l[j].applicable)}

\* compute_progress counts on-init, on-resource and on-finish.  One unit
\* stands for what a function reports when it is done.
Counted(fs) == {i \in DOMAIN fs : fs[i].op # "error"}
Handled(t) == DOMAIN t.resources
compute_progress(t) ==
  Cardinality(Counted(t.init)) + Cardinality(Counted(t.finish)) +
  Cardinality(UNION {{r} \X Counted(t.resources[r]) : r \in Handled(t)})

\* fwup_apply up to run_task.  Nothing exists to be flushed when the archive
\* or its meta.conf cannot be used; no handler runs when no task is found or
\* compute_progress fails; a resource without metadata is an error of the task.
fwup_apply ==
  /\ pc = "start"
  /\ \/ /\ rc' = "error" /\ pc' = "done"
        /\ UNCHANGED <<task, funs, archive, total_units>>
     \/ \E l \in TaskLists :
          /\ find_task(l) = {}
          /\ rc' = "error" /\ pc' = "cleanup"
          /\ UNCHANGED <<task, funs, archive, total_units>>
     \/ \E l \in TaskLists, a \in Archives : \E i \in find_task(l) :
          /\ task' = l[i]
          /\ archive' = a
          /\ total_units' = compute_progress(l[i])
          /\ \/ l[i].described /\ pc' = "on-init" /\ funs' = l[i].init /\ UNCHANGED rc
             \/ ~l[i].described /\ pc' = "failed" /\ rc' = "error" /\ UNCHANGED funs
             \/ pc' = "cleanup" /\ rc' = "error" /\ UNCHANGED funs
  /\ UNCHANGED <<current, processed, complete, current_units, cacheVars,
                 asyncVars, destVars, want, resetAt, threads>>

----------------------------------------------------------------------------
(* run_task: handlers                                                      *)

InEvent == pc \in Event /\ funs # <<>>
f == Head(funs)
seg == SegOf[f.block]

progress_report ==
  current_units' = IF current_units + 1 > total_units THEN total_units
                   ELSE current_units + 1

\* A function fails: the rest of the handler is skipped.  A failing on-error
\* handler throws its own writes away too.
EventFails ==
  /\ rc' = "error"
  /\ pc' = IF pc = "on-error" THEN "failed_again" ELSE "failed"
  /\ funs' = <<>>
  /\ UNCHANGED <<task, archive, current, processed, progVars, resetAt, threads>>

FunDone ==
  /\ funs' = Tail(funs)
  /\ progress_report
  /\ UNCHANGED <<pc, rc, task, archive, current, processed, complete, total_units, resetAt, threads>>

\* block_cache_pwrite of a part of a segment
write_run ==
  /\ InEvent /\ f.op = "write"
  /\ ~InFlight(seg)
  /\ dirty' = [dirty EXCEPT ![f.block] = pc]
  /\ Use(seg)
  /\ want' = [want EXCEPT ![f.block] = pc]
  /\ FunDone
  /\ UNCHANGED <<fat, asyncVars, destVars>>

\* block_cache_pread
read_run ==
  /\ InEvent /\ f.op = "read"
  /\ ~InFlight(seg)
  /\ \/ FunDone /\ Use(seg) /\ UNCHANGED faults
     \/ /\ MayFail("read") /\ MustRead(seg)
        /\ faults' = faults + 1
        /\ EventFails
        /\ UNCHANGED <<last_access, timestamp>>
  /\ UNCHANGED <<fat, dirty, asyncVars, media, want>>

\* block_cache_pwrite of a whole segment: handed to the writer thread, which
\* has to be done with the previous one; written at once without threads; kept
\* if a part of it is in the cache that was not streamed.
stream_run ==
  /\ InEvent /\ f.op = "stream"
  /\ \/ /\ bad_offset /\ EventFails
        /\ UNCHANGED <<dirty, last_access, timestamp, asyncVars, destVars, want>>
     \/ /\ threads /\ ~bad_offset /\ flying = None
        /\ flying' = [seg |-> seg, val |-> pc]
        /\ dirty' = Fill(dirty, seg, None)
        /\ Use(seg)
        /\ want' = Fill(want, seg, pc)
        /\ FunDone
        /\ UNCHANGED <<bad_offset, destVars>>
     \/ /\ ~threads
        /\ media' = Fill(media, seg, pc)
        /\ dirty' = Fill(dirty, seg, None)
        /\ Use(seg)
        /\ want' = Fill(want, seg, pc)
        /\ FunDone
        /\ UNCHANGED <<asyncVars, faults>>
     \/ /\ ~threads /\ MayFail("write")
        /\ media' = Fill(media, seg, "torn")
        /\ faults' = faults + 1
        /\ dirty' = Fill(dirty, seg, pc)
        /\ Use(seg)
        /\ want' = Fill(want, seg, pc)
        /\ EventFails
        /\ UNCHANGED asyncVars
     \/ /\ IsDirty(seg) /\ ~InFlight(seg)
        /\ dirty' = Fill(dirty, seg, pc)
        /\ Use(seg)
        /\ want' = Fill(want, seg, pc)
        /\ FunDone
        /\ UNCHANGED <<asyncVars, destVars>>
  /\ UNCHANGED fat

\* fatfs_pwrite on a full filesystem
full_run ==
  /\ InEvent /\ f.op = "full"
  /\ fat' = [block |-> f.block, val |-> pc]
  /\ EventFails
  /\ UNCHANGED <<dirty, last_access, timestamp, asyncVars, destVars, want>>

error_run ==
  /\ InEvent /\ f.op = "error"
  /\ EventFails
  /\ UNCHANGED <<cacheVars, asyncVars, destVars, want>>

\* A function that needs a segment makes room: the least recently used one is
\* flushed, and the function fails if that fails.
Evict ==
  /\ InEvent /\ f.op \notin {"error", "full"}
  /\ \E s \in Dirty :
       /\ LeastRecent(s)
       /\ \/ FlushOk(s) /\ UNCHANGED <<pc, rc, evVars, progVars, resetAt, threads>>
          \/ FlushBad(s) /\ EventFails
  /\ UNCHANGED <<fat, last_access, timestamp, flying, want>>

----------------------------------------------------------------------------
(* FatFs is closed                                                         *)

\* fatfs_closefs, called before on-finish, before each reset and before the
\* final flush: f_close reads and writes the sector that FatFs holds through
\* the cache, which may have to make room for it.  An error ends f_close and is
\* ignored.  Where a handler has succeeded, FatFs holds nothing.
fatfs_closefs ==
  /\ pc \in {"archive", "failed", "failed_again", "close", "cleanup"} /\ fat # None
  /\ \/ /\ ~InFlight(SegOf[fat.block])
        /\ dirty' = [dirty EXCEPT ![fat.block] = fat.val]
        /\ want' = [want EXCEPT ![fat.block] = fat.val]
        /\ Use(SegOf[fat.block])
        /\ fat' = None
        /\ UNCHANGED <<bad_offset, destVars>>
     \/ /\ ~InFlight(SegOf[fat.block])
        /\ MayFail("read") /\ MustRead(SegOf[fat.block])
        /\ faults' = faults + 1
        /\ fat' = None
        /\ UNCHANGED <<dirty, want, last_access, timestamp, bad_offset, media>>
     \/ /\ ~IsDirty(SegOf[fat.block])
        /\ \E s \in Dirty :
             /\ LeastRecent(s)
             /\ \/ FlushOk(s) /\ UNCHANGED fat
                \/ FlushBad(s) /\ fat' = None
        /\ UNCHANGED <<want, last_access, timestamp>>
  /\ UNCHANGED <<pc, rc, evVars, progVars, flying, resetAt, threads>>

----------------------------------------------------------------------------
(* run_task: the order of the events                                       *)

CacheUnchanged == UNCHANGED <<asyncVars, destVars, want>>

\* A handler has run to its end.
EventDone ==
  /\ pc \in Event /\ funs = <<>>
  /\ \/ pc = "on-init" /\ pc' = "archive" /\ UNCHANGED processed
     \/ pc = "on-resource" /\ pc' = "archive" /\ processed' = processed \cup {current}
     \/ pc = "on-finish" /\ pc' = "close" /\ UNCHANGED processed
     \/ pc = "on-error" /\ pc' = "cleanup" /\ UNCHANGED processed
  /\ UNCHANGED <<rc, task, funs, archive, current, progVars, cacheVars, resetAt, threads>>
  /\ CacheUnchanged

\* The next entry of the archive: malformed, not used by the task, not what
\* meta.conf says, or the start of its on-resource handler.
NextEntry ==
  /\ pc = "archive" /\ archive # <<>>
  /\ archive' = Tail(archive)
  /\ LET e == Head(archive) IN
     \/ /\ e.state # "malformed" /\ e.name \notin Handled(task)
        /\ UNCHANGED <<pc, rc, funs, current>>
     \/ /\ \/ e.state = "malformed"
           \/ e.state = "misfit" /\ e.name \in Handled(task)
        /\ pc' = "failed" /\ rc' = "error"
        /\ UNCHANGED <<funs, current>>
     \/ /\ e.state = "usable" /\ e.name \in Handled(task)
        /\ pc' = "on-resource" /\ funs' = task.resources[e.name] /\ current' = e.name
        /\ UNCHANGED rc
  /\ UNCHANGED <<task, processed, progVars, cacheVars, resetAt, threads>>
  /\ CacheUnchanged

\* The archive is at its end, or cannot be read further: every resource must
\* have been processed before FatFs is closed and on-finish runs.
AllProcessed == Handled(task) \subseteq processed

EndOfArchive ==
  /\ pc = "archive" /\ archive = <<>>
  /\ \/ /\ ~AllProcessed
        /\ pc' = "failed" /\ rc' = "error"
        /\ UNCHANGED funs
     \/ /\ AllProcessed
        /\ fat = None
        /\ pc' = "on-finish" /\ funs' = task.finish
        /\ UNCHANGED rc
  /\ UNCHANGED <<task, archive, current, processed, progVars, cacheVars, resetAt, threads>>
  /\ CacheUnchanged

\* cleanup of run_task: close FatFs and start the error handler from an empty
\* cache; after its failure, close FatFs and throw the cache away again.
ResetThenClose ==               \* variant: FatFs is closed after the reset
  /\ pc = "failed" /\ flying = None
  /\ bad_offset' = FALSE
  /\ fat' = None
  /\ dirty' = [b \in Blocks |-> IF fat # None /\ fat.block = b THEN fat.val ELSE None]
  /\ want' = media
  /\ pc' = "on-error" /\ funs' = task.error
  /\ resetAt' = faults
  /\ UNCHANGED <<threads, rc, task, archive, current, processed, progVars, destVars, last_access,
                 timestamp, flying>>
StartErrorHandler ==
  /\ pc = "failed" /\ fat = None
  /\ block_cache_reset
  /\ pc' = "on-error" /\ funs' = task.error
  /\ resetAt' = faults
  /\ UNCHANGED <<threads, rc, task, archive, current, processed, progVars, destVars>>

ErrorHandlerFailed ==
  /\ pc = "failed_again" /\ fat = None
  /\ block_cache_reset
  /\ pc' = "cleanup"
  /\ UNCHANGED <<rc, evVars, progVars, destVars, resetAt, threads>>

----------------------------------------------------------------------------
(* fwup_apply after run_task                                               *)

\* FatFs is closed before the flush of either path.
CloseFs ==
  /\ pc \in {"close", "cleanup"} /\ fat = None
  /\ pc' = IF pc = "close" THEN "flush" ELSE "last_flush"
  /\ UNCHANGED <<rc, evVars, progVars, cacheVars, resetAt, threads>>
  /\ CacheUnchanged

\* variant: the result of the first flush is ignored too
FlushIgnored ==
  /\ pc \in {"flush", "last_flush"}
  /\ \/ /\ Dirty = {}
        /\ UNCHANGED <<dirty, bad_offset, destVars>>
        /\ pc' = "free"
     \/ \E s \in Dirty : LeastRecent(s) /\ FlushOk(s) /\ UNCHANGED pc
     \/ \E s \in Dirty : LeastRecent(s) /\ FlushBad(s) /\ pc' = "free"
  /\ UNCHANGED <<rc, evVars, progVars, fat, last_access, timestamp, flying, want, resetAt, threads>>

\* block_cache_flush.  If it fails on the path of success, it is called once
\* more on the path of failure; there its result is ignored.
block_cache_flush ==
  /\ pc \in {"flush", "last_flush"}
  /\ \/ /\ Dirty = {}
        /\ pc' = "free"
        /\ UNCHANGED <<rc, dirty, bad_offset, destVars>>
     \/ \E s \in Dirty : LeastRecent(s) /\ FlushOk(s) /\ UNCHANGED <<pc, rc>>
     \/ \E s \in Dirty :
          /\ LeastRecent(s) /\ FlushBad(s)
          /\ \/ pc = "flush" /\ pc' = "cleanup" /\ rc' = "error"
             \/ pc = "last_flush" /\ pc' = "free" /\ UNCHANGED rc
  /\ UNCHANGED <<evVars, progVars, fat, last_access, timestamp, flying, want, resetAt, threads>>

\* block_cache_free waits for the writer thread; 100% is reported after it.
block_cache_free ==
  /\ pc = "free" /\ flying = None
  /\ pc' = "done"
  /\ complete' = (rc = "ok")
  /\ dirty' = [b \in Blocks |-> None]
  /\ UNCHANGED <<rc, evVars, total_units, current_units, fat, last_access, timestamp,
                 resetAt, threads>>
  /\ CacheUnchanged

Done == pc = "done" /\ UNCHANGED vars

----------------------------------------------------------------------------
NoTask == [matches |-> FALSE, applicable |-> FALSE, described |-> FALSE, init |-> <<>>,
           resources |-> [r \in {} |-> <<>>], finish |-> <<>>, error |-> <<>>]

Init ==
  /\ threads \in Builds
  /\ pc = "start" /\ rc = "ok" /\ complete = FALSE
  /\ task = NoTask /\ funs = <<>> /\ archive = <<>> /\ current = None /\ processed = {}
  /\ total_units = 0 /\ current_units = 0
  /\ fat = None /\ dirty = [b \in Blocks |-> None]
  /\ last_access = [s \in Segs |-> 0] /\ timestamp = 0
  /\ flying = None /\ bad_offset = FALSE
  /\ media = [b \in Blocks |-> "old"] /\ faults = 0
  /\ want = media /\ resetAt = -1

MainStep ==
  \/ fwup_apply
  \/ write_run \/ read_run \/ stream_run \/ full_run \/ error_run \/ Evict \/ fatfs_closefs
  \/ EventDone \/ NextEntry \/ EndOfArchive \/ StartErrorHandler \/ ErrorHandlerFailed
  \/ CloseFs \/ block_cache_flush \/ block_cache_free

Next == MainStep \/ writer_worker \/ Done

\* The process runs and its writer thread is scheduled.
Spec == Init /\ [][Next]_vars /\ WF_vars(MainStep) /\ WF_vars(writer_worker)

----------------------------------------------------------------------------
(* Properties                                                              *)

\* The range of every variable of a run and of its history.
TypeOK ==
  /\ threads \in BOOLEAN
  /\ pc \in Event \cup {"start", "archive", "failed", "failed_again", "close", "cleanup",
                         "flush", "last_flush", "free", "done"}
  /\ rc \in {"ok", "error"} /\ complete \in BOOLEAN
  /\ IsTask(task) /\ funs \in Seq(Fun) /\ archive \in Seq(Entry)
  /\ current \in Resources \cup {None} /\ processed \subseteq Resources
  /\ total_units \in Nat /\ current_units \in 0 .. total_units
  /\ fat \in [block : Blocks, val : Event] \cup {None}
  /\ dirty \in [Blocks -> Event \cup {None}]
  /\ last_access \in [Segs -> Nat] /\ timestamp \in Nat
  /\ flying \in [seg : Segs, val : Event] \cup {None} /\ bad_offset \in BOOLEAN
  /\ media \in [Blocks -> Value] /\ faults \in Nat
  /\ want \in [Blocks -> Value] /\ resetAt \in Nat \cup {-1}

\* The final flush of an update whose handlers succeeded has failed.
FlushFailed == rc = "error" /\ resetAt = -1 /\ pc \in {"cleanup", "last_flush", "free", "done"}

\* Does function g write block b?
Writes(g, b) == \/ g.op = "write" /\ b = g.block
                \/ g.op = "stream" /\ SegOf[b] = SegOf[g.block]

\* Does function g change something in segment s, does it use it at all, and
\* does a function of on-init or on-resource change something in it?
Changes(g, s) == g.op \in {"stream", "write", "full"} /\ SegOf[g.block] = s
Uses(g, s) == g.op # "error" /\ SegOf[g.block] = s
ChangedEarlier(s) ==
  \/ \E i \in DOMAIN task.init : Changes(task.init[i], s)
  \/ \E r \in Handled(task) : \E i \in DOMAIN task.resources[r] : Changes(task.resources[r][i], s)

\* An on-finish that leaves the order of the flush alone: it streams nothing, and
\* when it has changed a segment, it uses no other one any more that on-init or
\* on-resource change too.
FinishApart ==
  \A j \in DOMAIN task.finish :
    /\ task.finish[j].op # "stream"
    /\ \A s \in Segs : Uses(task.finish[j], s) /\ ChangedEarlier(s) =>
         \A i \in 1 .. j - 1 : \A t \in Segs : Changes(task.finish[i], t) => t = s

\* The switch comes last.  Whenever something that on-finish wrote is on the
\* media, at the end or at the moment of a power failure, every resource of the
\* task has been processed and all that on-init and on-resource wrote is on the
\* media too.  Excused are the one segment in the writer thread's hands and,
\* once it is known, its failure; a destination that fails in the final flush
\* (see OnlyErrorHandlerFlushed) or again in on-error; and an on-finish that is
\* not FinishApart.  Its streamed segments are not held back until the flush.
\* And with every use, also to read, a segment moves to the end of the order of
\* the flush, with all the blocks of earlier handlers that wait in it.
Earlier == {"on-init", "on-resource"}
Switched == \E b \in Blocks : media[b] = "on-finish"
EarlierLanded ==
  \A b \in Blocks : want[b] \in Earlier =>
    \/ media[b] = want[b]
    \/ InFlight(SegOf[b])
    \/ bad_offset
FailedAgain == resetAt # -1 /\ resetAt # faults
SwitchLast ==
  (Switched /\ ~FlushFailed /\ ~FailedAgain /\ FinishApart) => AllProcessed /\ EarlierLanded

\* The same for every on-finish that streams nothing.  It does not hold: see
\* FinishApart and README.md, section 6.
SwitchLastAlways ==
  (/\ Switched /\ ~FlushFailed /\ ~FailedAgain
   /\ \A i \in DOMAIN task.finish : task.finish[i].op # "stream")
  => EarlierLanded

\* A step that changes only segments which are in the writer thread's hands or
\* hold writes of the on-error handler and of nobody else.
OfErrorHandler(s) ==
  /\ IsDirty(s)
  /\ \A b \in Blocks : SegOf[b] = s => dirty[b] \in {None, "on-error"}
OnlyErrorHandlerWrites ==
  \A b \in Blocks : media'[b] # media[b] =>
     \/ InFlight(SegOf[b])
     \/ OfErrorHandler(SegOf[b])
     \/ pc = "on-error" /\ InEvent /\ f.op = "stream" /\ seg = SegOf[b]

\* Once a handler has failed, nothing but what the on-error handler wrote, and
\* the segment already in the writer thread's hands, reaches the media: what
\* the failed handlers left in the cache and in FatFs is thrown away.  After a
\* final flush that has failed in a write of the build with threads it is the
\* same.  Excused are that flush failing in another way, and FatFs holding a
\* sector when a handler fails: to write it, fatfs_closefs may evict segments.
FailureStopsWrites ==
  [][(rc = "error" /\ (FlushFailed => bad_offset) /\ (pc = "failed" => fat = None))
     => OnlyErrorHandlerWrites]_vars

\* Closing FatFs before the reset writes nothing.  It does not hold: closing a
\* file that is open and full may evict what the failed handlers left.
ClosedQuietly == [][pc = "failed" => OnlyErrorHandlerWrites]_vars

\* The flush of the cleanup writes what the on-error handler left.  It does not
\* hold: it also writes what a failed final flush left, the switch included.
OnlyErrorHandlerFlushed == [][pc = "last_flush" => OnlyErrorHandlerWrites]_vars

\* The on-error handler gets through: if it asks for nothing that fails and the
\* destination does not fail again, all that it wrote is on the media at the
\* end, whatever went wrong before it and in whichever thread.
ErrorHandlerLands ==
  (/\ pc = "done" /\ resetAt = faults
   /\ \A i \in DOMAIN task.error : task.error[i].op \in {"stream", "write", "read"})
  => \A i \in DOMAIN task.error : \A b \in Blocks :
       Writes(task.error[i], b) => media[b] = "on-error"

\* Progress never passes the total that was computed beforehand, and 100% is
\* reported only when all that the handlers wrote is on the media, unless the
\* writer thread's last segment failed unnoticed.
SuccessOnMedia == current_units <= total_units /\ ((complete /\ ~bad_offset) => media = want)

\* Every run comes to an end, also with a writer thread that waits and after
\* failures in handlers and error handlers.
Terminates == <>(pc = "done")

============================================================================
