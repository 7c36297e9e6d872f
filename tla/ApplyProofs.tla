---------------------------- MODULE ApplyProofs ----------------------------
(***************************************************************************)
(* Proofs about applying an update (Apply.tla), for every set of segments, *)
(* every configuration and archive, every order of faults and both builds. *)
(***************************************************************************)
EXTENDS Apply, FiniteSetTheorems, TLAPS

----------------------------------------------------------------------------
(* The inductive invariant, in parts                                       *)

\* No unit is reported before run_task, and an on-resource handler has a resource.
Started ==
  /\ pc = "start" => current_units = 0
  /\ pc = "on-resource" => current \in Resources

\* Without the writer thread there is nothing in its hands and no bad_offset.
NoThreads == ~threads => flying = None /\ ~bad_offset

\* Where run_task is tells whether something has failed, whether on-error has
\* been started, and whether FatFs can hold an unwritten sector.
Phases ==
  /\ rc = "error" => pc \notin {"start", "on-init", "on-resource", "on-finish", "archive",
                                "close", "flush"}
  /\ pc \in {"failed", "failed_again", "on-error", "cleanup", "last_flush"} => rc = "error"
  /\ pc \in {"on-error", "failed_again"} => resetAt # -1
  /\ resetAt # -1 => /\ rc = "error"
                     /\ pc \in {"on-error", "failed_again", "cleanup", "last_flush", "free", "done"}
                     /\ resetAt <= faults
  /\ fat # None => pc \in {"failed", "failed_again"}
  /\ complete => pc = "done" /\ rc = "ok"
  /\ pc \in {"start", "done"} => flying = None

\* Nothing has gone wrong since the cache was last known to be good.  A handler
\* that FatFs stopped has lost nothing of what was in the cache.
Sound == (rc = "ok" \/ (pc = "failed" /\ fat # None) \/ resetAt = faults) /\ ~bad_offset

\* What the handlers wrote is on the media, in the cache, or in the writer
\* thread's hands, and never in two of these with different contents.
Held ==
  /\ \A b \in Blocks : InFlight(SegOf[b]) => dirty[b] = None /\ flying.val = want[b]
  /\ \A b \in Blocks : dirty[b] # None => last_access[SegOf[b]] < timestamp
  /\ Sound => \A b \in Blocks :
       /\ dirty[b] # None => dirty[b] = want[b]
       /\ dirty[b] = None /\ ~InFlight(SegOf[b]) => media[b] = want[b]
  /\ Sound /\ pc \in {"free", "done"} => \A b \in Blocks : dirty[b] = None

\* After the reset only the on-error handler's writes are on their way.
AfterReset ==
  /\ resetAt # -1 => /\ \A b \in Blocks : dirty[b] \in {None, "on-error"}
                     /\ fat # None => fat.val = "on-error"
  /\ fat # None /\ fat.val = "on-error" => resetAt # -1
  /\ resetAt = faults => ~bad_offset

\* The functions of the on-error handler that have run, and what they wrote.
ErrorRan ==
  /\ Len(funs) <= Len(task.error)
  /\ \A i \in 1 .. Len(funs) : funs[i] = task.error[Len(task.error) - Len(funs) + i]
  /\ \A i \in 1 .. Len(task.error) - Len(funs) : \A b \in Blocks :
       Writes(task.error[i], b) => want[b] = "on-error"
ErrorWrote ==
  \A i \in DOMAIN task.error : \A b \in Blocks : Writes(task.error[i], b) => want[b] = "on-error"
ErrorCannotFail ==
  \A i \in DOMAIN task.error : task.error[i].op \in {"stream", "write", "read"}
OnError ==
  /\ pc = "on-error" => ErrorRan
  /\ pc = "failed_again" /\ ErrorCannotFail => resetAt # faults
  /\ pc \in {"cleanup", "last_flush", "free", "done"} /\ resetAt = faults /\ ErrorCannotFail
       => ErrorWrote

\* What on-init and on-resource write lies in the segments that they change.
EarlierRuns ==
  /\ pc = "start" => \A s \in Segs : ~ChangedEarlier(s)
  /\ pc \in Earlier => \A i \in 1 .. Len(funs) : \A s \in Segs : Changes(funs[i], s) => ChangedEarlier(s)
EarlierPlaces ==
  /\ \A b \in Blocks : dirty[b] \in Earlier \/ want[b] \in Earlier \/ media[b] \in Earlier
       => ChangedEarlier(SegOf[b])
  /\ flying # None /\ flying.val \in Earlier => ChangedEarlier(flying.seg)
  /\ fat # None /\ fat.val \in Earlier => ChangedEarlier(SegOf[fat.block])
EarlierSegs == EarlierRuns /\ EarlierPlaces

\* What on-finish wrote exists only once every resource has been processed.
OnFinish(b) ==
  media[b] = "on-finish" \/ dirty[b] = "on-finish" \/ (InFlight(SegOf[b]) /\ flying.val = "on-finish")
FinishWrote == (\E b \in Blocks : OnFinish(b)) \/ (fat # None /\ fat.val = "on-finish")
FinishProcessed == pc \in {"on-finish", "close", "flush"} \/ FinishWrote => AllProcessed
FinishAbsent ==
  pc \in {"start", "on-init", "on-resource", "archive"} \/ (fat # None /\ fat.val \in Earlier)
  => ~FinishWrote
FinishLeft == FinishApart /\ flying # None => flying.val # "on-finish"

\* The functions of on-finish that have run are the ones that changed the
\* segments in which it has written something.
FinishBefore(n) ==
  \A b \in Blocks : OnFinish(b) => \E i \in 1 .. n : Changes(task.finish[i], SegOf[b])
FinishRan ==
  /\ pc = "on-finish" =>
       /\ Len(funs) <= Len(task.finish)
       /\ \A i \in 1 .. Len(funs) : funs[i] = task.finish[Len(task.finish) - Len(funs) + i]
       /\ FinishBefore(Len(task.finish) - Len(funs))
  /\ fat # None /\ fat.val = "on-finish" =>
       \E k \in DOMAIN task.finish : /\ Changes(task.finish[k], SegOf[fat.block])
                                     /\ FinishBefore(k - 1)

\* It is younger in the cache than what waits in the segments of on-init and
\* on-resource, and leaves it last.
FinishYoungest ==
  FinishApart /\ resetAt = -1 =>
    \A b, c \in Blocks :
      dirty[b] = "on-finish" /\ dirty[c] # None /\ SegOf[c] # SegOf[b] /\ ChangedEarlier(SegOf[c])
      => last_access[SegOf[c]] < last_access[SegOf[b]]
FinishAlone ==
  FinishApart /\ resetAt = -1 /\ ~FlushFailed =>
    \A b, c \in Blocks :
      media[b] = "on-finish" /\ dirty[c] # None /\ ChangedEarlier(SegOf[c])
      => SegOf[c] = SegOf[b] /\ dirty[c] = "on-finish"
FinishLast ==
  FinishProcessed /\ FinishAbsent /\ FinishLeft /\ FinishRan /\ FinishYoungest /\ FinishAlone

AInv ==
  /\ TypeOK /\ Started /\ NoThreads /\ Phases /\ Held /\ AfterReset /\ OnError
  /\ EarlierSegs /\ FinishLast /\ SwitchLast

----------------------------------------------------------------------------
(* Types                                                                   *)

\* The handlers of a task are lists of functions.
LEMMA TaskTyped ==
  ASSUME NEW t, IsTask(t)
  PROVE  /\ t.init \in Seq(Fun) /\ t.finish \in Seq(Fun) /\ t.error \in Seq(Fun)
         /\ Handled(t) \subseteq Resources
         /\ \A r \in Handled(t) : t.resources[r] \in Seq(Fun)
BY DEF IsTask, Handled

\* The function that runs next, and what is left after it.
LEMMA NextFunTyped ==
  ASSUME funs \in Seq(Fun), InEvent
  PROVE  /\ f \in Fun /\ f.block \in Blocks /\ seg \in Segs /\ f = funs[1]
         /\ Tail(funs) \in Seq(Fun)
         /\ Len(Tail(funs)) = Len(funs) - 1
         /\ \A i \in 1 .. Len(Tail(funs)) : Tail(funs)[i] = funs[i + 1]
<1>1. funs # <<>> /\ Len(funs) \in Nat /\ Len(funs) # 0 BY DEF InEvent
<1>2. f = funs[1] /\ f \in Fun BY <1>1 DEF f
<1>3. f.block \in Blocks BY <1>2 DEF Fun
<1>6. seg \in Segs BY <1>3, ApplyAssumption DEF seg
<1>4. Tail(funs) \in Seq(Fun) /\ Len(Tail(funs)) = Len(funs) - 1 BY <1>1
<1>5. \A i \in 1 .. Len(Tail(funs)) : Tail(funs)[i] = funs[i + 1] BY <1>1
<1> QED BY <1>2, <1>3, <1>4, <1>5, <1>6

\* compute_progress yields a number: a task has finitely many functions.
LEMMA ProgressTyped ==
  ASSUME NEW t, IsTask(t)
  PROVE  compute_progress(t) \in Nat
<1>1. ASSUME NEW fs \in Seq(Fun) PROVE IsFiniteSet(Counted(fs))
  <2>1. IsFiniteSet(1 .. Len(fs)) BY FS_Interval
  <2>2. Counted(fs) \subseteq 1 .. Len(fs) BY DEF Counted
  <2> QED BY <2>1, <2>2, FS_Subset
<1>2. IsFiniteSet(Handled(t)) BY TaskTyped, FS_Subset, ApplyAssumption
<1> DEFINE P(r) == {r} \X Counted(t.resources[r])
           U == {P(r) : r \in Handled(t)}
<1>3. IsFiniteSet(U)
  <2>1. [r \in Handled(t) |-> P(r)] \in Surjection(Handled(t), U) BY DEF Surjection
  <2> QED BY <1>2, <2>1, FS_Surjection
<1>4. \A u \in U : IsFiniteSet(u)
  <2> SUFFICES ASSUME NEW r \in Handled(t) PROVE IsFiniteSet(P(r)) OBVIOUS
  <2>1. IsFiniteSet({r}) BY FS_Singleton
  <2>2. IsFiniteSet(Counted(t.resources[r])) BY <1>1, TaskTyped
  <2> QED BY <2>1, <2>2, FS_Product
<1>5. IsFiniteSet(UNION U) BY <1>3, <1>4, FS_UNION
<1>6. Cardinality(UNION U) \in Nat BY <1>5, FS_CardinalityType
<1>7. Cardinality(Counted(t.init)) \in Nat /\ Cardinality(Counted(t.finish)) \in Nat
  BY <1>1, TaskTyped, FS_CardinalityType
<1> HIDE DEF U
<1>8. compute_progress(t) =
        Cardinality(Counted(t.init)) + Cardinality(Counted(t.finish)) + Cardinality(UNION U)
  BY DEF compute_progress, U
<1> QED BY <1>6, <1>7, <1>8

\* The parts of TypeOK, which are proved one at a time.
Flags == threads \in BOOLEAN /\ complete \in BOOLEAN /\ bad_offset \in BOOLEAN
Control ==
  /\ pc \in Event \cup {"start", "archive", "failed", "failed_again", "close", "cleanup",
                         "flush", "last_flush", "free", "done"}
  /\ rc \in {"ok", "error"}
  /\ IsTask(task) /\ funs \in Seq(Fun) /\ archive \in Seq(Entry)
  /\ current \in Resources \cup {None} /\ processed \subseteq Resources
Counters ==
  /\ total_units \in Nat /\ current_units \in 0 .. total_units
  /\ last_access \in [Segs -> Nat] /\ timestamp \in Nat
  /\ faults \in Nat /\ resetAt \in Nat \cup {-1}
Contents ==
  /\ fat \in [block : Blocks, val : Event] \cup {None}
  /\ dirty \in [Blocks -> Event \cup {None}]
  /\ flying \in [seg : Segs, val : Event] \cup {None}
  /\ media \in [Blocks -> Value] /\ want \in [Blocks -> Value]

TInv == TypeOK /\ Started

LEMMA TypeParts == TypeOK <=> Flags /\ Control /\ Counters /\ Contents
BY DEF TypeOK, Flags, Control, Counters, Contents

LEMMA InitTyped == Init => TypeOK
<1> SUFFICES ASSUME Init PROVE TypeOK OBVIOUS
<1>1. IsTask(NoTask) BY DEF IsTask, NoTask
<1>2. Flags BY ApplyAssumption DEF Init, Flags
<1>3. Control BY <1>1 DEF Init, Control
<1>4. Counters BY DEF Init, Counters
<1>5. Contents BY DEF Init, Contents, Value
<1> QED BY <1>2, <1>3, <1>4, <1>5, TypeParts

LEMMA FlagsTyped == TypeOK /\ [Next]_vars => Flags'
<1> SUFFICES ASSUME TypeOK, [Next]_vars PROVE Flags' OBVIOUS
<1>1. Flags BY TypeParts
<1>2. threads' = threads
  BY DEF Next, MainStep, fwup_apply, write_run, read_run, stream_run, full_run, error_run, Evict,
         fatfs_closefs, EventDone, NextEntry, EndOfArchive, StartErrorHandler, ErrorHandlerFailed, CloseFs,
         block_cache_flush, block_cache_free, writer_worker, Done, vars, FunDone, EventFails
<1>3. complete' \in {complete, TRUE, FALSE}
  BY DEF Next, MainStep, fwup_apply, write_run, read_run, stream_run, full_run, error_run, Evict,
         fatfs_closefs, EventDone, NextEntry, EndOfArchive, StartErrorHandler, ErrorHandlerFailed, CloseFs,
         block_cache_flush, block_cache_free, writer_worker, Done, vars, progVars, FunDone, EventFails
<1>4. bad_offset' \in {bad_offset, threads, TRUE, FALSE}
  BY DEF Next, MainStep, fwup_apply, write_run, read_run, stream_run, full_run, error_run, Evict,
         fatfs_closefs, EventDone, NextEntry, EndOfArchive, StartErrorHandler, ErrorHandlerFailed, CloseFs,
         block_cache_flush, block_cache_free, writer_worker, Done, vars, asyncVars, CacheUnchanged,
         block_cache_reset, FlushOk, FlushBad
<1> QED BY <1>1, <1>2, <1>3, <1>4 DEF Flags

\* Starting: the task that find_task yields is one of the configuration.
LEMMA StartChosen ==
  ASSUME fwup_apply
  PROVE  \/ UNCHANGED <<task, funs, archive, total_units>>
         \/ /\ IsTask(task') /\ archive' \in Seq(Entry) /\ funs' \in {task'.init, funs}
            /\ total_units' = compute_progress(task')
<1>1. ASSUME NEW l \in TaskLists, NEW i \in find_task(l) PROVE IsTask(l[i])
  <2>1. i \in DOMAIN l \/ Len(l) = 0 \/ TRUE OBVIOUS
  <2> QED BY ApplyAssumption DEF find_task
<1>2. \A a \in Archives : a \in Seq(Entry) BY ApplyAssumption
<1> QED BY <1>1, <1>2 DEF fwup_apply

LEMMA ControlTyped == TInv /\ [Next]_vars => Control'
<1> SUFFICES ASSUME TypeOK, Started, [Next]_vars PROVE Control' BY DEF TInv
<1>1. Control BY TypeParts
<1> USE DEF Control
<1>2. InEvent => pc \in Event /\ Tail(funs) \in Seq(Fun) BY <1>1, NextFunTyped DEF InEvent
<1>3. CASE fwup_apply
  <2>1. pc' \in {"done", "cleanup", "on-init", "failed"} /\ rc' \in {rc, "error"}
    BY <1>3 DEF fwup_apply
  <2>2. IsTask(task') /\ archive' \in Seq(Entry) /\ funs' \in Seq(Fun)
    BY <1>1, <1>3, StartChosen, TaskTyped
  <2> QED BY <1>1, <1>3, <2>1, <2>2 DEF fwup_apply, Event
<1>a. EventFails => Control' BY <1>1 DEF EventFails
<1>b. InEvent /\ FunDone => Control' BY <1>1, <1>2 DEF FunDone
<1>4. CASE write_run \/ read_run \/ stream_run
  BY <1>4, <1>a, <1>b DEF write_run, read_run, stream_run
<1>5. CASE full_run \/ error_run \/ Evict
  BY <1>5, <1>a, <1>1 DEF full_run, error_run, Evict, evVars
<1>6. CASE EventDone
  <2>1. pc' \in {"archive", "close", "cleanup"} BY <1>6 DEF EventDone
  <2>2. processed' \subseteq Resources
    <3>1. CASE UNCHANGED processed BY <1>1, <3>1
    <3>2. CASE pc = "on-resource" /\ processed' = processed \cup {current}
      BY <1>1, <3>2 DEF Started
    <3> QED BY <1>6, <3>1, <3>2 DEF EventDone
  <2> QED BY <1>1, <1>6, <2>1, <2>2 DEF EventDone
<1>7. CASE NextEntry
  <2>1. Head(archive) \in Entry /\ Tail(archive) \in Seq(Entry)
    BY <1>1, <1>7 DEF NextEntry
  <2>2. Head(archive).name \in Resources BY <2>1 DEF Entry
  <2>3. Head(archive).name \in Handled(task) => task.resources[Head(archive).name] \in Seq(Fun)
    BY <1>1, TaskTyped
  <2> QED BY <1>1, <1>7, <2>1, <2>2, <2>3 DEF NextEntry, Event
<1>8. CASE EndOfArchive \/ StartErrorHandler
  BY <1>8, <1>1, TaskTyped DEF EndOfArchive, StartErrorHandler, Event
<1>9. CASE ErrorHandlerFailed \/ CloseFs \/ block_cache_flush \/ block_cache_free
  BY <1>9, <1>1 DEF ErrorHandlerFailed, CloseFs, block_cache_flush, block_cache_free, evVars
<1>10. CASE writer_worker \/ fatfs_closefs \/ UNCHANGED vars
  BY <1>10, <1>1 DEF writer_worker, fatfs_closefs, vars, evVars
<1> QED BY <1>3, <1>4, <1>5, <1>6, <1>7, <1>8, <1>9, <1>10 DEF Next, MainStep, Done

LEMMA CountersTyped == TInv /\ [Next]_vars => Counters'
<1> SUFFICES ASSUME TypeOK, Started, [Next]_vars PROVE Counters' BY DEF TInv
<1>1. Counters BY TypeParts
<1> USE DEF Counters
<1>2. InEvent => [last_access EXCEPT ![seg] = timestamp] \in [Segs -> Nat]
  BY <1>1, TypeParts, NextFunTyped DEF Control
<1>3. FunDone => current_units' \in 0 .. total_units /\ total_units' = total_units
  BY <1>1 DEF FunDone, progress_report
<1>5. \A s \in Segs : FlushOk(s) \/ FlushBad(s) => faults' \in Nat
  BY <1>1 DEF FlushOk, FlushBad
<1>6. CASE fwup_apply
  <2>1. total_units' \in Nat BY <1>1, <1>6, StartChosen, ProgressTyped
  <2> QED BY <1>1, <1>6, <2>1 DEF fwup_apply, cacheVars, destVars, Started
<1>7. CASE write_run
  BY <1>7, <1>1, <1>2, <1>3 DEF write_run, Use, FunDone, destVars
<1>8. CASE read_run
  BY <1>8, <1>1, <1>2, <1>3 DEF read_run, Use, FunDone, EventFails, progVars
<1>9. CASE stream_run
  <2>1. faults' \in {faults, faults + 1} BY <1>9 DEF stream_run, destVars
  <2>2. Use(seg) \/ UNCHANGED <<last_access, timestamp>> BY <1>9 DEF stream_run
  <2>3. FunDone \/ EventFails BY <1>9 DEF stream_run
  <2>4. UNCHANGED resetAt BY <2>3 DEF FunDone, EventFails
  <2>5. last_access' \in [Segs -> Nat] /\ timestamp' \in Nat BY <1>1, <1>2, <2>2 DEF Use
  <2>6. total_units' \in Nat /\ current_units' \in 0 .. total_units'
    BY <1>1, <1>3, <2>3 DEF EventFails, progVars
  <2> QED BY <1>1, <2>1, <2>4, <2>5, <2>6
<1>10. CASE full_run \/ error_run
  BY <1>10, <1>1 DEF full_run, error_run, EventFails, progVars, cacheVars, destVars
<1>11. CASE Evict
  BY <1>11, <1>1, <1>5 DEF Evict, EventFails, progVars, Dirty
<1>12. CASE EventDone \/ NextEntry
  BY <1>12, <1>1 DEF EventDone, NextEntry, CacheUnchanged, progVars, cacheVars, destVars
<1>13. CASE EndOfArchive \/ CloseFs
  BY <1>13, <1>1 DEF EndOfArchive, CloseFs, CacheUnchanged, progVars, cacheVars, destVars
<1>14. CASE StartErrorHandler \/ ErrorHandlerFailed
  BY <1>14, <1>1 DEF StartErrorHandler, ErrorHandlerFailed, block_cache_reset, progVars, destVars
<1>15. CASE block_cache_flush
  BY <1>15, <1>1, <1>5 DEF block_cache_flush, Dirty, progVars, destVars
<1>16. CASE block_cache_free
  BY <1>16, <1>1 DEF block_cache_free, CacheUnchanged, destVars
<1>4. CASE fatfs_closefs
  <2>1. fat # None => fat.block \in Blocks BY TypeParts DEF Contents
  <2>2. fat # None => SegOf[fat.block] \in Segs BY <2>1, ApplyAssumption
  <2> QED BY <1>4, <1>1, <1>5, <2>2 DEF fatfs_closefs, Use, progVars, destVars, Dirty
<1>17. CASE writer_worker \/ UNCHANGED vars
  BY <1>17, <1>1 DEF writer_worker, vars, progVars, cacheVars, destVars
<1> QED BY <1>4, <1>6, <1>7, <1>8, <1>9, <1>10, <1>11, <1>12, <1>13, <1>14, <1>15, <1>16, <1>17
        DEF Next, MainStep, Done

\* Blocks of one segment are set to something.
LEMMA FillTyped ==
  ASSUME NEW T, NEW m \in [Blocks -> T], NEW s, NEW v \in T
  PROVE  /\ Fill(m, s, v) \in [Blocks -> T]
         /\ \A b \in Blocks : Fill(m, s, v)[b] = IF SegOf[b] = s THEN v ELSE m[b]
BY DEF Fill

\* What flush_segment does to one block.
LEMMA FlushTyped ==
  ASSUME Contents, NEW s \in Segs, FlushOk(s) \/ FlushBad(s)
  PROVE  /\ dirty' \in [Blocks -> Event \cup {None}] /\ media' \in [Blocks -> Value]
         /\ \A b \in Blocks : dirty'[b] = IF SegOf[b] = s THEN None ELSE dirty[b]
<1> USE DEF Contents
<1>1. dirty' = Fill(dirty, s, None) BY DEF FlushOk, FlushBad
<1>2. dirty' \in [Blocks -> Event \cup {None}]
      /\ \A b \in Blocks : dirty'[b] = IF SegOf[b] = s THEN None ELSE dirty[b]
  <2>1. dirty \in [Blocks -> Event \cup {None}] OBVIOUS
  <2> QED BY <1>1, <2>1 DEF Fill
<1>3. Event \subseteq Value /\ "torn" \in Value BY DEF Value
<1>4. CASE FlushOk(s)
  BY <1>2, <1>3, <1>4 DEF FlushOk
<1>5. CASE FlushBad(s)
  <2>1. Fill(media, s, "torn") \in [Blocks -> Value] BY <1>3, FillTyped
  <2> QED BY <1>2, <1>5, <2>1 DEF FlushBad
<1> QED BY <1>4, <1>5

LEMMA ContentsTyped == TypeOK /\ [Next]_vars => Contents'
<1> SUFFICES ASSUME TypeOK, [Next]_vars PROVE Contents' OBVIOUS
<1>1. Contents BY TypeParts
<1>2. Event \subseteq Value /\ "torn" \in Value BY DEF Value
<1>3. InEvent => /\ f.block \in Blocks /\ seg \in Segs /\ pc \in Event
                 /\ [seg |-> seg, val |-> pc] \in [seg : Segs, val : Event]
                 /\ [block |-> f.block, val |-> pc] \in [block : Blocks, val : Event]
  BY TypeParts, NextFunTyped DEF Control, InEvent
<1>4. \A s \in Dirty : FlushOk(s) \/ FlushBad(s) =>
        dirty' \in [Blocks -> Event \cup {None}] /\ media' \in [Blocks -> Value]
  BY <1>1, FlushTyped DEF Dirty
<1>5. \A s : /\ Fill(dirty, s, None) \in [Blocks -> Event \cup {None}]
              /\ Fill(media, s, "torn") \in [Blocks -> Value]
              /\ \A v \in Event : /\ Fill(dirty, s, v) \in [Blocks -> Event \cup {None}]
                                  /\ Fill(media, s, v) \in [Blocks -> Value]
                                  /\ Fill(want, s, v) \in [Blocks -> Value]
  BY <1>1, <1>2, FillTyped DEF Contents
<1> USE DEF Contents
<1>6. CASE fwup_apply \/ error_run
  BY <1>6, <1>1 DEF fwup_apply, error_run, cacheVars, asyncVars, destVars
<1>7. CASE write_run \/ read_run
  BY <1>7, <1>1, <1>2, <1>3 DEF write_run, read_run, asyncVars, destVars
<1>8. CASE stream_run
  <2>1. InEvent /\ fat' = fat BY <1>8 DEF stream_run
  <2>2. dirty' \in {dirty, Fill(dirty, seg, None), Fill(dirty, seg, pc)}
    BY <1>8 DEF stream_run
  <2>3. media' \in {media, Fill(media, seg, "torn"), Fill(media, seg, pc)}
    BY <1>8 DEF stream_run, destVars
  <2>4. want' \in {want, Fill(want, seg, pc)} /\ flying' \in {flying, [seg |-> seg, val |-> pc]}
    BY <1>8 DEF stream_run, asyncVars
  <2>0. pc \in Event BY <1>3, <2>1
  <2> HIDE DEF Contents
  <2>5. /\ Fill(dirty, seg, None) \in [Blocks -> Event \cup {None}]
        /\ Fill(dirty, seg, pc) \in [Blocks -> Event \cup {None}]
        /\ Fill(media, seg, "torn") \in [Blocks -> Value]
        /\ Fill(media, seg, pc) \in [Blocks -> Value]
        /\ Fill(want, seg, pc) \in [Blocks -> Value]
    BY <1>5, <2>0
  <2> USE DEF Contents
  <2>6. fat' \in [block : Blocks, val : Event] \cup {None} BY <1>1, <2>1
  <2>7. dirty' \in [Blocks -> Event \cup {None}] BY <1>1, <2>2, <2>5
  <2>8. media' \in [Blocks -> Value] BY <1>1, <2>3, <2>5
  <2>9. want' \in [Blocks -> Value] BY <1>1, <2>4, <2>5
  <2>10. flying' \in [seg : Segs, val : Event] \cup {None} BY <1>1, <1>3, <2>1, <2>4
  <2> QED BY <2>6, <2>7, <2>8, <2>9, <2>10
<1>9. CASE full_run
  BY <1>9, <1>1, <1>3 DEF full_run, asyncVars, destVars
<1>10. CASE Evict
  BY <1>10, <1>1, <1>4 DEF Evict
<1>a. CASE fatfs_closefs
  <2>1. fat \in [block : Blocks, val : Event] BY <1>1, <1>a DEF fatfs_closefs
  <2>2. fat.block \in Blocks /\ fat.val \in Event BY <2>1
  <2> QED BY <1>1, <1>2, <1>4, <1>a, <2>2 DEF fatfs_closefs, destVars
<1>11. CASE EventDone \/ NextEntry
  BY <1>11, <1>1 DEF EventDone, NextEntry, CacheUnchanged, cacheVars, asyncVars, destVars
<1>12. CASE EndOfArchive \/ CloseFs
  BY <1>12, <1>1 DEF EndOfArchive, CloseFs, CacheUnchanged, cacheVars, asyncVars, destVars
<1>13. CASE StartErrorHandler \/ ErrorHandlerFailed
  BY <1>13, <1>1 DEF StartErrorHandler, ErrorHandlerFailed, block_cache_reset, destVars
<1>14. CASE block_cache_flush
  BY <1>14, <1>1, <1>4 DEF block_cache_flush, destVars
<1>15. CASE block_cache_free
  BY <1>15, <1>1 DEF block_cache_free, CacheUnchanged, asyncVars, destVars
<1>16. CASE writer_worker
  <2>1. flying.val \in Event BY <1>1, <1>16 DEF writer_worker
  <2> QED BY <1>1, <1>5, <1>16, <2>1 DEF writer_worker, cacheVars
<1>17. CASE UNCHANGED vars
  BY <1>17, <1>1 DEF vars, cacheVars, asyncVars, destVars
<1> QED BY <1>6, <1>7, <1>8, <1>9, <1>10, <1>a, <1>11, <1>12, <1>13, <1>14, <1>15, <1>16, <1>17
        DEF Next, MainStep, Done

LEMMA StartedKept == TInv /\ [Next]_vars => Started'
<1> SUFFICES ASSUME TInv, [Next]_vars PROVE Started' OBVIOUS
<1>1. Control /\ Started BY TypeParts DEF TInv
<1> USE DEF Started
<1>2. CASE fwup_apply BY <1>1, <1>2 DEF fwup_apply
<1>3. FunDone /\ InEvent => Started' BY <1>1 DEF FunDone, InEvent, Event
<1>4. EventFails => Started' BY DEF EventFails
<1>5. CASE write_run \/ read_run \/ stream_run
  BY <1>5, <1>3, <1>4 DEF write_run, read_run, stream_run
<1>6. CASE full_run \/ error_run BY <1>6, <1>4 DEF full_run, error_run
<1>7. CASE Evict BY <1>7, <1>1, <1>4 DEF Evict, evVars, progVars
<1>8. CASE EventDone BY <1>8 DEF EventDone
<1>9. CASE NextEntry
  <2>1. Head(archive).name \in Handled(task) => Head(archive).name \in Resources
    BY <1>1, TaskTyped DEF Control
  <2> QED BY <1>1, <1>9, <2>1 DEF NextEntry, progVars
<1>10. CASE EndOfArchive \/ StartErrorHandler \/ ErrorHandlerFailed \/ CloseFs
  BY <1>10 DEF EndOfArchive, StartErrorHandler, ErrorHandlerFailed, CloseFs
<1>11. CASE block_cache_flush \/ block_cache_free
  BY <1>11 DEF block_cache_flush, block_cache_free
<1>12. CASE writer_worker \/ fatfs_closefs \/ UNCHANGED vars
  BY <1>12, <1>1 DEF writer_worker, fatfs_closefs, vars, evVars, progVars
<1> QED BY <1>2, <1>5, <1>6, <1>7, <1>8, <1>9, <1>10, <1>11, <1>12 DEF Next, MainStep, Done

LEMMA StepTyped == TInv /\ [Next]_vars => TInv'
<1> SUFFICES ASSUME TInv, [Next]_vars PROVE TInv' OBVIOUS
<1>1. Flags' /\ Control' /\ Counters' /\ Contents'
  BY FlagsTyped, ControlTyped, CountersTyped, ContentsTyped DEF TInv
<1>2. TypeOK' BY <1>1, TypeParts DEF TypeOK, Flags, Control, Counters, Contents
<1> QED BY <1>2, StartedKept DEF TInv

\* Every variable of an update and of its history stays in its range.
THEOREM ApplyTyped == Spec => []TypeOK
<1>1. Init => TInv BY InitTyped DEF TInv, Started, Init
<1> QED BY <1>1, StepTyped, PTL DEF Spec, TInv

----------------------------------------------------------------------------
(* The phases of a run                                                     *)

LEMMA NoThreadsKept == TypeOK /\ NoThreads /\ [Next]_vars => NoThreads'
<1> SUFFICES ASSUME TypeOK, NoThreads, [Next]_vars PROVE NoThreads' OBVIOUS
<1>1. threads' = threads
  BY DEF Next, MainStep, fwup_apply, write_run, read_run, stream_run, full_run, error_run, Evict,
         fatfs_closefs, EventDone, NextEntry, EndOfArchive, StartErrorHandler, ErrorHandlerFailed, CloseFs,
         block_cache_flush, block_cache_free, writer_worker, Done, vars, FunDone, EventFails
<1>2. flying' = flying \/ flying' = None \/ threads
  BY DEF Next, MainStep, fwup_apply, write_run, read_run, stream_run, full_run, error_run, Evict,
         fatfs_closefs, EventDone, NextEntry, EndOfArchive, StartErrorHandler, ErrorHandlerFailed, CloseFs,
         block_cache_reset, block_cache_flush, block_cache_free, writer_worker, Done, vars,
         asyncVars, CacheUnchanged
<1>3. bad_offset' \in {bad_offset, threads, FALSE} \/ flying # None
  BY DEF Next, MainStep, fwup_apply, write_run, read_run, stream_run, full_run, error_run, Evict,
         fatfs_closefs, EventDone, NextEntry, EndOfArchive, StartErrorHandler, ErrorHandlerFailed, CloseFs,
         block_cache_reset, block_cache_flush, block_cache_free, writer_worker, Done, vars,
         asyncVars, CacheUnchanged, FlushOk, FlushBad
<1> QED BY <1>1, <1>2, <1>3 DEF NoThreads

LEMMA PhasesKept == TypeOK /\ Phases /\ [Next]_vars => Phases'
<1> SUFFICES ASSUME TypeOK, Phases, [Next]_vars PROVE Phases' OBVIOUS
<1>1. Control /\ Counters BY TypeParts
<1> USE DEF Phases
<1>2. CASE fwup_apply
  BY <1>2, <1>1 DEF fwup_apply, cacheVars, asyncVars, destVars, Control, Counters
<1>3. FunDone /\ InEvent /\ fat' = fat /\ faults' = faults => Phases'
  BY <1>1 DEF FunDone, InEvent, Event
<1>4. EventFails /\ InEvent /\ faults' \in {faults, faults + 1} => Phases'
  BY <1>1 DEF EventFails, InEvent, Event, progVars, Counters
<1>5. CASE write_run BY <1>5, <1>3 DEF write_run, destVars
<1>6. CASE read_run BY <1>6, <1>3, <1>4 DEF read_run
<1>7. CASE stream_run BY <1>7, <1>3, <1>4 DEF stream_run, destVars
<1>8. CASE full_run \/ error_run BY <1>8, <1>4 DEF full_run, error_run, destVars
<1>9. CASE Evict
  <2>1. PICK s \in Dirty :
          \/ FlushOk(s) /\ UNCHANGED <<pc, rc, evVars, progVars, resetAt, threads>>
          \/ FlushBad(s) /\ EventFails
    BY <1>9 DEF Evict
  <2>2. CASE FlushBad(s) /\ EventFails
    BY <1>9, <2>2, <1>4 DEF Evict, FlushBad
  <2>3. CASE FlushOk(s) /\ UNCHANGED <<pc, rc, evVars, progVars, resetAt, threads>>
    BY <1>9, <2>3 DEF Evict, FlushOk, progVars
  <2> QED BY <2>1, <2>2, <2>3
<1>10. CASE EventDone
  BY <1>10, <1>1 DEF EventDone, CacheUnchanged, cacheVars, asyncVars, destVars, progVars
<1>11. CASE NextEntry
  BY <1>11 DEF NextEntry, CacheUnchanged, cacheVars, asyncVars, destVars, progVars
<1>12. CASE EndOfArchive
  BY <1>12 DEF EndOfArchive, CacheUnchanged, cacheVars, asyncVars, destVars, progVars
<1>13. CASE StartErrorHandler \/ ErrorHandlerFailed
  BY <1>13, <1>1 DEF StartErrorHandler, ErrorHandlerFailed, block_cache_reset, destVars, progVars, Counters
<1>14. CASE CloseFs
  BY <1>14 DEF CloseFs, CacheUnchanged, cacheVars, asyncVars, destVars, progVars
<1>19. CASE fatfs_closefs
  <2>1. /\ UNCHANGED <<pc, rc, resetAt, complete, flying>> /\ fat' \in {fat, None}
        /\ faults' \in {faults, faults + 1}
    BY <1>19 DEF fatfs_closefs, FlushOk, FlushBad, destVars, progVars
  <2> QED BY <2>1, <1>1 DEF Counters
<1>15. CASE block_cache_flush
  <2>1. faults' \in {faults, faults + 1}
    BY <1>15 DEF block_cache_flush, FlushOk, FlushBad, destVars
  <2> QED BY <1>15, <2>1, <1>1 DEF block_cache_flush, progVars, Counters
<1>16. CASE block_cache_free
  BY <1>16 DEF block_cache_free, CacheUnchanged, asyncVars, destVars
<1>17. CASE writer_worker
  BY <1>17, <1>1 DEF writer_worker, cacheVars, progVars, Counters
<1>18. CASE UNCHANGED vars
  BY <1>18 DEF vars, cacheVars, progVars, asyncVars, destVars
<1> QED BY <1>2, <1>5, <1>6, <1>7, <1>8, <1>9, <1>10, <1>11, <1>12, <1>13, <1>14, <1>15, <1>16,
           <1>17, <1>18, <1>19 DEF Next, MainStep, Done

----------------------------------------------------------------------------
(* Where the handlers' writes are                                          *)

LEMMA NotNone ==
  /\ \A e \in Event : e # None
  /\ \A r \in [seg : Segs, val : Event] : r # None
  /\ \A r \in [block : Blocks, val : Event] : r # None
BY ApplyAssumption DEF Value

LEMMA SegTyped == \A b \in Blocks : SegOf[b] \in Segs
BY ApplyAssumption

\* What flush_segment does to every block, and to the counter of failures.
LEMMA FlushGood ==
  ASSUME Contents, NEW s \in Segs, FlushOk(s)
  PROVE  /\ ~bad_offset /\ UNCHANGED <<bad_offset, faults>>
         /\ \A b \in Blocks :
              /\ dirty'[b] = IF SegOf[b] = s THEN None ELSE dirty[b]
              /\ media'[b] = IF SegOf[b] = s /\ dirty[b] # None THEN dirty[b] ELSE media[b]
<1>1. \A b \in Blocks : dirty'[b] = IF SegOf[b] = s THEN None ELSE dirty[b] BY FlushTyped
<1> QED BY <1>1 DEF FlushOk

LEMMA FlushWrong ==
  ASSUME Contents, NEW s \in Segs, FlushBad(s)
  PROVE  /\ \/ faults' = faults + 1 /\ ~bad_offset
            \/ faults' = faults /\ bad_offset /\ bad_offset'
         /\ bad_offset' \in {bad_offset, threads}
         /\ bad_offset => bad_offset' /\ UNCHANGED media
         /\ \A b \in Blocks :
              /\ dirty'[b] = IF SegOf[b] = s THEN None ELSE dirty[b]
              /\ media'[b] = media[b] \/ (SegOf[b] = s /\ media'[b] = "torn")
         /\ \/ UNCHANGED media
            \/ \A b \in Blocks : SegOf[b] = s => media'[b] = "torn"
<1>1. \A b \in Blocks : dirty'[b] = IF SegOf[b] = s THEN None ELSE dirty[b] BY FlushTyped
<1>2. \A b \in Blocks : Fill(media, s, "torn")[b] = IF SegOf[b] = s THEN "torn" ELSE media[b]
  BY DEF Fill
<1> QED BY <1>1, <1>2 DEF FlushBad

\* The outcomes of stream_run: refused because of an earlier failure, handed to
\* the writer thread, written at once, failed, kept in the cache.
StreamRefused ==
  /\ bad_offset /\ EventFails
  /\ UNCHANGED <<fat, dirty, last_access, timestamp, flying, bad_offset, media, faults, want>>
Streams ==
  /\ last_access' = [last_access EXCEPT ![seg] = timestamp] /\ timestamp' = timestamp + 1
  /\ \A b \in Blocks : want'[b] = IF SegOf[b] = seg THEN pc ELSE want[b]
  /\ fat' = fat
StreamHanded ==
  /\ threads /\ ~bad_offset /\ flying = None
  /\ flying' = [seg |-> seg, val |-> pc]
  /\ \A b \in Blocks : dirty'[b] = IF SegOf[b] = seg THEN None ELSE dirty[b]
  /\ Streams /\ FunDone
  /\ UNCHANGED <<media, faults, bad_offset>>
StreamWritten ==
  /\ ~threads
  /\ \A b \in Blocks : /\ media'[b] = IF SegOf[b] = seg THEN pc ELSE media[b]
                       /\ dirty'[b] = IF SegOf[b] = seg THEN None ELSE dirty[b]
  /\ Streams /\ FunDone
  /\ UNCHANGED <<flying, faults, bad_offset>>
StreamFailed ==
  /\ ~threads /\ faults' = faults + 1
  /\ \A b \in Blocks : /\ media'[b] = IF SegOf[b] = seg THEN "torn" ELSE media[b]
                       /\ dirty'[b] = IF SegOf[b] = seg THEN pc ELSE dirty[b]
  /\ Streams /\ EventFails
  /\ UNCHANGED <<flying, bad_offset>>
StreamKept ==
  /\ IsDirty(seg) /\ ~InFlight(seg)
  /\ \A b \in Blocks : dirty'[b] = IF SegOf[b] = seg THEN pc ELSE dirty[b]
  /\ Streams /\ FunDone
  /\ UNCHANGED <<media, flying, faults, bad_offset>>

LEMMA StreamCases ==
  stream_run => /\ InEvent /\ f.op = "stream"
                /\ StreamRefused \/ StreamHanded \/ StreamWritten \/ StreamFailed \/ StreamKept
<1>1. \A m, s, v : \A b \in Blocks : Fill(m, s, v)[b] = IF SegOf[b] = s THEN v ELSE m[b]
  BY DEF Fill
<1> QED BY <1>1 DEF stream_run, StreamRefused, Streams, StreamHanded, StreamWritten, StreamFailed,
       StreamKept, Use, asyncVars, destVars

\* The outcomes of fatfs_closefs: the sector goes to the cache, cannot be read,
\* or needs room, which flushes a segment or fails.
CloseStores ==
  /\ ~InFlight(SegOf[fat.block])
  /\ \A b \in Blocks : /\ dirty'[b] = IF b = fat.block THEN fat.val ELSE dirty[b]
                       /\ want'[b] = IF b = fat.block THEN fat.val ELSE want[b]
  /\ last_access' = [last_access EXCEPT ![SegOf[fat.block]] = timestamp]
  /\ timestamp' = timestamp + 1
  /\ fat' = None
  /\ UNCHANGED <<bad_offset, media, faults>>
CloseCannotRead ==
  /\ faults' = faults + 1 /\ fat' = None
  /\ UNCHANGED <<dirty, want, last_access, timestamp, bad_offset, media>>
CloseEvicts ==
  /\ UNCHANGED <<want, last_access, timestamp>>
  /\ \E s \in Dirty : /\ LeastRecent(s)
                      /\ (FlushOk(s) /\ fat' = fat) \/ (FlushBad(s) /\ fat' = None)

LEMMA CloseCases ==
  TypeOK /\ fatfs_closefs =>
    /\ UNCHANGED <<pc, rc, task, funs, archive, current, processed, complete, flying, resetAt, threads>>
    /\ fat # None /\ fat.block \in Blocks /\ fat.val \in Event /\ SegOf[fat.block] \in Segs
    /\ CloseStores \/ CloseCannotRead \/ CloseEvicts
<1> SUFFICES ASSUME TypeOK, fatfs_closefs
             PROVE  /\ UNCHANGED <<pc, rc, task, funs, archive, current, processed, complete, flying, resetAt, threads>>
                    /\ fat # None /\ fat.block \in Blocks /\ fat.val \in Event /\ SegOf[fat.block] \in Segs
                    /\ CloseStores \/ CloseCannotRead \/ CloseEvicts
  OBVIOUS
<1>1. Contents BY TypeParts
<1>2. fat # None /\ fat \in [block : Blocks, val : Event] BY <1>1 DEF fatfs_closefs, Contents
<1>3. fat.block \in Blocks /\ fat.val \in Event BY <1>2
<1>4. \A b \in Blocks : /\ [dirty EXCEPT ![fat.block] = fat.val][b] = IF b = fat.block THEN fat.val ELSE dirty[b]
                        /\ [want EXCEPT ![fat.block] = fat.val][b] = IF b = fat.block THEN fat.val ELSE want[b]
  BY <1>1, <1>3 DEF Contents
<1>5. CloseStores \/ CloseCannotRead \/ CloseEvicts
  BY <1>4 DEF fatfs_closefs, CloseStores, CloseCannotRead, CloseEvicts, Use, destVars
<1> QED BY <1>2, <1>3, <1>5, SegTyped DEF fatfs_closefs, evVars, progVars

LEMMA HeldKept ==
  TypeOK /\ NoThreads /\ Phases /\ Held /\ AfterReset /\ [Next]_vars => Held'
<1> SUFFICES ASSUME TypeOK, NoThreads, Phases, Held, AfterReset, [Next]_vars PROVE Held' OBVIOUS
<1>1. Flags /\ Control /\ Counters /\ Contents BY TypeParts
<1>2. InEvent => /\ f.block \in Blocks /\ seg \in Segs /\ seg = SegOf[f.block]
                 /\ pc \in Event /\ pc # None /\ fat = None
                 /\ pc = "on-error" \/ (rc = "ok" /\ resetAt = -1)
  BY <1>1, NextFunTyped, NotNone DEF Control, InEvent, seg, Phases, Event
<1>3. InEvent => [seg |-> seg, val |-> pc] # None
  BY <1>2, NotNone
<1>4. \A b \in Blocks : SegOf[b] \in Segs BY SegTyped
<1>5. \A s \in Segs : last_access[s] \in Nat BY <1>1 DEF Counters
<1>6. faults \in Nat /\ timestamp \in Nat /\ resetAt \in Nat \cup {-1} BY <1>1 DEF Counters
<1>a. ASSUME UNCHANGED <<dirty, last_access, timestamp, flying, media, want>>, Sound' => Sound,
             pc' \in {"free", "done"} /\ Sound' => pc \in {"free", "done"} \/ Dirty = {}
      PROVE  Held'
  <2>1. Dirty = {} => \A b \in Blocks : dirty[b] = None BY <1>4 DEF Dirty, IsDirty
  <2> QED BY <1>a, <2>1 DEF Held, InFlight
<1>7. CASE fwup_apply
  <2>1. UNCHANGED <<dirty, last_access, timestamp, flying, media, want, bad_offset, faults, resetAt, fat>>
    BY <1>7 DEF fwup_apply, cacheVars, asyncVars, destVars
  <2>2. rc = "ok" /\ resetAt = -1 /\ fat = None BY <1>7, <1>1 DEF fwup_apply, Phases, Control
  <2>3. Sound' => Sound BY <2>1, <2>2 DEF Sound
  <2>4. pc' \in {"free", "done"} => ~Sound'
    BY <1>6, <1>7, <2>1, <2>2 DEF fwup_apply, Sound
  <2> QED BY <1>a, <2>1, <2>3, <2>4
<1>8. CASE write_run
  <2>1. Sound' => Sound BY <1>2, <1>8 DEF write_run, FunDone, Sound, asyncVars, destVars, InEvent, Event
  <2>2. pc' \notin {"free", "done"} BY <1>2, <1>8 DEF write_run, FunDone, Event
  <2>3. /\ ~InFlight(seg)
        /\ \A b \in Blocks : /\ dirty'[b] = IF b = f.block THEN pc ELSE dirty[b]
                             /\ want'[b] = IF b = f.block THEN pc ELSE want[b]
    BY <1>1, <1>8 DEF write_run, Contents
  <2>4. UNCHANGED <<flying, media>> BY <1>8 DEF write_run, asyncVars, destVars
  <2>5. \A b \in Blocks : dirty'[b] # None => last_access'[SegOf[b]] < timestamp'
    BY <1>1, <1>2, <1>4, <1>5, <1>6, <1>8, <2>3 DEF write_run, Use, Held, Counters
  <2>6. InEvent BY <1>8 DEF write_run
  <2> QED BY <1>2, <2>1, <2>2, <2>3, <2>4, <2>5, <2>6 DEF Held, InFlight
<1>9. CASE read_run
  <2>1. UNCHANGED <<dirty, flying, media, want, bad_offset, fat>> BY <1>9 DEF read_run, asyncVars
  <2>2. Sound' => Sound
    BY <1>2, <1>6, <1>9, <2>1 DEF read_run, FunDone, EventFails, Sound, InEvent, Event, Phases
  <2>3. pc' \notin {"free", "done"} BY <1>2, <1>9 DEF read_run, FunDone, EventFails, Event
  <2>5. \A b \in Blocks : dirty'[b] # None => last_access'[SegOf[b]] < timestamp'
    BY <1>1, <1>2, <1>4, <1>5, <1>6, <1>9, <2>1 DEF read_run, Use, Held, Counters
  <2> QED BY <2>1, <2>2, <2>3, <2>5 DEF Held, InFlight
<1>10. CASE stream_run
  <2>0. InEvent BY <1>10, StreamCases
  <2>1. pc' \notin {"free", "done"}
    BY <1>2, <1>10, <2>0 DEF stream_run, FunDone, EventFails, Event
  <2>2. Streams => \A b \in Blocks : dirty[b] # None \/ SegOf[b] = seg => last_access'[SegOf[b]] < timestamp'
    BY <1>1, <1>2, <1>4, <1>5, <1>6, <2>0 DEF Streams, Held, Counters
  <2>3. CASE StreamRefused
    <3>1. ~Sound' BY <2>3 DEF StreamRefused, Sound
    <3> QED BY <1>a, <2>3, <3>1 DEF StreamRefused
  <2>4. CASE StreamHanded
    <3>1. Sound' => Sound BY <1>2, <2>0, <2>4 DEF StreamHanded, Streams, FunDone, Sound, InEvent, Event
    <3> QED BY <1>2, <1>3, <2>0, <2>1, <2>2, <2>4, <3>1 DEF StreamHanded, Streams, Held, InFlight
  <2>5. CASE StreamWritten
    <3>1. Sound' => Sound BY <1>2, <2>0, <2>5 DEF StreamWritten, Streams, FunDone, Sound, InEvent, Event
    <3>2. flying = None BY <2>5 DEF StreamWritten, NoThreads
    <3> QED BY <1>2, <2>0, <2>1, <2>2, <2>5, <3>1, <3>2 DEF StreamWritten, Streams, Held, InFlight
  <2>6. CASE StreamFailed
    <3>1. ~Sound' BY <1>2, <1>6, <2>0, <2>6 DEF StreamFailed, Streams, EventFails, Sound, Phases
    <3>2. flying = None BY <2>6 DEF StreamFailed, NoThreads
    <3> QED BY <1>2, <2>0, <2>2, <2>6, <3>1, <3>2 DEF StreamFailed, Streams, Held, InFlight
  <2>7. CASE StreamKept
    <3>1. Sound' => Sound BY <1>2, <2>0, <2>7 DEF StreamKept, Streams, FunDone, Sound, InEvent, Event
    <3> QED BY <1>2, <2>0, <2>1, <2>2, <2>7, <3>1 DEF StreamKept, Streams, Held, InFlight
  <2> QED BY <1>10, <2>3, <2>4, <2>5, <2>6, <2>7, StreamCases
<1>11. CASE full_run \/ error_run
  <2>1. UNCHANGED <<dirty, last_access, timestamp, flying, media, want, bad_offset, faults>>
        /\ InEvent /\ EventFails
    BY <1>11 DEF full_run, error_run, asyncVars, destVars, cacheVars
  <2>2. Sound' => Sound BY <1>2, <1>6, <2>1 DEF Sound, EventFails
  <2>3. pc' \notin {"free", "done"} BY <2>1 DEF EventFails
  <2> QED BY <1>a, <2>1, <2>2, <2>3
\* A segment has been flushed, with the outcome that FlushGood or FlushWrong says.
<1>b. ASSUME NEW s \in Segs, FlushOk(s), UNCHANGED <<last_access, timestamp, flying, want>>, Sound' => Sound,
             pc' \notin {"free", "done"}
      PROVE  Held'
  <2>1. \A b \in Blocks :
          /\ dirty'[b] = IF SegOf[b] = s THEN None ELSE dirty[b]
          /\ media'[b] = IF SegOf[b] = s /\ dirty[b] # None THEN dirty[b] ELSE media[b]
    BY <1>1, <1>b, FlushGood
  <2> QED BY <1>b, <2>1 DEF Held, InFlight
<1>c. ASSUME NEW s \in Segs, FlushBad(s), UNCHANGED <<last_access, timestamp, flying, want>>, ~Sound'
      PROVE  Held'
  <2>1. \A b \in Blocks : dirty'[b] = IF SegOf[b] = s THEN None ELSE dirty[b]
    BY <1>1, <1>c, FlushWrong
  <2> QED BY <1>c, <2>1 DEF Held, InFlight
<1>d. ASSUME NEW s \in Segs, FlushBad(s), resetAt' = resetAt, rc' = "error", fat' = None
      PROVE  ~Sound'
  <2>1. \/ faults' = faults + 1
        \/ bad_offset'
    BY <1>1, <1>d, FlushWrong
  <2> QED BY <1>6, <1>d, <2>1 DEF Sound, Phases
<1>12. CASE Evict
  <2>1. PICK s \in Dirty :
          \/ FlushOk(s) /\ UNCHANGED <<pc, rc, evVars, progVars, resetAt, threads>>
          \/ FlushBad(s) /\ EventFails
    BY <1>12 DEF Evict
  <2>2. s \in Segs /\ InEvent /\ UNCHANGED <<fat, last_access, timestamp, flying, want>>
    BY <1>12 DEF Evict, Dirty
  <2>3. CASE FlushOk(s) /\ UNCHANGED <<pc, rc, evVars, progVars, resetAt, threads>>
    <3>1. Sound' => Sound BY <2>2, <2>3 DEF FlushOk, Sound
    <3> QED BY <1>2, <1>b, <2>2, <2>3, <3>1 DEF Event
  <2>4. CASE FlushBad(s) /\ EventFails
    BY <1>2, <1>c, <1>d, <2>2, <2>4 DEF EventFails
  <2> QED BY <2>1, <2>3, <2>4
<1>13. CASE fatfs_closefs
  <2>0. /\ UNCHANGED <<pc, rc, flying, resetAt>> /\ pc \in {"failed", "failed_again"}
        /\ fat # None /\ fat.block \in Blocks /\ fat.val \in Event /\ SegOf[fat.block] \in Segs
        /\ fat.val # None
    BY <1>13, CloseCases, NotNone DEF Phases
  <2>a. pc = "failed" => resetAt = -1 BY DEF Phases
  <2>b. rc = "error" BY <2>0 DEF Phases
  <2>1. CASE CloseStores
    <3>1. Sound' => Sound BY <1>6, <2>0, <2>1, <2>a, <2>b DEF CloseStores, Sound
    <3>2. \A b \in Blocks : dirty[b] # None \/ SegOf[b] = SegOf[fat.block] => last_access'[SegOf[b]] < timestamp'
      BY <1>1, <1>4, <1>5, <1>6, <2>0, <2>1 DEF CloseStores, Held, Counters
    <3> QED BY <2>0, <2>1, <3>1, <3>2 DEF CloseStores, Held, InFlight
  <2>2. CASE CloseCannotRead
    <3>1. ~Sound' BY <1>6, <2>0, <2>2, <2>b DEF CloseCannotRead, Sound, Phases
    <3> QED BY <1>a, <2>0, <2>2, <3>1 DEF CloseCannotRead
  <2>3. CASE CloseEvicts
    <3>1. PICK s \in Dirty : (FlushOk(s) /\ fat' = fat) \/ (FlushBad(s) /\ fat' = None)
      BY <2>3 DEF CloseEvicts
    <3>2. s \in Segs /\ UNCHANGED <<last_access, timestamp, want>> BY <2>3 DEF CloseEvicts, Dirty
    <3>3. CASE FlushOk(s) /\ fat' = fat
      <4>1. Sound' => Sound BY <2>0, <3>3 DEF FlushOk, Sound
      <4> QED BY <1>b, <2>0, <3>2, <3>3, <4>1
    <3>4. CASE FlushBad(s) /\ fat' = None
      BY <1>c, <1>d, <2>0, <2>b, <3>2, <3>4
    <3> QED BY <3>1, <3>3, <3>4
  <2> QED BY <1>13, <2>1, <2>2, <2>3, CloseCases
<1>14. CASE EventDone \/ NextEntry \/ EndOfArchive \/ CloseFs
  <2>1. UNCHANGED <<dirty, last_access, timestamp, flying, media, want, bad_offset, faults, fat, resetAt>>
    BY <1>14 DEF EventDone, NextEntry, EndOfArchive, CloseFs, CacheUnchanged, cacheVars, asyncVars, destVars
  <2>2. pc' \notin {"free", "done"} BY <1>14 DEF EventDone, NextEntry, EndOfArchive, CloseFs, Event
  <2>3. rc' = rc \/ (rc' = "error" /\ pc = "archive")
    BY <1>14 DEF EventDone, NextEntry, EndOfArchive, CloseFs
  <2>4. pc' = "failed" => pc = "archive"
    BY <1>14 DEF EventDone, NextEntry, EndOfArchive, CloseFs
  <2>5. pc = "archive" => fat = None /\ resetAt = -1 BY DEF Phases
  <2>6. Sound' => Sound BY <1>6, <2>1, <2>3, <2>4, <2>5 DEF Sound
  <2> QED BY <1>a, <2>1, <2>2, <2>6
<1>15. CASE StartErrorHandler \/ ErrorHandlerFailed
  <2>1. flying = None /\ flying' = None /\ want' = media /\ media' = media
        /\ dirty' = [b \in Blocks |-> None]
    BY <1>15 DEF StartErrorHandler, ErrorHandlerFailed, block_cache_reset, destVars
  <2>2. \A b \in Blocks : dirty'[b] = None BY <2>1
  <2> QED BY <2>1, <2>2 DEF Held, InFlight
<1>16. CASE block_cache_flush
  <2>0. UNCHANGED <<last_access, timestamp, flying, want, fat, resetAt>> /\ pc \in {"flush", "last_flush"}
        /\ fat = None
    BY <1>16 DEF block_cache_flush, evVars, Phases
  <2>1. CASE Dirty = {} /\ pc' = "free" /\ UNCHANGED <<rc, dirty, bad_offset, destVars>>
    <3>1. Sound' => Sound BY <2>0, <2>1 DEF Sound, destVars
    <3> QED BY <1>a, <2>0, <2>1, <3>1 DEF destVars
  <2>2. CASE \E s \in Dirty : LeastRecent(s) /\ FlushOk(s) /\ UNCHANGED <<pc, rc>>
    <3>1. PICK s \in Dirty : FlushOk(s) /\ UNCHANGED <<pc, rc>> BY <2>2
    <3>2. Sound' => Sound BY <2>0, <3>1 DEF FlushOk, Sound
    <3>3. s \in Segs BY DEF Dirty
    <3> QED BY <1>b, <2>0, <3>1, <3>2, <3>3
  <2>3. CASE \E s \in Dirty : LeastRecent(s) /\ FlushBad(s) /\ ~UNCHANGED pc
    <3>1. PICK s \in Dirty : FlushBad(s) BY <2>3
    <3>2. rc' = "error" BY <1>16, <2>0, <2>3 DEF block_cache_flush, Phases, FlushOk
    <3>3. s \in Segs BY DEF Dirty
    <3> QED BY <1>c, <1>d, <2>0, <3>1, <3>2, <3>3
  <2> QED BY <1>16, <2>1, <2>2, <2>3 DEF block_cache_flush
<1>17. CASE block_cache_free
  <2>1. UNCHANGED <<last_access, timestamp, flying, media, want, bad_offset, faults, fat, resetAt, rc>>
        /\ pc = "free" /\ pc' = "done" /\ dirty' = [b \in Blocks |-> None]
    BY <1>17 DEF block_cache_free, CacheUnchanged, asyncVars, destVars
  <2>2. \A b \in Blocks : dirty'[b] = None BY <2>1
  <2>3. Sound' => Sound BY <2>1 DEF Sound
  <2> QED BY <2>1, <2>2, <2>3 DEF Held, InFlight
<1>18. CASE writer_worker
  <2>1. UNCHANGED <<pc, rc, dirty, last_access, timestamp, want, resetAt, fat>> /\ flying # None /\ flying' = None
    BY <1>18 DEF writer_worker, cacheVars
  <2>2. pc \notin {"done"} BY <2>1 DEF Phases
  <2>3. Sound' => Sound BY <1>6, <1>18, <2>1 DEF writer_worker, Sound
  <2>4. Sound' => \A b \in Blocks : media'[b] = IF SegOf[b] = flying.seg THEN flying.val ELSE media[b]
    BY <1>1, <1>18 DEF writer_worker, Sound, Fill
  <2> QED BY <2>1, <2>3, <2>4 DEF Held, InFlight
<1>19. CASE UNCHANGED vars
  BY <1>19 DEF vars, cacheVars, asyncVars, destVars, Held, Sound, InFlight
<1> QED BY <1>7, <1>8, <1>9, <1>10, <1>11, <1>12, <1>13, <1>14, <1>15, <1>16, <1>17, <1>18, <1>19
        DEF Next, MainStep, Done

LEMMA AfterResetKept ==
  TypeOK /\ NoThreads /\ Phases /\ Held /\ AfterReset /\ [Next]_vars => AfterReset'
<1> SUFFICES ASSUME TypeOK, NoThreads, Phases, Held, AfterReset, [Next]_vars
             PROVE  AfterReset' OBVIOUS
<1>1. Flags /\ Control /\ Counters /\ Contents BY TypeParts
<1>2. InEvent => /\ f.block \in Blocks /\ seg \in Segs /\ pc \in Event /\ fat = None
                 /\ resetAt # -1 <=> pc = "on-error"
  BY <1>1, NextFunTyped DEF Control, InEvent, Phases, Event
<1>3. faults \in Nat /\ resetAt \in Nat \cup {-1} /\ (resetAt # -1 => resetAt <= faults)
  BY <1>1 DEF Counters, Phases
<1>a. ASSUME UNCHANGED <<dirty, fat, resetAt>>,
             faults' = faults + 1 \/ (faults' = faults /\ (bad_offset' => bad_offset))
      PROVE  AfterReset'
  BY <1>a, <1>3 DEF AfterReset
<1>b. ASSUME NEW s \in Segs, FlushOk(s) \/ FlushBad(s), resetAt' = resetAt, fat' \in {fat, None}
      PROVE  AfterReset'
  <2>1. \A b \in Blocks : dirty'[b] = IF SegOf[b] = s THEN None ELSE dirty[b] BY <1>1, <1>b, FlushTyped
  <2>2. \/ faults' = faults + 1
        \/ faults' = faults /\ bad_offset' = bad_offset
    BY <1>b DEF FlushOk, FlushBad
  <2> QED BY <1>b, <1>3, <2>1, <2>2 DEF AfterReset
<1>4. CASE fwup_apply
  BY <1>a, <1>4 DEF fwup_apply, cacheVars, asyncVars, destVars
<1>5. CASE write_run
  <2>1. \A b \in Blocks : dirty'[b] \in {dirty[b], pc} BY <1>1, <1>5 DEF write_run, Contents
  <2>2. UNCHANGED <<fat, resetAt, faults, bad_offset>> /\ InEvent
    BY <1>5 DEF write_run, FunDone, asyncVars, destVars
  <2> QED BY <1>2, <2>1, <2>2 DEF AfterReset
<1>6. CASE read_run
  BY <1>a, <1>6 DEF read_run, FunDone, EventFails, asyncVars
<1>7. CASE stream_run
  <2>0. InEvent BY <1>7, StreamCases
  <2>1. CASE StreamRefused BY <1>a, <2>1 DEF StreamRefused, EventFails
  <2>2. CASE StreamHanded
    BY <1>2, <2>0, <2>2 DEF StreamHanded, Streams, FunDone, AfterReset
  <2>3. CASE StreamWritten
    BY <1>2, <2>0, <2>3 DEF StreamWritten, Streams, FunDone, AfterReset
  <2>4. CASE StreamFailed
    <3>1. ~bad_offset' BY <2>4 DEF StreamFailed, NoThreads
    <3> QED BY <1>2, <2>0, <2>4, <3>1 DEF StreamFailed, Streams, EventFails, AfterReset
  <2>5. CASE StreamKept
    BY <1>2, <2>0, <2>5 DEF StreamKept, Streams, FunDone, AfterReset
  <2> QED BY <1>7, <2>1, <2>2, <2>3, <2>4, <2>5, StreamCases
<1>8. CASE full_run
  <2>1. UNCHANGED <<dirty, resetAt, faults, bad_offset>> /\ InEvent /\ fat' = [block |-> f.block, val |-> pc]
    BY <1>8 DEF full_run, EventFails, asyncVars, destVars
  <2> QED BY <1>2, <2>1 DEF AfterReset
<1>9. CASE error_run
  BY <1>a, <1>9 DEF error_run, EventFails, asyncVars, destVars, cacheVars
<1>10. CASE Evict
  <2>1. PICK s \in Dirty : FlushOk(s) \/ FlushBad(s) BY <1>10 DEF Evict
  <2>2. s \in Segs /\ UNCHANGED <<fat, resetAt>> BY <1>10 DEF Evict, Dirty, EventFails
  <2> QED BY <1>b, <2>1, <2>2
<1>11. CASE fatfs_closefs
  <2>0. fat # None /\ fat.block \in Blocks /\ resetAt' = resetAt BY <1>11, CloseCases
  <2>1. CASE CloseStores BY <2>0, <2>1 DEF CloseStores, AfterReset
  <2>2. CASE CloseCannotRead BY <1>3, <2>0, <2>2 DEF CloseCannotRead, AfterReset
  <2>3. CASE CloseEvicts
    <3>1. PICK s \in Dirty : (FlushOk(s) /\ fat' = fat) \/ (FlushBad(s) /\ fat' = None)
      BY <2>3 DEF CloseEvicts
    <3>2. s \in Segs BY DEF Dirty
    <3> QED BY <1>b, <2>0, <3>1, <3>2
  <2> QED BY <1>11, <2>1, <2>2, <2>3, CloseCases
<1>12. CASE EventDone \/ NextEntry \/ EndOfArchive \/ CloseFs
  BY <1>a, <1>12 DEF EventDone, NextEntry, EndOfArchive, CloseFs, CacheUnchanged, cacheVars, asyncVars, destVars
<1>13. CASE StartErrorHandler \/ ErrorHandlerFailed
  <2>1. dirty' = [b \in Blocks |-> None] /\ ~bad_offset' /\ fat' = None
    BY <1>13 DEF StartErrorHandler, ErrorHandlerFailed, block_cache_reset
  <2>2. \A b \in Blocks : dirty'[b] = None BY <2>1
  <2> QED BY <2>1, <2>2 DEF AfterReset
<1>14. CASE block_cache_flush
  <2>1. UNCHANGED <<fat, resetAt>> BY <1>14 DEF block_cache_flush
  <2>2. CASE \E s \in Dirty : FlushOk(s) \/ FlushBad(s)
    BY <1>b, <2>1, <2>2 DEF Dirty
  <2>3. CASE UNCHANGED <<dirty, bad_offset, destVars>>
    BY <1>a, <2>1, <2>3 DEF destVars
  <2> QED BY <1>14, <2>2, <2>3 DEF block_cache_flush
<1>15. CASE block_cache_free
  <2>1. UNCHANGED <<fat, resetAt, faults, bad_offset>> /\ dirty' = [b \in Blocks |-> None]
    BY <1>15 DEF block_cache_free, CacheUnchanged, asyncVars, destVars
  <2>2. \A b \in Blocks : dirty'[b] = None BY <2>1
  <2> QED BY <2>1, <2>2 DEF AfterReset
<1>16. CASE writer_worker
  BY <1>a, <1>16 DEF writer_worker, cacheVars
<1>17. CASE UNCHANGED vars
  BY <1>17 DEF vars, cacheVars, asyncVars, destVars, AfterReset
<1> QED BY <1>4, <1>5, <1>6, <1>7, <1>8, <1>9, <1>10, <1>11, <1>12, <1>13, <1>14, <1>15, <1>16, <1>17
        DEF Next, MainStep, Done

----------------------------------------------------------------------------
(* The on-error handler                                                    *)

\* A function of the on-error handler has run.
LEMMA ErrorRanNext ==
  ASSUME TypeOK, InEvent, pc = "on-error", ErrorRan, funs' = Tail(funs), task' = task,
         \A b \in Blocks : want[b] = "on-error" \/ Writes(f, b) => want'[b] = "on-error"
  PROVE  ErrorRan'
<1> DEFINE n == Len(task.error) - Len(funs)
<1>1. task.error \in Seq(Fun) /\ funs \in Seq(Fun) BY TaskTyped DEF TypeOK
<1>2. Len(task.error) \in Nat /\ Len(funs) \in Nat BY <1>1
<1>3. /\ f = funs[1] /\ Len(funs') = Len(funs) - 1 /\ Len(funs) # 0
      /\ \A i \in 1 .. Len(funs) - 1 : funs'[i] = funs[i + 1]
  BY <1>1, NextFunTyped DEF InEvent
<1>4. n \in Nat /\ n + 1 \in 1 .. Len(task.error) BY <1>2, <1>3 DEF ErrorRan
<1>5. f = task.error[n + 1] BY <1>2, <1>3 DEF ErrorRan
<1>6. \A i \in 1 .. Len(funs') : funs'[i] = task.error[Len(task.error) - Len(funs') + i]
  BY <1>2, <1>3 DEF ErrorRan
<1>7. ASSUME NEW i \in 1 .. n + 1, NEW b \in Blocks, Writes(task.error[i], b)
      PROVE  want'[b] = "on-error"
  <2>1. CASE i = n + 1 BY <1>5, <1>7, <2>1
  <2>2. CASE i # n + 1
    <3>1. i \in 1 .. n BY <1>4, <2>2
    <3> QED BY <1>7, <3>1 DEF ErrorRan
  <2> QED BY <2>1, <2>2
<1>8. Len(task'.error) - Len(funs') = n + 1 BY <1>2, <1>3
<1> QED BY <1>2, <1>3, <1>6, <1>7, <1>8 DEF ErrorRan

\* A function of an on-error handler that cannot fail by itself.
LEMMA ErrorFun ==
  ASSUME TypeOK, InEvent, pc = "on-error", ErrorRan, ErrorCannotFail
  PROVE  f.op \in {"stream", "write", "read"}
<1>1. task.error \in Seq(Fun) /\ funs \in Seq(Fun) BY TaskTyped DEF TypeOK
<1>2. Len(task.error) \in Nat /\ Len(funs) \in Nat BY <1>1
<1>3. f = funs[1] /\ Len(funs) # 0 BY <1>1, NextFunTyped DEF InEvent
<1>4. f = task.error[Len(task.error) - Len(funs) + 1] BY <1>2, <1>3 DEF ErrorRan
<1>5. Len(task.error) - Len(funs) + 1 \in DOMAIN task.error BY <1>1, <1>2, <1>3 DEF ErrorRan
<1> QED BY <1>4, <1>5 DEF ErrorCannotFail

LEMMA OnErrorKept ==
  TypeOK /\ NoThreads /\ Phases /\ AfterReset /\ OnError /\ [Next]_vars => OnError'
<1> SUFFICES ASSUME TypeOK, NoThreads, Phases, AfterReset, OnError, [Next]_vars
             PROVE  OnError' OBVIOUS
<1>1. Control /\ Counters /\ Contents BY TypeParts
<1>2. InEvent => f.block \in Blocks /\ seg = SegOf[f.block] /\ pc \in Event
  BY <1>1, NextFunTyped DEF Control, InEvent, seg
<1>3. resetAt # faults => resetAt # faults + 1 BY <1>1 DEF Counters, Phases
<1>4. ASSUME UNCHANGED <<task, resetAt>>, ErrorCannotFail' PROVE ErrorCannotFail
  BY <1>4 DEF ErrorCannotFail
<1>5. ASSUME InEvent, FunDone, faults' = faults,
             \A b \in Blocks : want'[b] = IF Writes(f, b) THEN pc ELSE want[b]
      PROVE  OnError'
  <2>1. pc \in Event BY <1>5, <1>2
  <2>2. pc = "on-error" => ErrorRan'
    BY <1>5, ErrorRanNext DEF FunDone, OnError
  <2> QED BY <1>5, <2>1, <2>2 DEF FunDone, OnError, Event
<1>6. ASSUME InEvent, EventFails, faults' = faults + 1
      PROVE  OnError'
  BY <1>1, <1>2, <1>3, <1>6 DEF EventFails, OnError, Phases, Counters
<1>7. CASE fwup_apply
  BY <1>1, <1>7 DEF fwup_apply, destVars, OnError, Phases, Counters
<1>8. CASE write_run
  <2>1. \A b \in Blocks : want'[b] = IF Writes(f, b) THEN pc ELSE want[b]
    BY <1>1, <1>8 DEF write_run, Contents, Writes
  <2> QED BY <1>5, <1>8, <2>1 DEF write_run, destVars
<1>9. CASE read_run
  <2>1. \A b \in Blocks : want'[b] = IF Writes(f, b) THEN pc ELSE want[b]
    BY <1>9 DEF read_run, Writes
  <2> QED BY <1>5, <1>6, <1>9, <2>1 DEF read_run
<1>10. CASE stream_run
  <2>1. InEvent /\ f.op = "stream" BY <1>10, StreamCases
  <2>2. CASE StreamRefused
    <3>1. resetAt # faults BY <2>2 DEF StreamRefused, AfterReset
    <3> QED BY <2>1, <2>2, <3>1 DEF StreamRefused, EventFails, OnError
  <2>a. Streams => \A b \in Blocks : want'[b] = IF Writes(f, b) THEN pc ELSE want[b]
    BY <1>2, <2>1 DEF Streams, Writes
  <2>3. CASE StreamHanded \/ StreamWritten \/ StreamKept
    BY <1>5, <2>1, <2>3, <2>a DEF StreamHanded, StreamWritten, StreamKept
  <2>4. CASE StreamFailed BY <1>6, <2>1, <2>4 DEF StreamFailed
  <2> QED BY <1>10, <2>2, <2>3, <2>4, StreamCases
<1>11. CASE full_run \/ error_run
  <2>1. InEvent /\ EventFails /\ f.op \in {"full", "error"} /\ task' = task
    BY <1>11 DEF full_run, error_run, EventFails
  <2>2. pc = "on-error" => ~ErrorCannotFail BY <2>1, ErrorFun DEF OnError
  <2>3. ErrorCannotFail' => ErrorCannotFail BY <2>1 DEF ErrorCannotFail
  <2> QED BY <2>1, <2>2, <2>3 DEF EventFails, OnError
<1>12. CASE Evict
  <2>1. PICK s \in Dirty :
          \/ FlushOk(s) /\ UNCHANGED <<pc, rc, evVars, progVars, resetAt, threads>>
          \/ FlushBad(s) /\ EventFails
    BY <1>12 DEF Evict
  <2>2. CASE FlushOk(s) /\ UNCHANGED <<pc, rc, evVars, progVars, resetAt, threads>>
    <3>1. UNCHANGED <<pc, task, funs, want, faults, resetAt>>
      BY <1>12, <2>2 DEF Evict, FlushOk, evVars
    <3> QED BY <3>1 DEF OnError, ErrorRan, ErrorWrote, ErrorCannotFail
  <2>3. CASE FlushBad(s) /\ EventFails
    <3>1. CASE faults' = faults + 1 BY <1>6, <1>12, <2>3, <3>1 DEF Evict
    <3>2. CASE bad_offset /\ faults' = faults
      <4>1. resetAt # faults BY <3>2 DEF AfterReset
      <4> QED BY <2>3, <3>2, <4>1 DEF EventFails, OnError
    <3> QED BY <2>3, <3>1, <3>2 DEF FlushBad
  <2> QED BY <2>1, <2>2, <2>3
<1>a. CASE fatfs_closefs
  <2>1. UNCHANGED <<pc, task, resetAt>> /\ pc \in {"failed", "failed_again"}
    BY <1>a, CloseCases DEF Phases
  <2>2. faults' \in {faults, faults + 1}
    BY <1>a DEF fatfs_closefs, FlushOk, FlushBad, destVars
  <2> QED BY <1>3, <2>1, <2>2 DEF OnError, ErrorCannotFail
<1>13. CASE EventDone
  <2>1. UNCHANGED <<task, funs, want, faults, resetAt>> /\ pc \in Event /\ funs = <<>>
    BY <1>13 DEF EventDone, CacheUnchanged, destVars
  <2>2. pc = "on-error" => ErrorWrote'
    <3>1. task.error \in Seq(Fun) BY <1>1, TaskTyped DEF Control
    <3>2. Len(funs) = 0 BY <2>1
    <3>3. pc = "on-error" => \A i \in 1 .. Len(task.error) : \A b \in Blocks :
            Writes(task.error[i], b) => want[b] = "on-error"
      BY <3>1, <3>2 DEF OnError, ErrorRan
    <3> QED BY <2>1, <3>1, <3>3 DEF ErrorWrote
  <2> QED BY <1>13, <2>1, <2>2 DEF EventDone, OnError
<1>14. CASE NextEntry
  BY <1>1, <1>14 DEF NextEntry, OnError, CacheUnchanged, destVars, Phases, Counters
<1>15. CASE EndOfArchive
  BY <1>1, <1>15 DEF EndOfArchive, OnError, CacheUnchanged, destVars, Phases, Counters
<1>16. CASE StartErrorHandler
  <2>1. task.error \in Seq(Fun) BY <1>1, TaskTyped DEF Control
  <2>2. pc' = "on-error" /\ funs' = task.error /\ task' = task BY <1>16 DEF StartErrorHandler
  <2>3. ErrorRan' BY <2>1, <2>2 DEF ErrorRan
  <2> QED BY <2>2, <2>3 DEF OnError
<1>17. CASE ErrorHandlerFailed
  <2>1. UNCHANGED <<task, faults, resetAt>> /\ pc = "failed_again" /\ pc' = "cleanup"
    BY <1>17 DEF ErrorHandlerFailed, evVars, destVars
  <2> QED BY <2>1 DEF OnError, ErrorCannotFail
<1>18. CASE CloseFs
  <2>1. UNCHANGED <<task, want, faults, resetAt>>
        /\ pc \in {"close", "cleanup"} /\ pc' \in {"flush", "last_flush"}
        /\ (pc = "close" <=> pc' = "flush")
    BY <1>18 DEF CloseFs, evVars, CacheUnchanged, destVars
  <2> QED BY <2>1 DEF OnError, ErrorCannotFail, ErrorWrote
<1>19. CASE block_cache_flush
  <2>1. UNCHANGED <<task, want, resetAt>> /\ pc \in {"flush", "last_flush"}
        /\ pc' \in {"flush", "last_flush", "free", "cleanup"} /\ faults' \in {faults, faults + 1}
    BY <1>19 DEF block_cache_flush, evVars, FlushOk, FlushBad, destVars
  <2>2. pc = "flush" => resetAt = -1 BY DEF Phases
  <2> QED BY <1>1, <1>3, <2>1, <2>2 DEF OnError, ErrorCannotFail, ErrorWrote, Counters
<1>20. CASE block_cache_free
  <2>1. UNCHANGED <<task, want, faults, resetAt>> /\ pc = "free" /\ pc' = "done"
    BY <1>20 DEF block_cache_free, evVars, CacheUnchanged, destVars
  <2> QED BY <2>1 DEF OnError, ErrorCannotFail, ErrorWrote
<1>21. CASE writer_worker
  <2>1. UNCHANGED <<pc, task, funs, want, resetAt>> /\ faults' \in {faults, faults + 1}
    BY <1>21 DEF writer_worker, evVars
  <2> QED BY <1>3, <2>1 DEF OnError, ErrorCannotFail, ErrorRan, ErrorWrote
<1>22. CASE UNCHANGED vars
  <2>1. UNCHANGED <<pc, task, funs, want, faults, resetAt>>
    BY <1>22 DEF vars, evVars, destVars
  <2> QED BY <2>1 DEF OnError, ErrorCannotFail, ErrorRan, ErrorWrote
<1> QED BY <1>7, <1>8, <1>9, <1>10, <1>11, <1>12, <1>a, <1>13, <1>14, <1>15, <1>16, <1>17, <1>18, <1>19,
           <1>20, <1>21, <1>22 DEF Next, MainStep, Done

----------------------------------------------------------------------------
(* The segments of the earlier handlers                                    *)

LEMMA TaskKept ==
  [Next]_vars => fwup_apply \/ (task' = task /\ (pc' = "start" => pc = "start"))
<1> SUFFICES ASSUME [Next]_vars, ~fwup_apply PROVE task' = task /\ (pc' = "start" => pc = "start")
  OBVIOUS
<1>1. CASE write_run \/ read_run \/ stream_run \/ full_run \/ error_run \/ Evict
  BY <1>1 DEF write_run, read_run, stream_run, full_run, error_run, Evict, FunDone, EventFails, evVars
<1>2. CASE EventDone \/ NextEntry \/ EndOfArchive \/ StartErrorHandler
  BY <1>2 DEF EventDone, NextEntry, EndOfArchive, StartErrorHandler
<1>3. CASE ErrorHandlerFailed \/ CloseFs \/ block_cache_flush \/ block_cache_free
  BY <1>3 DEF ErrorHandlerFailed, CloseFs, block_cache_flush, block_cache_free, evVars
<1>4. CASE fatfs_closefs \/ writer_worker \/ UNCHANGED vars
  BY <1>4 DEF fatfs_closefs, writer_worker, vars, evVars
<1> QED BY <1>1, <1>2, <1>3, <1>4 DEF Next, MainStep, Done

LEMMA EarlierRunsKept == TypeOK /\ EarlierRuns /\ [Next]_vars => EarlierRuns'
<1> SUFFICES ASSUME TypeOK, EarlierRuns, [Next]_vars PROVE EarlierRuns' OBVIOUS
<1>1. Control BY TypeParts
<1>2. ASSUME task' = task PROVE \A s \in Segs : ChangedEarlier(s)' <=> ChangedEarlier(s)
  BY <1>2 DEF ChangedEarlier, Handled
<1>3. ASSUME task' = task, pc' = "start" => pc = "start", pc' \notin Earlier PROVE EarlierRuns'
  BY <1>2, <1>3 DEF EarlierRuns
<1>4. ASSUME task' = task, pc' = pc, funs' = funs PROVE EarlierRuns'
  BY <1>2, <1>4 DEF EarlierRuns
<1>5. ASSUME task' = task, pc' = pc, funs' = Tail(funs), InEvent PROVE EarlierRuns'
  <2>1. /\ pc # "start" /\ Len(funs') = Len(funs) - 1 /\ Len(funs) \in Nat
        /\ \A i \in 1 .. Len(funs') : funs'[i] = funs[i + 1]
    BY <1>1, <1>5, NextFunTyped DEF Control, InEvent, Event
  <2> QED BY <1>2, <1>5, <2>1 DEF EarlierRuns
<1>6. EventFails => pc' \notin Earlier /\ task' = task /\ pc' # "start" BY DEF EventFails, Earlier
<1>7. CASE fwup_apply
  <2>1. CASE pc' # "on-init"
    BY <1>7, <2>1 DEF fwup_apply, EarlierRuns, Earlier
  <2>2. CASE pc' = "on-init"
    <3>1. funs' = task'.init /\ IsTask(task')
      <4>1. pc # "on-init" /\ pc' # pc BY <1>7, <2>2 DEF fwup_apply
      <4>2. \E l \in TaskLists : \E i \in find_task(l) : task' = l[i] /\ funs' = l[i].init
        BY <1>7, <2>2 DEF fwup_apply
      <4>3. \A l \in TaskLists : \A i \in find_task(l) : IsTask(l[i])
        BY ApplyAssumption DEF find_task
      <4> QED BY <4>2, <4>3
    <3>2. funs' \in Seq(Fun) BY <3>1, TaskTyped
    <3>3. \A i \in 1 .. Len(funs') : i \in DOMAIN task'.init BY <3>1, <3>2
    <3> QED BY <2>2, <3>1, <3>3 DEF EarlierRuns, ChangedEarlier
  <2> QED BY <2>1, <2>2
<1>8. CASE write_run BY <1>5, <1>8 DEF write_run, FunDone
<1>9. CASE read_run BY <1>3, <1>5, <1>6, <1>9 DEF read_run, FunDone
<1>10. CASE stream_run BY <1>3, <1>5, <1>6, <1>10 DEF stream_run, FunDone
<1>11. CASE full_run \/ error_run BY <1>3, <1>6, <1>11 DEF full_run, error_run
<1>12. CASE Evict BY <1>3, <1>4, <1>6, <1>12 DEF Evict, evVars
<1>13. CASE EventDone BY <1>3, <1>13 DEF EventDone, Earlier
<1>14. CASE NextEntry
  <2>1. CASE pc' = "on-resource"
    <3>1. PICK r \in Handled(task) : funs' = task.resources[r] /\ task' = task
      BY <1>14, <2>1 DEF NextEntry
    <3>2. funs' \in Seq(Fun) BY <1>1, <3>1, TaskTyped DEF Control
    <3>3. \A i \in 1 .. Len(funs') : i \in DOMAIN task.resources[r] BY <3>1, <3>2
    <3>4. \A i \in 1 .. Len(funs') : \A s \in Segs : Changes(funs'[i], s) => ChangedEarlier(s)
      BY <3>1, <3>3 DEF ChangedEarlier
    <3> QED BY <1>2, <2>1, <3>1, <3>4 DEF EarlierRuns
  <2>2. CASE pc' # "on-resource"
    <3>1. task' = task /\ pc' \in {pc, "failed"} /\ pc = "archive" BY <1>14, <2>2 DEF NextEntry
    <3> QED BY <1>3, <3>1 DEF Earlier
  <2> QED BY <2>1, <2>2
<1>15. CASE EndOfArchive BY <1>3, <1>15 DEF EndOfArchive, Earlier
<1>16. CASE StartErrorHandler \/ ErrorHandlerFailed
  BY <1>3, <1>16 DEF StartErrorHandler, ErrorHandlerFailed, evVars, Earlier
<1>17. CASE CloseFs \/ block_cache_flush \/ block_cache_free
  <2>1. task' = task /\ pc' \in {"flush", "last_flush", "cleanup", "free", "done"}
    BY <1>17 DEF CloseFs, block_cache_flush, block_cache_free, evVars
  <2> QED BY <1>3, <2>1 DEF Earlier
<1>18. CASE fatfs_closefs \/ writer_worker \/ UNCHANGED vars
  BY <1>4, <1>18 DEF fatfs_closefs, writer_worker, vars, evVars
<1> QED BY <1>7, <1>8, <1>9, <1>10, <1>11, <1>12, <1>13, <1>14, <1>15, <1>16, <1>17, <1>18
        DEF Next, MainStep, Done

LEMMA EarlierPlacesKept ==
  TypeOK /\ EarlierRuns /\ EarlierPlaces /\ [Next]_vars => EarlierPlaces'
<1> SUFFICES ASSUME TypeOK, EarlierRuns, EarlierPlaces, [Next]_vars PROVE EarlierPlaces' OBVIOUS
<1>1. Control /\ Contents BY TypeParts
<1>2. ASSUME task' = task PROVE \A s \in Segs : ChangedEarlier(s)' <=> ChangedEarlier(s)
  BY <1>2 DEF ChangedEarlier, Handled
<1>3. None \notin Earlier /\ "torn" \notin Earlier /\ "old" \notin Earlier
  BY ApplyAssumption DEF Earlier, Value, Event
<1>4. InEvent => /\ f.block \in Blocks /\ seg \in Segs /\ seg = SegOf[f.block]
                 /\ pc \in Earlier /\ f.op \in {"stream", "write", "full"} => ChangedEarlier(seg)
  <2> SUFFICES ASSUME InEvent
               PROVE  /\ f.block \in Blocks /\ seg \in Segs /\ seg = SegOf[f.block]
                      /\ pc \in Earlier /\ f.op \in {"stream", "write", "full"} => ChangedEarlier(seg)
    OBVIOUS
  <2>1. f.block \in Blocks /\ seg \in Segs /\ seg = SegOf[f.block] /\ f = funs[1]
    BY <1>1, NextFunTyped DEF Control, seg
  <2>2. 1 \in 1 .. Len(funs) BY <1>1 DEF Control, InEvent
  <2>3. f.op \in {"stream", "write", "full"} => Changes(f, seg) BY <2>1 DEF Changes
  <2> QED BY <2>1, <2>2, <2>3 DEF EarlierRuns
<1>5. \A b \in Blocks : SegOf[b] \in Segs BY SegTyped
\* What a step may put into a block, into the writer thread's hands, into FatFs.
<1>a. ASSUME task' = task,
             \A b \in Blocks : {dirty'[b], want'[b], media'[b]} \cap Earlier # {} => ChangedEarlier(SegOf[b]),
             flying' # None /\ flying'.val \in Earlier => flying'.seg \in Segs /\ ChangedEarlier(flying'.seg),
             fat' # None /\ fat'.val \in Earlier => fat'.block \in Blocks /\ ChangedEarlier(SegOf[fat'.block])
      PROVE  EarlierPlaces'
  BY <1>2, <1>5, <1>a DEF EarlierPlaces
<1>b. \A b \in Blocks : {dirty[b], want[b], media[b]} \cap Earlier # {} => ChangedEarlier(SegOf[b])
  BY DEF EarlierPlaces
<1>c. /\ flying # None /\ flying.val \in Earlier => flying.seg \in Segs /\ ChangedEarlier(flying.seg)
      /\ fat # None /\ fat.val \in Earlier => fat.block \in Blocks /\ ChangedEarlier(SegOf[fat.block])
  BY <1>1 DEF EarlierPlaces, Contents
<1>d. ASSUME NEW s \in Segs, FlushOk(s) \/ FlushBad(s), UNCHANGED <<task, want, flying>>, fat' \in {fat, None}
      PROVE  EarlierPlaces'
  <2>1. \A b \in Blocks : dirty'[b] \in {dirty[b], None} BY <1>1, <1>d, FlushTyped
  <2>2. \A b \in Blocks : media'[b] \in {media[b], dirty[b], "torn"} BY <1>1, <1>d, FlushGood, FlushWrong
  <2>3. \A b \in Blocks : {dirty'[b], want'[b], media'[b]} \cap Earlier # {} => ChangedEarlier(SegOf[b])
    BY <1>3, <1>b, <1>d, <2>1, <2>2
  <2> QED BY <1>a, <1>c, <1>d, <2>3
<1>e. ASSUME UNCHANGED <<task, dirty, want, media, flying>>, fat' \in {fat, None} PROVE EarlierPlaces'
  BY <1>a, <1>b, <1>c, <1>e
<1>6. CASE fwup_apply
  <2>1. UNCHANGED <<dirty, want, media, flying, fat>> BY <1>6 DEF fwup_apply, cacheVars, asyncVars, destVars
  <2>2. \A s \in Segs : ~ChangedEarlier(s) BY <1>6 DEF fwup_apply, EarlierRuns
  <2> QED BY <1>b, <1>c, <1>5, <2>1, <2>2 DEF EarlierPlaces
<1>7. CASE write_run
  <2>1. InEvent /\ UNCHANGED <<task, media, flying, fat>> /\ f.op = "write"
    BY <1>7 DEF write_run, FunDone, asyncVars, destVars
  <2>2. \A b \in Blocks : /\ dirty'[b] = IF b = f.block THEN pc ELSE dirty[b]
                          /\ want'[b] = IF b = f.block THEN pc ELSE want[b]
    BY <1>1, <1>7 DEF write_run, Contents
  <2>3. \A b \in Blocks : {dirty'[b], want'[b], media'[b]} \cap Earlier # {} => ChangedEarlier(SegOf[b])
    BY <1>4, <1>b, <2>1, <2>2
  <2> QED BY <1>a, <1>c, <2>1, <2>3
<1>8. CASE read_run BY <1>e, <1>8 DEF read_run, FunDone, EventFails, asyncVars
<1>9. CASE stream_run
  <2>1. InEvent /\ f.op = "stream" /\ fat' = fat /\ task' = task
    BY <1>9 DEF stream_run, FunDone, EventFails
  <2>2. \A b \in Blocks :
          /\ dirty'[b] \in {dirty[b], None} \/ (SegOf[b] = seg /\ dirty'[b] = pc)
          /\ want'[b] = want[b] \/ (SegOf[b] = seg /\ want'[b] = pc)
          /\ media'[b] \in {media[b], "torn"} \/ (SegOf[b] = seg /\ media'[b] = pc)
    BY <1>9, StreamCases DEF StreamRefused, StreamHanded, StreamWritten, StreamFailed, StreamKept, Streams
  <2>3. flying' \in {flying, [seg |-> seg, val |-> pc]}
    BY <1>9, StreamCases DEF StreamRefused, StreamHanded, StreamWritten, StreamFailed, StreamKept
  <2>4. \A b \in Blocks : {dirty'[b], want'[b], media'[b]} \cap Earlier # {} => ChangedEarlier(SegOf[b])
    BY <1>3, <1>4, <1>b, <2>1, <2>2
  <2>5. flying' # None /\ flying'.val \in Earlier => flying'.seg \in Segs /\ ChangedEarlier(flying'.seg)
    BY <1>4, <1>c, <2>1, <2>3
  <2> QED BY <1>a, <1>c, <2>1, <2>4, <2>5
<1>10. CASE full_run
  <2>1. UNCHANGED <<task, dirty, want, media, flying>> /\ InEvent /\ f.op = "full"
        /\ fat' = [block |-> f.block, val |-> pc]
    BY <1>10 DEF full_run, EventFails, asyncVars, destVars
  <2> QED BY <1>4, <1>a, <1>b, <1>c, <2>1
<1>11. CASE error_run BY <1>e, <1>11 DEF error_run, EventFails, cacheVars, asyncVars, destVars
<1>12. CASE Evict
  <2>1. PICK s \in Dirty : FlushOk(s) \/ FlushBad(s) BY <1>12 DEF Evict
  <2>2. s \in Segs /\ UNCHANGED <<fat, task, want, flying>> BY <1>12 DEF Evict, Dirty, EventFails, evVars
  <2> QED BY <1>d, <2>1, <2>2
<1>13. CASE fatfs_closefs
  <2>0. UNCHANGED <<task, flying>> /\ fat # None /\ fat.block \in Blocks BY <1>13, CloseCases
  <2>1. CASE CloseStores
    <3>1. \A b \in Blocks : {dirty'[b], want'[b], media'[b]} \cap Earlier # {} => ChangedEarlier(SegOf[b])
      BY <1>b, <1>c, <2>0, <2>1 DEF CloseStores
    <3> QED BY <1>a, <1>c, <2>0, <2>1, <3>1 DEF CloseStores
  <2>2. CASE CloseCannotRead BY <1>e, <2>0, <2>2 DEF CloseCannotRead
  <2>3. CASE CloseEvicts
    <3>1. PICK s \in Dirty : (FlushOk(s) /\ fat' = fat) \/ (FlushBad(s) /\ fat' = None)
      BY <2>3 DEF CloseEvicts
    <3>2. s \in Segs /\ want' = want BY <2>3 DEF Dirty, CloseEvicts
    <3> QED BY <1>d, <2>0, <3>1, <3>2
  <2> QED BY <1>13, <2>1, <2>2, <2>3, CloseCases
<1>14. CASE EventDone \/ NextEntry \/ EndOfArchive \/ CloseFs
  BY <1>e, <1>14 DEF EventDone, NextEntry, EndOfArchive, CloseFs, CacheUnchanged, cacheVars, asyncVars, destVars, evVars
<1>15. CASE StartErrorHandler \/ ErrorHandlerFailed
  <2>1. dirty' = [b \in Blocks |-> None] /\ want' = media /\ UNCHANGED <<task, media, flying, fat>>
    BY <1>15 DEF StartErrorHandler, ErrorHandlerFailed, block_cache_reset, destVars, evVars
  <2>2. \A b \in Blocks : dirty'[b] = None BY <2>1
  <2>3. \A b \in Blocks : {dirty'[b], want'[b], media'[b]} \cap Earlier # {} => ChangedEarlier(SegOf[b])
    BY <1>3, <1>b, <2>1, <2>2
  <2> QED BY <1>a, <1>c, <2>1, <2>3
<1>16. CASE block_cache_flush
  <2>1. UNCHANGED <<fat, task, want, flying>> BY <1>16 DEF block_cache_flush, evVars
  <2>2. CASE \E s \in Dirty : FlushOk(s) \/ FlushBad(s) BY <1>d, <2>1, <2>2 DEF Dirty
  <2>3. CASE UNCHANGED <<dirty, destVars>> BY <1>e, <2>1, <2>3 DEF destVars
  <2> QED BY <1>16, <2>2, <2>3 DEF block_cache_flush
<1>17. CASE block_cache_free
  <2>1. UNCHANGED <<fat, task, want, media, flying>> /\ dirty' = [b \in Blocks |-> None]
    BY <1>17 DEF block_cache_free, CacheUnchanged, asyncVars, destVars, evVars
  <2>2. \A b \in Blocks : dirty'[b] = None BY <2>1
  <2>3. \A b \in Blocks : {dirty'[b], want'[b], media'[b]} \cap Earlier # {} => ChangedEarlier(SegOf[b])
    BY <1>3, <1>b, <2>1, <2>2
  <2> QED BY <1>a, <1>c, <2>1, <2>3
<1>18. CASE writer_worker
  <2>1. UNCHANGED <<fat, task, dirty, want>> /\ flying # None /\ flying' = None
    BY <1>18 DEF writer_worker, cacheVars, evVars
  <2>2. \A b \in Blocks : media'[b] \in {media[b], "torn"} \/ (SegOf[b] = flying.seg /\ media'[b] = flying.val)
    BY <1>18 DEF writer_worker, Fill
  <2>3. \A b \in Blocks : {dirty'[b], want'[b], media'[b]} \cap Earlier # {} => ChangedEarlier(SegOf[b])
    BY <1>3, <1>b, <1>c, <2>1, <2>2
  <2> QED BY <1>a, <1>c, <2>1, <2>3
<1>19. CASE UNCHANGED vars
  BY <1>e, <1>19 DEF vars, cacheVars, asyncVars, destVars, evVars
<1> QED BY <1>6, <1>7, <1>8, <1>9, <1>10, <1>11, <1>12, <1>13, <1>14, <1>15, <1>16, <1>17, <1>18, <1>19
        DEF Next, MainStep, Done

----------------------------------------------------------------------------
(* The switch comes last                                                   *)

\* The places that on-finish has written, in steps of every other handler.
LEMMA FinishSource ==
  ASSUME TypeOK, Phases, [Next]_vars, NEW b \in Blocks, OnFinish(b)'
  PROVE  \/ OnFinish(b)
         \/ pc = "on-finish" /\ InEvent /\ Writes(f, b) /\ (write_run \/ stream_run)
         \/ /\ fat # None /\ fat.val = "on-finish" /\ b = fat.block
            /\ fatfs_closefs /\ fat' = None
<1>1. Control /\ Contents BY TypeParts
<1>2. None # "on-finish" /\ "torn" # "on-finish" BY NotNone DEF Event
<1>a. ASSUME UNCHANGED flying \/ flying' = None, dirty'[b] \in {dirty[b], None}, media'[b] \in {media[b], dirty[b], "torn"}
      PROVE  OnFinish(b)
  BY <1>2, <1>a DEF OnFinish, InFlight
<1>b. ASSUME NEW s \in Segs, FlushOk(s) \/ FlushBad(s), UNCHANGED flying PROVE OnFinish(b)
  <2>1. dirty'[b] \in {dirty[b], None} BY <1>1, <1>b, FlushTyped
  <2>2. media'[b] \in {media[b], dirty[b], "torn"} BY <1>1, <1>b, FlushGood, FlushWrong
  <2> QED BY <1>a, <1>b, <2>1, <2>2
<1>3. CASE fwup_apply BY <1>a, <1>3 DEF fwup_apply, cacheVars, asyncVars, destVars
<1>4. CASE write_run
  <2>1. dirty'[b] = IF b = f.block THEN pc ELSE dirty[b] BY <1>1, <1>4 DEF write_run, Contents
  <2>2. UNCHANGED <<media, flying>> /\ InEvent /\ f.op = "write"
    BY <1>4 DEF write_run, asyncVars, destVars
  <2> QED BY <1>4, <2>1, <2>2 DEF OnFinish, InFlight, Writes
<1>5. CASE read_run BY <1>a, <1>5 DEF read_run, asyncVars
<1>6. CASE stream_run
  <2>1. InEvent /\ f.op = "stream" BY <1>6, StreamCases
  <2>3. SegOf[b] # seg => dirty'[b] = dirty[b] /\ media'[b] = media[b]
    BY <1>6, StreamCases DEF StreamRefused, StreamHanded, StreamWritten, StreamFailed, StreamKept
  <2>4. SegOf[b] = seg => Writes(f, b) BY <2>1 DEF Writes, seg
  <2>5. flying' = flying \/ flying' = [seg |-> seg, val |-> pc]
    BY <1>6, StreamCases DEF StreamRefused, StreamHanded, StreamWritten, StreamFailed, StreamKept
  <2>6. dirty'[b] \in {dirty[b], None, pc} /\ media'[b] \in {media[b], "torn", pc}
    BY <1>6, StreamCases DEF StreamRefused, StreamHanded, StreamWritten, StreamFailed, StreamKept
  <2>7. CASE pc = "on-finish"
    BY <1>6, <2>1, <2>3, <2>4, <2>5, <2>7 DEF OnFinish, InFlight
  <2>8. CASE pc # "on-finish"
    BY <1>2, <2>5, <2>6, <2>8 DEF OnFinish, InFlight
  <2> QED BY <2>7, <2>8
<1>7. CASE full_run \/ error_run
  BY <1>a, <1>7 DEF full_run, error_run, cacheVars, asyncVars, destVars
<1>8. CASE Evict
  <2>1. PICK s \in Dirty : FlushOk(s) \/ FlushBad(s) BY <1>8 DEF Evict
  <2>2. s \in Segs /\ UNCHANGED flying BY <1>8 DEF Evict, Dirty
  <2> QED BY <1>b, <2>1, <2>2
<1>9. CASE fatfs_closefs
  <2>0. UNCHANGED flying /\ fat # None /\ fat.block \in Blocks BY <1>9, CloseCases
  <2>1. CASE CloseStores BY <1>9, <2>0, <2>1 DEF CloseStores, OnFinish, InFlight
  <2>2. CASE CloseCannotRead BY <1>a, <2>0, <2>2 DEF CloseCannotRead
  <2>3. CASE CloseEvicts BY <1>b, <2>0, <2>3 DEF CloseEvicts, Dirty
  <2> QED BY <1>9, <2>1, <2>2, <2>3, CloseCases
<1>10. CASE EventDone \/ NextEntry \/ EndOfArchive \/ CloseFs
  BY <1>a, <1>10 DEF EventDone, NextEntry, EndOfArchive, CloseFs, CacheUnchanged, cacheVars, asyncVars, destVars
<1>11. CASE StartErrorHandler \/ ErrorHandlerFailed \/ block_cache_free
  <2>1. dirty' = [x \in Blocks |-> None] /\ UNCHANGED <<media, flying>>
    BY <1>11 DEF StartErrorHandler, ErrorHandlerFailed, block_cache_reset, block_cache_free, CacheUnchanged,
       asyncVars, destVars
  <2>2. dirty'[b] = None BY <2>1
  <2> QED BY <1>a, <2>1, <2>2
<1>12. CASE block_cache_flush
  <2>1. UNCHANGED flying BY <1>12 DEF block_cache_flush
  <2>2. CASE \E s \in Dirty : FlushOk(s) \/ FlushBad(s) BY <1>b, <2>1, <2>2 DEF Dirty
  <2>3. CASE UNCHANGED <<dirty, destVars>> BY <1>a, <2>1, <2>3 DEF destVars
  <2> QED BY <1>12, <2>2, <2>3 DEF block_cache_flush
<1>13. CASE writer_worker
  <2>1. UNCHANGED dirty /\ flying # None /\ flying' = None BY <1>13 DEF writer_worker, cacheVars
  <2>2. media'[b] \in {media[b], "torn"} \/ (SegOf[b] = flying.seg /\ media'[b] = flying.val)
    BY <1>13 DEF writer_worker, Fill
  <2> QED BY <1>2, <2>1, <2>2 DEF OnFinish, InFlight
<1>14. CASE UNCHANGED vars
  BY <1>a, <1>14 DEF vars, cacheVars, asyncVars, destVars
<1> QED BY <1>3, <1>4, <1>5, <1>6, <1>7, <1>8, <1>9, <1>10, <1>11, <1>12, <1>13, <1>14
        DEF Next, MainStep, Done

\* Where run_task goes, and what FatFs is left with.
Moved ==
  /\ pc' \in {"start", "on-init", "on-resource", "archive"}
       => pc \in {"start", "on-init", "on-resource", "archive"}
  /\ pc' \in {"on-finish", "close", "flush"} =>
       pc \in {"on-finish", "close", "flush"} \/ (pc = "archive" /\ AllProcessed)
  /\ pc' = "on-finish" =>
       \/ pc = "archive" /\ funs' = task.finish
       \/ pc = "on-finish" /\ funs' = funs
       \/ pc = "on-finish" /\ InEvent /\ funs' = Tail(funs)
  /\ processed \subseteq processed'
  /\ resetAt' = -1 => resetAt = -1
  /\ \/ fat' \in {fat, None}
     \/ InEvent /\ f.op = "full" /\ fat' = [block |-> f.block, val |-> pc]
  /\ FlushFailed => FlushFailed'

LEMMA Moves ==
  ASSUME TypeOK, Phases, [Next]_vars
  PROVE  Moved
<1>1. Control /\ Counters BY TypeParts
<1>a. InEvent => pc \in Event /\ ~FlushFailed BY DEF InEvent, Event, FlushFailed
<1>3. FunDone /\ InEvent /\ fat' = fat => Moved BY <1>a DEF Moved, FunDone, Event
<1>4. EventFails /\ InEvent /\ fat' = fat => Moved BY <1>a DEF Moved, EventFails, Event
<1>5. CASE fwup_apply BY <1>5 DEF Moved, fwup_apply, FlushFailed, cacheVars
<1>6. CASE write_run \/ read_run \/ stream_run
  <2>1. InEvent /\ fat' = fat /\ (FunDone \/ EventFails) BY <1>6 DEF write_run, read_run, stream_run
  <2> QED BY <1>3, <1>4, <2>1
<1>8. CASE error_run BY <1>4, <1>8 DEF error_run, cacheVars
<1>b. ASSUME UNCHANGED <<pc, rc, funs, processed, resetAt, fat>> PROVE Moved
  BY <1>b DEF Moved, FlushFailed
<1>9. CASE Evict
  <2>1. InEvent /\ fat' = fat /\ (UNCHANGED <<pc, rc, evVars, progVars, resetAt, threads>> \/ EventFails)
    BY <1>9 DEF Evict
  <2> QED BY <1>4, <1>b, <2>1 DEF evVars
<1>7. CASE full_run BY <1>a, <1>7 DEF Moved, full_run, EventFails, Event
<1>10. CASE fatfs_closefs
  <2>1. UNCHANGED <<pc, rc, funs, processed, resetAt>> /\ fat' \in {fat, None} /\ pc # "on-finish"
    BY <1>10 DEF fatfs_closefs, evVars
  <2> QED BY <2>1 DEF Moved, FlushFailed
<1>11. CASE EventDone BY <1>11 DEF Moved, EventDone, FlushFailed, cacheVars, Event
<1>12. CASE NextEntry BY <1>12 DEF Moved, NextEntry, FlushFailed, cacheVars
<1>13. CASE EndOfArchive BY <1>13 DEF Moved, EndOfArchive, FlushFailed, cacheVars
<1>14. CASE StartErrorHandler
  <2>1. resetAt' # -1 BY <1>1, <1>14 DEF StartErrorHandler, Counters
  <2> QED BY <1>14, <2>1 DEF Moved, StartErrorHandler, block_cache_reset, FlushFailed
<1>15. CASE ErrorHandlerFailed
  BY <1>15 DEF Moved, ErrorHandlerFailed, block_cache_reset, FlushFailed, evVars
<1>16. CASE CloseFs BY <1>16 DEF Moved, CloseFs, FlushFailed, evVars, cacheVars, Phases
<1>17. CASE block_cache_flush
  <2>1. /\ UNCHANGED <<processed, resetAt, fat>> /\ pc \in {"flush", "last_flush"}
        /\ pc' \in {pc, "free", "cleanup"} /\ rc' \in {rc, "error"}
    BY <1>17 DEF block_cache_flush, evVars
  <2> QED BY <2>1 DEF Moved, FlushFailed, Phases
<1>18. CASE block_cache_free BY <1>18 DEF Moved, block_cache_free, FlushFailed, evVars
<1>19. CASE writer_worker BY <1>b, <1>19 DEF writer_worker, evVars, cacheVars
<1>20. CASE UNCHANGED vars BY <1>b, <1>20 DEF vars, evVars, cacheVars
<1> QED BY <1>5, <1>6, <1>7, <1>8, <1>9, <1>10, <1>11, <1>12, <1>13, <1>14, <1>15, <1>16, <1>17, <1>18,
           <1>19, <1>20 DEF Next, MainStep, Done

\* A function that writes is not run without being taken off the list.
LEMMA WritersMove ==
  ASSUME TypeOK, pc' = "on-finish", write_run \/ stream_run
  PROVE  InEvent /\ funs' = Tail(funs) /\ funs' # funs
<1>1. InEvent /\ funs' = Tail(funs)
  BY DEF write_run, stream_run, FunDone, EventFails
<1>2. Len(Tail(funs)) = Len(funs) - 1 /\ Len(funs) \in Nat BY <1>1, NextFunTyped DEF TypeOK
<1> QED BY <1>1, <1>2

LEMMA FinishWroteKept ==
  ASSUME TypeOK, Phases, [Next]_vars, FinishWrote'
  PROVE  FinishWrote \/ (pc = "on-finish" /\ InEvent)
<1>1. CASE \E b \in Blocks : OnFinish(b)'
  BY <1>1, FinishSource DEF FinishWrote
<1>2. CASE fat' # None /\ fat'.val = "on-finish"
  BY <1>2, Moves DEF Moved, FinishWrote
<1> QED BY <1>1, <1>2 DEF FinishWrote

LEMMA FinishProcessedKept ==
  TypeOK /\ Phases /\ FinishProcessed /\ FinishAbsent /\ [Next]_vars => FinishProcessed' /\ FinishAbsent'
<1> SUFFICES ASSUME TypeOK, Phases, FinishProcessed, FinishAbsent, [Next]_vars
             PROVE  FinishProcessed' /\ FinishAbsent'
  OBVIOUS
<1>1. FinishWrote' => FinishWrote \/ (pc = "on-finish" /\ InEvent) BY FinishWroteKept
<1>2. FinishProcessed'
  <2>1. CASE fwup_apply
    <3>1. ~FinishWrote' /\ pc' \notin {"on-finish", "close", "flush"}
      BY <1>1, <2>1, Moves DEF Moved, fwup_apply, FinishAbsent
    <3> QED BY <3>1 DEF FinishProcessed
  <2>2. CASE task' = task
    <3>1. AllProcessed => AllProcessed' BY <2>2, Moves DEF Moved, AllProcessed, Handled
    <3> QED BY <1>1, <3>1, Moves DEF Moved, FinishProcessed
  <2> QED BY <2>1, <2>2, TaskKept
<1>3. FinishAbsent'
  <2>1. pc' \in {"start", "on-init", "on-resource", "archive"} => ~FinishWrote'
    BY <1>1, Moves DEF Moved, FinishAbsent
  <2>2. fat' # None /\ fat'.val \in Earlier => ~FinishWrote'
    <3> SUFFICES ASSUME fat' # None, fat'.val \in Earlier PROVE ~FinishWrote' OBVIOUS
    <3>1. CASE fat' = fat
      <4>1. ~FinishWrote /\ pc # "on-finish" BY <3>1 DEF FinishAbsent, Phases
      <4> QED BY <1>1, <4>1
    <3>2. CASE InEvent /\ fat' = [block |-> f.block, val |-> pc]
      <4>1. pc \in Earlier BY <3>2
      <4>2. ~FinishWrote /\ pc # "on-finish" BY <4>1 DEF FinishAbsent, Earlier
      <4> QED BY <1>1, <4>2
    <3> QED BY <3>1, <3>2, Moves DEF Moved
  <2> QED BY <2>1, <2>2 DEF FinishAbsent
<1> QED BY <1>2, <1>3

\* The function of on-finish that runs, and what has run before it.
LEMMA FinishFun ==
  ASSUME TypeOK, InEvent, pc = "on-finish", FinishRan,
         NEW n, n = Len(task.finish) - Len(funs)
  PROVE  /\ n \in Nat /\ n + 1 \in DOMAIN task.finish /\ f = task.finish[n + 1]
         /\ Len(Tail(funs)) = Len(funs) - 1 /\ Len(funs) \in Nat /\ Len(task.finish) \in Nat
         /\ \A i \in 1 .. Len(Tail(funs)) : Tail(funs)[i] = task.finish[n + 1 + i]
         /\ FinishBefore(n)
<1>1. task.finish \in Seq(Fun) /\ funs \in Seq(Fun) BY TaskTyped DEF TypeOK
<1>2. Len(task.finish) \in Nat /\ Len(funs) \in Nat BY <1>1
<1>3. /\ f = funs[1] /\ Len(Tail(funs)) = Len(funs) - 1 /\ Len(funs) # 0
      /\ \A i \in 1 .. Len(Tail(funs)) : Tail(funs)[i] = funs[i + 1]
  BY <1>1, NextFunTyped DEF InEvent
<1>4. /\ Len(funs) <= Len(task.finish)
      /\ \A i \in 1 .. Len(funs) : funs[i] = task.finish[n + i]
      /\ FinishBefore(n)
  BY DEF FinishRan
<1>5. n \in Nat /\ n + 1 \in 1 .. Len(task.finish) BY <1>2, <1>3, <1>4
<1>6. f = task.finish[n + 1] BY <1>2, <1>3, <1>4
<1>7. \A i \in 1 .. Len(Tail(funs)) : Tail(funs)[i] = task.finish[n + 1 + i]
  BY <1>2, <1>3, <1>4, <1>5
<1>8. n + 1 \in DOMAIN task.finish BY <1>1, <1>5
<1> QED BY <1>2, <1>3, <1>4, <1>5, <1>6, <1>7, <1>8

LEMMA FinishRanKept ==
  ASSUME TypeOK, Phases, FinishRan, FinishAbsent, [Next]_vars
  PROVE  FinishRan'
<1>1. task.finish \in Seq(Fun) /\ funs \in Seq(Fun) BY TaskTyped DEF TypeOK
<1>2. Len(task.finish) \in Nat /\ Len(funs) \in Nat BY <1>1
<1>3. \A g, b : Writes(g, b) => Changes(g, SegOf[b]) BY DEF Writes, Changes
<1>4. ASSUME pc' = "on-finish"
      PROVE  /\ Len(funs') <= Len(task'.finish)
             /\ \A i \in 1 .. Len(funs') : funs'[i] = task'.finish[Len(task'.finish) - Len(funs') + i]
             /\ \A b \in Blocks : OnFinish(b)' =>
                  \E i \in 1 .. Len(task'.finish) - Len(funs') : Changes(task'.finish[i], SegOf[b])
  <2>0. task' = task
    <3>1. pc # "start" BY <1>4, Moves DEF Moved
    <3> QED BY <3>1, TaskKept DEF fwup_apply
  <2>1. CASE pc = "archive" /\ funs' = task.finish
    <3>1. ~FinishWrote' BY <2>1, FinishWroteKept DEF FinishAbsent
    <3>2. \A b \in Blocks : ~OnFinish(b)' BY <3>1 DEF FinishWrote
    <3> QED BY <1>2, <2>0, <2>1, <3>2
  <2>2. CASE pc = "on-finish" /\ funs' = funs
    <3>1. ~(write_run \/ stream_run) BY <1>4, <2>2, WritersMove
    <3>2. \A b \in Blocks : OnFinish(b)' => OnFinish(b)
      BY <2>2, <3>1, FinishSource DEF fatfs_closefs
    <3> QED BY <2>0, <2>2, <3>2 DEF FinishRan, FinishBefore
  <2>3. CASE pc = "on-finish" /\ InEvent /\ funs' = Tail(funs)
    <3> DEFINE n == Len(task.finish) - Len(funs)
    <3>1. /\ n \in Nat /\ n + 1 \in DOMAIN task.finish /\ f = task.finish[n + 1]
          /\ Len(Tail(funs)) = Len(funs) - 1
          /\ \A i \in 1 .. Len(Tail(funs)) : Tail(funs)[i] = task.finish[n + 1 + i]
          /\ FinishBefore(n)
      BY <2>3, FinishFun
    <3>2. Len(task'.finish) - Len(funs') = n + 1
      <4>1. Len(funs') = Len(funs) - 1 BY <2>3, <3>1
      <4>2. Len(task'.finish) = Len(task.finish) BY <2>0
      <4> QED BY <1>2, <4>1, <4>2
    <3>3. \A b \in Blocks : OnFinish(b)' => OnFinish(b) \/ Writes(f, b)
      BY <2>3, FinishSource DEF fatfs_closefs
    <3>4. ASSUME NEW b \in Blocks, OnFinish(b)' PROVE \E i \in 1 .. n + 1 : Changes(task.finish[i], SegOf[b])
      <4>1. CASE OnFinish(b)
        <5>1. \E i \in 1 .. n : Changes(task.finish[i], SegOf[b]) BY <3>1, <4>1 DEF FinishBefore
        <5> QED BY <3>1, <5>1
      <4>2. CASE Writes(f, b)
        <5>1. Changes(task.finish[n + 1], SegOf[b]) BY <1>3, <3>1, <4>2
        <5>2. n + 1 \in 1 .. n + 1 BY <3>1
        <5> QED BY <5>1, <5>2
      <4> QED BY <3>3, <3>4, <4>1, <4>2
    <3>5. Len(funs') <= Len(task'.finish) BY <1>2, <2>0, <2>3, <3>1
    <3> QED BY <2>0, <2>3, <3>1, <3>2, <3>4, <3>5
  <2> QED BY <1>4, <2>1, <2>2, <2>3, Moves DEF Moved
<1>5. ASSUME fat' # None, fat'.val = "on-finish"
      PROVE  \E k \in DOMAIN task'.finish :
               /\ Changes(task'.finish[k], SegOf[fat'.block])
               /\ \A b \in Blocks : OnFinish(b)' => \E i \in 1 .. k - 1 : Changes(task'.finish[i], SegOf[b])
  <2>1. CASE fat' = fat
    <3>1. pc \in {"failed", "failed_again"} BY <1>5, <2>1 DEF Phases
    <3>2. task' = task BY <3>1, TaskKept DEF fwup_apply
    <3>3. \A b \in Blocks : OnFinish(b)' => OnFinish(b) BY <1>5, <2>1, <3>1, FinishSource
    <3>4. PICK k \in DOMAIN task.finish : Changes(task.finish[k], SegOf[fat.block]) /\ FinishBefore(k - 1)
      BY <1>5, <2>1 DEF FinishRan
    <3> QED BY <2>1, <3>2, <3>3, <3>4 DEF FinishBefore
  <2>2. CASE InEvent /\ f.op = "full" /\ fat' = [block |-> f.block, val |-> pc]
    <3> DEFINE n == Len(task.finish) - Len(funs)
    <3>1. pc = "on-finish" BY <1>5, <2>2
    <3>2. task' = task BY <3>1, TaskKept DEF fwup_apply
    <3>3. n \in Nat /\ n + 1 \in DOMAIN task.finish /\ f = task.finish[n + 1] /\ FinishBefore(n)
      BY <2>2, <3>1, FinishFun
    <3>4. Changes(task.finish[n + 1], SegOf[fat'.block]) BY <2>2, <3>3 DEF Changes
    <3>5. \A b \in Blocks : OnFinish(b)' => OnFinish(b)
      BY <2>2, <3>1, FinishSource DEF fatfs_closefs, Writes
    <3>6. n + 1 - 1 = n BY <3>3
    <3> HIDE DEF n
    <3>7. \A b \in Blocks : OnFinish(b)' => \E i \in 1 .. n + 1 - 1 : Changes(task.finish[i], SegOf[b])
      BY <3>3, <3>5, <3>6 DEF FinishBefore
    <3> QED BY <3>2, <3>3, <3>4, <3>7
  <2> QED BY <1>5, <2>1, <2>2, Moves DEF Moved
<1> QED BY <1>4, <1>5 DEF FinishRan, FinishBefore

\* What reaches the writer thread.
LEMMA Handed ==
  ASSUME TypeOK, [Next]_vars
  PROVE  flying' \in {flying, None} \/ (stream_run /\ InEvent /\ f.op = "stream" /\ flying' = [seg |-> seg, val |-> pc])
<1>1. CASE fwup_apply \/ write_run \/ read_run \/ full_run \/ error_run \/ Evict
  BY <1>1 DEF fwup_apply, write_run, read_run, full_run, error_run, Evict, asyncVars
<1>2. CASE stream_run
  BY <1>2, StreamCases DEF StreamRefused, StreamHanded, StreamWritten, StreamFailed, StreamKept
<1>3. CASE fatfs_closefs \/ EventDone \/ NextEntry \/ EndOfArchive \/ CloseFs
  BY <1>3 DEF fatfs_closefs, EventDone, NextEntry, EndOfArchive, CloseFs, CacheUnchanged, asyncVars
<1>4. CASE StartErrorHandler \/ ErrorHandlerFailed \/ block_cache_flush \/ block_cache_free
  BY <1>4 DEF StartErrorHandler, ErrorHandlerFailed, block_cache_reset, block_cache_flush, block_cache_free,
     CacheUnchanged, asyncVars
<1>5. CASE writer_worker \/ UNCHANGED vars BY <1>5 DEF writer_worker, vars, asyncVars
<1> QED BY <1>1, <1>2, <1>3, <1>4, <1>5 DEF Next, MainStep, Done

\* An on-finish that is FinishApart streams nothing.
LEMMA FinishStreamsNot ==
  ASSUME TypeOK, FinishRan, FinishApart, InEvent, pc = "on-finish"
  PROVE  f.op # "stream"
<1>1. Len(task.finish) - Len(funs) + 1 \in DOMAIN task.finish
      /\ f = task.finish[Len(task.finish) - Len(funs) + 1]
  BY FinishFun
<1> QED BY <1>1 DEF FinishApart

LEMMA FinishLeftKept ==
  ASSUME TypeOK, Phases, FinishRan, FinishLeft, [Next]_vars
  PROVE  FinishLeft'
<1> SUFFICES ASSUME FinishApart', flying' # None, flying'.val = "on-finish" PROVE FALSE BY DEF FinishLeft
<1>1. CASE fwup_apply BY <1>1 DEF fwup_apply, asyncVars, Phases
<1>2. CASE task' = task
  <2>1. FinishApart BY <1>2 DEF FinishApart, ChangedEarlier, Handled
  <2>2. CASE flying' = flying BY <2>1, <2>2 DEF FinishLeft
  <2>3. CASE InEvent /\ f.op = "stream" /\ flying' = [seg |-> seg, val |-> pc]
    BY <2>1, <2>3, FinishStreamsNot
  <2> QED BY <2>2, <2>3, Handed
<1> QED BY <1>1, <1>2, TaskKept

\* How a step changes the order of the segments, while nothing has failed in
\* on-finish or before it: segments leave the cache; the least recently used one
\* is flushed; a function of on-finish, or the close after it, uses a segment.
OrderKept ==
  /\ last_access' = last_access
  /\ \A b \in Blocks : dirty'[b] \in {dirty[b], None} /\ (media'[b] = "on-finish" => media[b] = "on-finish")
OrderFlushed ==
  /\ last_access' = last_access
  /\ \E s \in Dirty : LeastRecent(s) /\ FlushOk(s)
OrderUsed ==
  /\ media' = media
  /\ \E k \in DOMAIN task.finish, s \in Segs :
       /\ Uses(task.finish[k], s) /\ FinishBefore(k - 1)
       /\ last_access' = [last_access EXCEPT ![s] = timestamp]
       /\ \A b \in Blocks : dirty'[b] = dirty[b] \/ (SegOf[b] = s /\ dirty'[b] = "on-finish")

LEMMA OrderCases ==
  ASSUME TypeOK, Phases, AfterReset, FinishLast, FinishApart, [Next]_vars, task' = task,
         resetAt' = -1, FinishWrote'
  PROVE  OrderKept \/ OrderFlushed \/ OrderUsed
<1>1. Control /\ Contents BY TypeParts
<1>2. resetAt = -1 BY Moves DEF Moved
<1>3. FinishWrote \/ (pc = "on-finish" /\ InEvent) BY FinishWroteKept
<1>4. InEvent => /\ pc = "on-finish" /\ f.op # "stream"
                 /\ f.block \in Blocks /\ seg \in Segs /\ seg = SegOf[f.block]
  <2> SUFFICES ASSUME InEvent
               PROVE  /\ pc = "on-finish" /\ f.op # "stream"
                      /\ f.block \in Blocks /\ seg \in Segs /\ seg = SegOf[f.block]
    OBVIOUS
  <2>1. pc \in Event /\ f.block \in Blocks /\ seg \in Segs /\ seg = SegOf[f.block]
    BY <1>1, NextFunTyped DEF Control, InEvent, seg
  <2>2. pc = "on-finish" BY <1>2, <1>3, <2>1 DEF FinishLast, FinishAbsent, Phases, Event
  <2> QED BY <2>1, <2>2, FinishStreamsNot DEF FinishLast
<1>5. InEvent => \E k \in DOMAIN task.finish : f = task.finish[k] /\ FinishBefore(k - 1)
  <2> SUFFICES ASSUME InEvent PROVE \E k \in DOMAIN task.finish : f = task.finish[k] /\ FinishBefore(k - 1)
    OBVIOUS
  <2> DEFINE n == Len(task.finish) - Len(funs)
  <2>1. n \in Nat /\ n + 1 \in DOMAIN task.finish /\ f = task.finish[n + 1] /\ FinishBefore(n)
    BY <1>4, FinishFun DEF FinishLast
  <2>2. n + 1 - 1 = n BY <2>1
  <2> HIDE DEF n
  <2>3. FinishBefore((n + 1) - 1) BY <2>1, <2>2
  <2> QED BY <2>1, <2>3
<1>a. ASSUME NEW s \in Segs, FlushBad(s), last_access' = last_access PROVE OrderKept
  <2>1. \A b \in Blocks : /\ dirty'[b] \in {dirty[b], None}
                          /\ media'[b] = media[b] \/ media'[b] = "torn"
    BY <1>1, <1>a, FlushWrong
  <2> QED BY <1>a, <2>1 DEF OrderKept
<1>b. ASSUME UNCHANGED <<last_access, dirty, media>> PROVE OrderKept BY <1>b DEF OrderKept
<1>6. CASE fwup_apply BY <1>b, <1>6 DEF fwup_apply, cacheVars, destVars
<1>7. CASE write_run
  <2>1. \A b \in Blocks : dirty'[b] = IF b = f.block THEN pc ELSE dirty[b]
    BY <1>1, <1>7 DEF write_run, Contents
  <2>2. InEvent /\ Uses(f, seg) /\ media' = media /\ last_access' = [last_access EXCEPT ![seg] = timestamp]
    BY <1>7 DEF write_run, Use, Uses, destVars, seg
  <2> QED BY <1>4, <1>5, <2>1, <2>2 DEF OrderUsed
<1>8. CASE read_run
  <2>1. InEvent /\ Uses(f, seg) /\ UNCHANGED <<media, dirty>> BY <1>8 DEF read_run, Uses, seg
  <2>2. CASE Use(seg) BY <1>4, <1>5, <2>1, <2>2 DEF OrderUsed, Use
  <2>3. CASE last_access' = last_access BY <1>b, <2>1, <2>3
  <2> QED BY <1>8, <2>2, <2>3 DEF read_run
<1>9. ~stream_run BY <1>4 DEF stream_run
<1>10. CASE full_run \/ error_run BY <1>b, <1>10 DEF full_run, error_run, cacheVars, destVars
<1>11. CASE Evict
  <2>1. PICK s \in Dirty : LeastRecent(s) /\ (FlushOk(s) \/ FlushBad(s)) BY <1>11 DEF Evict
  <2>2. s \in Segs /\ last_access' = last_access BY <1>11 DEF Evict, Dirty
  <2> QED BY <1>a, <2>1, <2>2 DEF OrderFlushed
<1>12. CASE fatfs_closefs
  <2>0. fat # None /\ fat.block \in Blocks /\ SegOf[fat.block] \in Segs /\ fat.val \in Event
    BY <1>12, CloseCases
  <2>1. CASE CloseStores
    <3>1. fat.val = "on-finish"
      <4>1. fat.val # "on-error" BY <1>2, <2>0 DEF AfterReset
      <4>2. fat.val \notin Earlier
        <5>1. pc # "on-finish" BY <2>0 DEF Phases
        <5>2. FinishWrote BY <1>3, <5>1
        <5> QED BY <2>0, <5>2 DEF FinishLast, FinishAbsent
      <4> QED BY <2>0, <4>1, <4>2 DEF Event, Earlier
    <3>2. PICK k \in DOMAIN task.finish : Changes(task.finish[k], SegOf[fat.block]) /\ FinishBefore(k - 1)
      BY <2>0, <3>1 DEF FinishLast, FinishRan
    <3>3. Uses(task.finish[k], SegOf[fat.block]) BY <3>2 DEF Changes, Uses
    <3> QED BY <2>0, <2>1, <3>1, <3>2, <3>3 DEF CloseStores, OrderUsed
  <2>2. CASE CloseCannotRead BY <1>b, <2>2 DEF CloseCannotRead
  <2>3. CASE CloseEvicts
    <3>1. PICK s \in Dirty : LeastRecent(s) /\ (FlushOk(s) \/ FlushBad(s)) BY <2>3 DEF CloseEvicts
    <3>2. s \in Segs /\ last_access' = last_access BY <2>3 DEF CloseEvicts, Dirty
    <3> QED BY <1>a, <3>1, <3>2 DEF OrderFlushed
  <2> QED BY <1>12, <2>1, <2>2, <2>3, CloseCases
<1>13. CASE EventDone \/ NextEntry \/ EndOfArchive \/ CloseFs
  BY <1>b, <1>13 DEF EventDone, NextEntry, EndOfArchive, CloseFs, CacheUnchanged, cacheVars, destVars
<1>14. CASE StartErrorHandler \/ ErrorHandlerFailed \/ block_cache_free
  <2>1. dirty' = [x \in Blocks |-> None] /\ UNCHANGED <<media, last_access>>
    BY <1>14 DEF StartErrorHandler, ErrorHandlerFailed, block_cache_reset, block_cache_free, CacheUnchanged,
       destVars
  <2>2. \A b \in Blocks : dirty'[b] = None BY <2>1
  <2> QED BY <2>1, <2>2 DEF OrderKept
<1>15. CASE block_cache_flush
  <2>1. last_access' = last_access BY <1>15 DEF block_cache_flush
  <2>2. CASE \E s \in Dirty : LeastRecent(s) /\ (FlushOk(s) \/ FlushBad(s))
    BY <1>a, <2>1, <2>2 DEF OrderFlushed, Dirty
  <2>3. CASE UNCHANGED <<dirty, destVars>> BY <1>b, <2>1, <2>3 DEF destVars
  <2> QED BY <1>15, <2>2, <2>3 DEF block_cache_flush
<1>16. CASE writer_worker
  <2>1. UNCHANGED <<dirty, last_access>> /\ flying # None BY <1>16 DEF writer_worker, cacheVars
  <2>2. flying.val # "on-finish" BY <2>1 DEF FinishLast, FinishLeft
  <2>3. \A b \in Blocks : media'[b] \in {media[b], "torn", flying.val} BY <1>16 DEF writer_worker, Fill
  <2> QED BY <2>1, <2>2, <2>3 DEF OrderKept
<1>17. CASE UNCHANGED vars BY <1>b, <1>17 DEF vars, cacheVars, destVars
<1> QED BY <1>6, <1>7, <1>8, <1>9, <1>10, <1>11, <1>12, <1>13, <1>14, <1>15, <1>16, <1>17
        DEF Next, MainStep, Done

\* When on-finish uses a segment that earlier handlers change, it has changed no
\* other one before.
LEMMA ApartBefore ==
  ASSUME TypeOK, FinishApart, NEW k \in DOMAIN task.finish, NEW s \in Segs, NEW b \in Blocks,
         Uses(task.finish[k], s), ChangedEarlier(s), FinishBefore(k - 1), OnFinish(b)
  PROVE  SegOf[b] = s
<1>1. SegOf[b] \in Segs BY SegTyped
<1>2. PICK i \in 1 .. k - 1 : Changes(task.finish[i], SegOf[b]) BY DEF FinishBefore
<1> QED BY <1>1, <1>2 DEF FinishApart

LEMMA FinishYoungestKept ==
  ASSUME TypeOK, Phases, Held, AfterReset, FinishLast, [Next]_vars
  PROVE  FinishYoungest'
<1> SUFFICES ASSUME FinishApart', resetAt' = -1, NEW b \in Blocks, NEW c \in Blocks,
                    dirty'[b] = "on-finish", dirty'[c] # None, SegOf[c] # SegOf[b], ChangedEarlier(SegOf[c])'
             PROVE  last_access'[SegOf[c]] < last_access'[SegOf[b]]
  BY DEF FinishYoungest
<1>1. Counters /\ Contents BY TypeParts
<1>2. SegOf[b] \in Segs /\ SegOf[c] \in Segs BY SegTyped
<1>3. None # "on-finish" BY NotNone DEF Event
<1>4. FinishWrote' BY DEF FinishWrote, OnFinish
<1>5. task' = task
  <2>1. ~fwup_apply
    <3>1. pc \notin {"start"} BY <1>4, FinishWroteKept DEF FinishLast, FinishAbsent
    <3> QED BY <3>1 DEF fwup_apply
  <2> QED BY <2>1, TaskKept
<1>6. FinishApart /\ ChangedEarlier(SegOf[c]) BY <1>5 DEF FinishApart, ChangedEarlier, Handled
<1>7. resetAt = -1 BY Moves DEF Moved
<1>8. dirty[b] = "on-finish" /\ dirty[c] # None => last_access[SegOf[c]] < last_access[SegOf[b]]
  BY <1>6, <1>7 DEF FinishLast, FinishYoungest
<1>9. CASE OrderKept BY <1>3, <1>8, <1>9 DEF OrderKept
<1>10. CASE OrderFlushed
  <2>1. \A x \in Blocks : dirty'[x] \in {dirty[x], None}
    BY <1>1, <1>10, FlushTyped DEF OrderFlushed, Dirty
  <2> QED BY <1>3, <1>8, <1>10, <2>1 DEF OrderFlushed
<1>11. CASE OrderUsed
  <2>1. PICK k \in DOMAIN task.finish, s \in Segs :
          /\ Uses(task.finish[k], s) /\ FinishBefore(k - 1)
          /\ last_access' = [last_access EXCEPT ![s] = timestamp]
          /\ \A x \in Blocks : dirty'[x] = dirty[x] \/ (SegOf[x] = s /\ dirty'[x] = "on-finish")
    BY <1>11 DEF OrderUsed
  <2>2. CASE SegOf[c] = s
    <3>1. dirty[b] = "on-finish" BY <2>1, <2>2
    <3>2. OnFinish(b) BY <3>1 DEF OnFinish
    <3> QED BY <1>6, <2>1, <2>2, <3>2, ApartBefore
  <2>3. CASE SegOf[b] = s
    <3>1. dirty[c] # None BY <2>1, <2>3
    <3>2. last_access[SegOf[c]] < timestamp BY <3>1 DEF Held
    <3>3. last_access'[SegOf[b]] = timestamp /\ last_access'[SegOf[c]] = last_access[SegOf[c]]
      BY <1>1, <1>2, <2>1, <2>3 DEF Counters
    <3> QED BY <3>2, <3>3
  <2>4. CASE SegOf[b] # s /\ SegOf[c] # s
    <3>1. dirty[b] = "on-finish" /\ dirty[c] # None BY <2>1, <2>4
    <3>2. last_access'[SegOf[b]] = last_access[SegOf[b]] /\ last_access'[SegOf[c]] = last_access[SegOf[c]]
      BY <1>1, <1>2, <2>1, <2>4 DEF Counters
    <3> QED BY <1>8, <3>1, <3>2
  <2> QED BY <2>2, <2>3, <2>4
<1> QED BY <1>4, <1>5, <1>6, <1>9, <1>10, <1>11, OrderCases

LEMMA FinishAloneKept ==
  ASSUME TypeOK, Phases, Held, AfterReset, FinishLast, [Next]_vars
  PROVE  FinishAlone'
<1> SUFFICES ASSUME FinishApart', resetAt' = -1, ~FlushFailed', NEW b \in Blocks, NEW c \in Blocks,
                    media'[b] = "on-finish", dirty'[c] # None, ChangedEarlier(SegOf[c])'
             PROVE  SegOf[c] = SegOf[b] /\ dirty'[c] = "on-finish"
  BY DEF FinishAlone
<1>1. Counters /\ Contents BY TypeParts
<1>2. SegOf[b] \in Segs /\ SegOf[c] \in Segs BY SegTyped
<1>3. None # "on-finish" BY NotNone DEF Event
<1>4. FinishWrote' BY DEF FinishWrote, OnFinish
<1>5. task' = task
  <2>1. ~fwup_apply
    <3>1. pc \notin {"start"} BY <1>4, FinishWroteKept DEF FinishLast, FinishAbsent
    <3> QED BY <3>1 DEF fwup_apply
  <2> QED BY <2>1, TaskKept
<1>6. FinishApart /\ ChangedEarlier(SegOf[c]) BY <1>5 DEF FinishApart, ChangedEarlier, Handled
<1>7. resetAt = -1 /\ ~FlushFailed BY Moves DEF Moved
<1>8. media[b] = "on-finish" /\ dirty[c] # None => SegOf[c] = SegOf[b] /\ dirty[c] = "on-finish"
  BY <1>6, <1>7 DEF FinishLast, FinishAlone
<1>9. CASE OrderKept BY <1>8, <1>9 DEF OrderKept
<1>10. CASE OrderFlushed
  <2>1. PICK s \in Dirty : LeastRecent(s) /\ FlushOk(s) BY <1>10 DEF OrderFlushed
  <2>2. s \in Segs BY DEF Dirty
  <2>3. \A x \in Blocks :
          /\ dirty'[x] = IF SegOf[x] = s THEN None ELSE dirty[x]
          /\ media'[x] = IF SegOf[x] = s /\ dirty[x] # None THEN dirty[x] ELSE media[x]
    BY <1>1, <2>1, <2>2, FlushGood
  <2>4. dirty[c] # None /\ dirty'[c] = dirty[c] /\ SegOf[c] # s BY <2>3
  <2>5. CASE media[b] = "on-finish" BY <1>8, <2>4, <2>5
  <2>6. CASE SegOf[b] = s /\ dirty[b] = "on-finish"
    <3>1. last_access[SegOf[c]] < last_access[s]
      BY <1>6, <1>7, <2>4, <2>6 DEF FinishLast, FinishYoungest
    <3>2. SegOf[c] \in Dirty BY <1>2, <2>4 DEF Dirty, IsDirty
    <3>3. last_access[s] <= last_access[SegOf[c]] BY <2>1, <3>2 DEF LeastRecent
    <3> QED BY <1>1, <1>2, <2>2, <3>1, <3>3 DEF Counters
  <2> QED BY <2>3, <2>5, <2>6
<1>11. CASE OrderUsed
  <2>1. PICK k \in DOMAIN task.finish, s \in Segs :
          /\ Uses(task.finish[k], s) /\ FinishBefore(k - 1)
          /\ \A x \in Blocks : dirty'[x] = dirty[x] \/ (SegOf[x] = s /\ dirty'[x] = "on-finish")
    BY <1>11 DEF OrderUsed
  <2>2. media[b] = "on-finish" BY <1>11 DEF OrderUsed
  <2>3. CASE dirty'[c] = dirty[c] BY <1>8, <2>2, <2>3
  <2>4. CASE SegOf[c] = s /\ dirty'[c] = "on-finish"
    <3>1. OnFinish(b) BY <2>2 DEF OnFinish
    <3>2. SegOf[b] = s BY <1>6, <2>1, <2>4, <3>1, ApartBefore
    <3> QED BY <2>4, <3>2
  <2> QED BY <2>1, <2>3, <2>4
<1> QED BY <1>4, <1>5, <1>6, <1>9, <1>10, <1>11, OrderCases

LEMMA FinishLastKept ==
  TypeOK /\ Phases /\ Held /\ AfterReset /\ FinishLast /\ [Next]_vars => FinishLast'
<1> SUFFICES ASSUME TypeOK, Phases, Held, AfterReset, FinishLast, [Next]_vars PROVE FinishLast'
  OBVIOUS
<1>1. FinishProcessed' /\ FinishAbsent' BY FinishProcessedKept DEF FinishLast
<1>2. FinishLeft' /\ FinishRan' BY FinishLeftKept, FinishRanKept DEF FinishLast
<1>3. FinishYoungest' /\ FinishAlone' BY FinishYoungestKept, FinishAloneKept
<1> QED BY <1>1, <1>2, <1>3 DEF FinishLast

\* In a state that is sound, what on-finish wrote on the media says that nothing
\* of on-init and on-resource waits in the cache any more.
LEMMA SoundLanded ==
  ASSUME Phases, Held, AfterReset, EarlierPlaces, FinishAlone,
         Sound, Switched, FinishApart, ~FlushFailed, NEW t \in Blocks, want[t] \in Earlier
  PROVE  media[t] = want[t] \/ InFlight(SegOf[t])
<1>1. dirty[t] = None
  <2> SUFFICES ASSUME dirty[t] # None PROVE FALSE OBVIOUS
  <2>1. dirty[t] \in Earlier BY DEF Held
  <2>2. resetAt = -1 BY <2>1, NotNone DEF AfterReset, Earlier, Event
  <2>3. ChangedEarlier(SegOf[t]) BY DEF EarlierPlaces
  <2>4. PICK b \in Blocks : media[b] = "on-finish" BY DEF Switched
  <2>5. dirty[t] = "on-finish" BY <2>2, <2>3, <2>4 DEF FinishAlone
  <2> QED BY <2>1, <2>5 DEF Earlier
<1> QED BY <1>1 DEF Held

\* The same after a step that leads to such a state.
LEMMA SoundLandedNext ==
  ASSUME Phases', Held', AfterReset', EarlierPlaces', FinishAlone',
         Sound', Switched', FinishApart', ~FlushFailed', NEW t \in Blocks, want'[t] \in Earlier
  PROVE  media'[t] = want'[t] \/ InFlight(SegOf[t])'
<1>1. dirty'[t] = None
  <2> SUFFICES ASSUME dirty'[t] # None PROVE FALSE OBVIOUS
  <2>1. dirty'[t] \in Earlier BY DEF Held
  <2>2. resetAt' = -1 BY <2>1, NotNone DEF AfterReset, Earlier, Event
  <2>3. ChangedEarlier(SegOf[t])' BY DEF EarlierPlaces
  <2>4. PICK b \in Blocks : media'[b] = "on-finish" BY DEF Switched
  <2>5. dirty'[t] = "on-finish" BY <2>2, <2>3, <2>4 DEF FinishAlone
  <2> QED BY <2>1, <2>5 DEF Earlier
<1> QED BY <1>1 DEF Held

\* A flush that fails before the switch is complete tears no segment of an
\* earlier handler, unless it tears the switch with it.
LEMMA TornLanded ==
  ASSUME TypeOK, Phases, Held, AfterReset, EarlierPlaces, FinishAlone, resetAt = -1,
         Sound, FinishApart, ~FlushFailed, NEW s \in Dirty, FlushBad(s), Switched',
         UNCHANGED <<want, flying>>, NEW t \in Blocks, want[t] \in Earlier
  PROVE  media'[t] = want[t] \/ InFlight(SegOf[t])
<1>1. Contents /\ s \in Segs BY TypeParts DEF Dirty
<1>2. \A b \in Blocks : media'[b] = media[b] \/ (SegOf[b] = s /\ media'[b] = "torn")
  BY <1>1, FlushWrong
<1>3. PICK b \in Blocks : media'[b] = "on-finish" BY DEF Switched
<1>4. media[b] = "on-finish" BY <1>2, <1>3
<1>5. media[t] = want[t] \/ InFlight(SegOf[t]) BY <1>4, SoundLanded DEF Switched
<1>6. CASE media'[t] = media[t] BY <1>5, <1>6
<1>7. CASE media'[t] # media[t]
  <2>1. SegOf[t] = s /\ \A x \in Blocks : SegOf[x] = s => media'[x] = "torn"
    BY <1>1, <1>2, <1>7, FlushWrong
  <2>2. PICK y \in Blocks : SegOf[y] = s /\ dirty[y] # None BY DEF Dirty, IsDirty
  <2>3. ChangedEarlier(s) BY <2>1 DEF EarlierPlaces
  <2>4. SegOf[b] = s BY <1>4, <2>2, <2>3 DEF FinishAlone
  <2> QED BY <1>3, <2>1, <2>4
<1> QED BY <1>6, <1>7

\* What leads to "failed" once FatFs is closed, the state before the reset.
LEMMA FailedCases ==
  ASSUME TypeOK, Phases, [Next]_vars, pc' = "failed", fat' = None
  PROVE  \/ pc = "failed" /\ UNCHANGED <<rc, task, want, fat, resetAt>> /\ writer_worker
         \/ pc = "failed" /\ fatfs_closefs
         \/ pc = "failed" /\ UNCHANGED vars
         \/ fwup_apply
         \/ /\ pc \in {"archive", "on-init", "on-resource", "on-finish"}
            /\ UNCHANGED <<task, media, flying, bad_offset, want, resetAt>>
         \/ InEvent /\ pc # "on-error" /\ f.op = "stream" /\ StreamFailed
         \/ /\ InEvent /\ pc # "on-error" /\ UNCHANGED <<task, flying, want, resetAt>>
            /\ \E s \in Dirty : FlushBad(s)
<1>1. Control BY TypeParts
<1>2. InEvent /\ pc # "on-error" => pc \in {"on-init", "on-resource", "on-finish"} BY DEF InEvent, Event
<1>3. InEvent /\ (FunDone \/ (EventFails /\ pc = "on-error")) => FALSE
  BY DEF InEvent, Event, FunDone, EventFails
<1>4. CASE fwup_apply BY <1>4
<1>5. CASE stream_run
  <2>1. InEvent /\ f.op = "stream" /\ (StreamRefused \/ StreamFailed) /\ pc # "on-error"
    BY <1>3, <1>5, StreamCases DEF StreamHanded, StreamWritten, StreamKept, StreamRefused, StreamFailed
  <2>2. StreamRefused => UNCHANGED <<task, media, flying, bad_offset, want, resetAt>>
    BY DEF StreamRefused, EventFails
  <2> QED BY <1>2, <2>1, <2>2
<1>6. CASE write_run BY <1>3, <1>6 DEF write_run
<1>7. CASE read_run \/ error_run
  <2>1. InEvent /\ EventFails /\ UNCHANGED <<media, flying, bad_offset, want>>
    BY <1>3, <1>7 DEF read_run, error_run, asyncVars, destVars
  <2> QED BY <1>2, <1>3, <2>1 DEF EventFails
<1>8. CASE full_run
  <2>1. InEvent /\ fat' = [block |-> f.block, val |-> pc] BY <1>8 DEF full_run
  <2>2. fat' \in [block : Blocks, val : Event] BY <1>1, <2>1, NextFunTyped DEF Control, InEvent
  <2> QED BY <2>2, NotNone
<1>9. CASE Evict
  <2>1. InEvent /\ UNCHANGED <<flying, want>> BY <1>9 DEF Evict
  <2>2. \E s \in Dirty : FlushBad(s) /\ EventFails
    BY <1>9, <2>1 DEF Evict, InEvent, Event
  <2> QED BY <1>3, <2>1, <2>2 DEF EventFails
<1>10. CASE fatfs_closefs BY <1>10 DEF fatfs_closefs
<1>11. CASE EventDone BY <1>11 DEF EventDone
<1>12. CASE NextEntry \/ EndOfArchive
  BY <1>12 DEF NextEntry, EndOfArchive, CacheUnchanged, asyncVars, destVars
<1>13. CASE StartErrorHandler \/ ErrorHandlerFailed \/ CloseFs \/ block_cache_flush \/ block_cache_free
  BY <1>13 DEF StartErrorHandler, ErrorHandlerFailed, CloseFs, block_cache_flush, block_cache_free
<1>14. CASE writer_worker BY <1>14 DEF writer_worker, evVars, cacheVars
<1>15. CASE UNCHANGED vars BY <1>15 DEF vars
<1> QED BY <1>4, <1>5, <1>6, <1>7, <1>8, <1>9, <1>10, <1>11, <1>12, <1>13, <1>14, <1>15
        DEF Next, MainStep, Done

LEMMA SwitchLastKept ==
  ASSUME AInv, [Next]_vars, Phases', TypeOK', Held', AfterReset', EarlierSegs', FinishLast'
  PROVE  SwitchLast'
<1> USE DEF AInv
<1>0. SUFFICES ASSUME Switched', ~FlushFailed', ~FailedAgain', FinishApart',
                      NEW t \in Blocks, want'[t] \in Earlier, ~bad_offset'
               PROVE  media'[t] = want'[t] \/ InFlight(SegOf[t])'
  <2>1. Switched' => AllProcessed' BY DEF FinishLast, FinishProcessed, FinishWrote, OnFinish, Switched
  <2> QED BY <2>1 DEF SwitchLast, EarlierLanded
<1>1. Control /\ Contents /\ Counters BY TypeParts
<1>2. Control' /\ Counters' BY DEF TypeOK, Control, Counters
<1>3. CASE Sound' BY <1>0, <1>3, SoundLandedNext DEF EarlierSegs, FinishLast
<1>4. CASE ~Sound'
  <2>1. pc' = "failed" /\ fat' = None /\ resetAt' = -1 /\ rc' = "error"
    <3>1. resetAt' = -1 BY <1>0, <1>4 DEF FailedAgain, Sound
    <3>2. rc' = "error" BY <1>0, <1>2, <1>4 DEF Sound, Control
    <3>3. pc' \notin {"cleanup", "last_flush", "free", "done"} BY <1>0, <3>1, <3>2 DEF FlushFailed
    <3>4. pc' = "failed" BY <1>2, <3>1, <3>2, <3>3 DEF Phases, Control, Event
    <3> QED BY <1>0, <1>4, <3>1, <3>2, <3>4 DEF Sound
  <2>2. resetAt = -1 /\ (FlushFailed => FlushFailed') BY <2>1, Moves DEF Moved
  <2>3. ~FlushFailed /\ ~FailedAgain BY <1>0, <2>2 DEF FailedAgain
  <2>4. CASE fwup_apply
    <3>1. ~FinishWrote BY <2>4 DEF fwup_apply, FinishLast, FinishAbsent
    <3>2. ~Switched BY <3>1 DEF FinishWrote, OnFinish, Switched
    <3> QED BY <1>0, <2>4, <3>2 DEF fwup_apply, destVars, Switched
  <2>5. CASE task' = task
    <3>1. FinishApart BY <1>0, <2>5 DEF FinishApart, ChangedEarlier, Handled
    <3>2. CASE pc = "failed" /\ UNCHANGED vars
      <4>1. UNCHANGED <<media, want, flying, bad_offset>> BY <3>2 DEF vars, destVars, asyncVars
      <4>2. Switched BY <1>0, <4>1 DEF Switched
      <4>3. EarlierLanded BY <2>3, <3>1, <4>2 DEF SwitchLast
      <4> QED BY <1>0, <4>1, <4>3 DEF EarlierLanded, InFlight
    <3>3. CASE pc = "failed" /\ UNCHANGED <<rc, task, want, fat, resetAt>> /\ writer_worker
      <4>1. flying.val # "on-finish" /\ flying # None /\ flying' = None
        BY <3>1, <3>3 DEF FinishLast, FinishLeft, writer_worker
      <4>2. ~bad_offset /\ \A x \in Blocks : media'[x] = IF SegOf[x] = flying.seg THEN flying.val ELSE media[x]
        BY <1>0, <3>3 DEF writer_worker, Fill
      <4>3. Switched BY <1>0, <4>1, <4>2 DEF Switched
      <4>4. media[t] = want[t] \/ InFlight(SegOf[t])
        BY <1>0, <2>3, <3>1, <3>3, <4>2, <4>3 DEF SwitchLast, EarlierLanded
      <4>5. InFlight(SegOf[t]) => flying.val = want[t] BY DEF Held
      <4> QED BY <3>3, <4>1, <4>2, <4>4, <4>5 DEF InFlight
    <3>4. CASE pc = "failed" /\ fatfs_closefs
      <4>0. fat # None /\ fat.block \in Blocks /\ flying' = flying BY <3>4, CloseCases
      <4>1. CASE CloseStores
        <5>1. ~bad_offset /\ media' = media BY <1>0, <4>1 DEF CloseStores
        <5>2. Sound BY <3>4, <4>0, <5>1 DEF Sound
        <5>3. Switched BY <1>0, <5>1 DEF Switched
        <5>4. fat.val \notin Earlier
          <6>1. FinishWrote BY <5>3 DEF Switched, FinishWrote, OnFinish
          <6> QED BY <4>0, <6>1 DEF FinishLast, FinishAbsent
        <5>5. want'[t] = want[t] BY <1>0, <4>1, <5>4 DEF CloseStores
        <5>6. media[t] = want[t] \/ InFlight(SegOf[t])
          BY <1>0, <2>3, <3>1, <5>2, <5>3, <5>5, SoundLanded DEF EarlierSegs, FinishLast
        <5> QED BY <4>0, <5>1, <5>5, <5>6 DEF InFlight
      <4>2. CASE CloseCannotRead
        <5>1. ~bad_offset /\ UNCHANGED <<media, want>> BY <1>0, <4>2 DEF CloseCannotRead
        <5>2. Sound BY <3>4, <4>0, <5>1 DEF Sound
        <5>3. Switched BY <1>0, <5>1 DEF Switched
        <5>4. media[t] = want[t] \/ InFlight(SegOf[t])
          BY <1>0, <2>3, <3>1, <5>1, <5>2, <5>3, SoundLanded DEF EarlierSegs, FinishLast
        <5> QED BY <4>0, <5>1, <5>4 DEF InFlight
      <4>3. CASE CloseEvicts
        <5>1. PICK s \in Dirty : FlushBad(s) BY <2>1, <4>0, <4>3 DEF CloseEvicts
        <5>2. want' = want BY <4>3 DEF CloseEvicts
        <5>3. ~bad_offset BY <1>0, <1>1, <5>1, FlushWrong DEF Dirty
        <5>4. Sound BY <3>4, <4>0, <5>3 DEF Sound
        <5>5. media'[t] = want[t] \/ InFlight(SegOf[t])
          BY <1>0, <2>2, <2>3, <3>1, <4>0, <5>1, <5>2, <5>4, TornLanded DEF EarlierSegs, FinishLast
        <5> QED BY <4>0, <5>2, <5>5 DEF InFlight
      <4> QED BY <3>4, <4>1, <4>2, <4>3, CloseCases
    <3>a. ASSUME pc \in {"archive", "on-init", "on-resource", "on-finish"}, ~bad_offset PROVE Sound
      <4>1. rc = "ok" BY <1>1, <3>a DEF Phases, Control
      <4> QED BY <3>a, <4>1 DEF Sound
    <3>5. CASE /\ pc \in {"archive", "on-init", "on-resource", "on-finish"}
               /\ UNCHANGED <<task, media, flying, bad_offset, want, resetAt>>
      <4>1. Sound BY <1>0, <3>5, <3>a
      <4>2. Switched BY <1>0, <3>5 DEF Switched
      <4>3. media[t] = want[t] \/ InFlight(SegOf[t])
        BY <1>0, <2>3, <3>1, <3>5, <4>1, <4>2, SoundLanded DEF EarlierSegs, FinishLast
      <4> QED BY <3>5, <4>3 DEF InFlight
    <3>6. CASE InEvent /\ pc # "on-error" /\ f.op = "stream" /\ StreamFailed
      <4>1. pc # "on-finish" BY <3>1, <3>6, FinishStreamsNot DEF FinishLast
      <4>2. pc \in {"on-init", "on-resource"} BY <3>6, <4>1 DEF InEvent, Event
      <4>3. ~FinishWrote' BY <4>1, <4>2, FinishWroteKept DEF FinishLast, FinishAbsent
      <4> QED BY <1>0, <4>3 DEF FinishWrote, OnFinish, Switched
    <3>7. CASE /\ InEvent /\ pc # "on-error" /\ UNCHANGED <<task, flying, want, resetAt>>
               /\ \E s \in Dirty : FlushBad(s)
      <4>1. PICK s \in Dirty : FlushBad(s) BY <3>7
      <4>2. ~bad_offset BY <1>0, <1>1, <4>1, FlushWrong DEF Dirty
      <4>3. Sound BY <3>7, <3>a, <4>2 DEF InEvent, Event
      <4>4. media'[t] = want[t] \/ InFlight(SegOf[t])
        BY <1>0, <2>2, <2>3, <3>1, <3>7, <4>1, <4>3, TornLanded DEF EarlierSegs, FinishLast
      <4> QED BY <3>7, <4>4 DEF InFlight
    <3> QED BY <2>1, <2>4, <3>2, <3>3, <3>4, <3>5, <3>6, <3>7, FailedCases
  <2> QED BY <2>4, <2>5, TaskKept
<1> QED BY <1>3, <1>4

----------------------------------------------------------------------------
(* The theorems                                                            *)

LEMMA InitAInv == Init => AInv
<1> SUFFICES ASSUME Init PROVE AInv OBVIOUS
<1>1. TypeOK /\ Started BY InitTyped DEF Init, Started
<1>2. NoThreads /\ Phases BY DEF Init, NoThreads, Phases
<1>3. \A b \in Blocks : dirty[b] = None /\ media[b] = "old" /\ want[b] = "old" BY DEF Init
<1>4. flying = None /\ fat = None BY DEF Init
<1>5. Held /\ AfterReset BY <1>3, <1>4 DEF Init, Held, AfterReset, InFlight
<1>6. OnError BY DEF Init, OnError
<1>7. None \notin Earlier /\ "old" \notin Earlier /\ None # "on-finish" BY NotNone DEF Event, Earlier
<1>8. EarlierSegs
  <2>1. \A s : ~ChangedEarlier(s) BY DEF Init, NoTask, ChangedEarlier, Handled
  <2> QED BY <1>3, <1>4, <1>7, <2>1 DEF Init, EarlierSegs, EarlierRuns, EarlierPlaces
<1>9. ~FinishWrote /\ ~Switched
  BY <1>3, <1>4, <1>7 DEF FinishWrote, OnFinish, InFlight, Switched
<1>10. FinishProcessed /\ FinishAbsent /\ FinishLeft BY <1>4, <1>9 DEF Init, FinishProcessed, FinishAbsent, FinishLeft
<1>11. FinishRan BY <1>4 DEF Init, FinishRan
<1>12. FinishYoungest /\ FinishAlone BY <1>3, <1>7 DEF FinishYoungest, FinishAlone
<1> QED BY <1>1, <1>2, <1>5, <1>6, <1>8, <1>9, <1>10, <1>11, <1>12 DEF AInv, FinishLast, SwitchLast

LEMMA StepAInv == AInv /\ [Next]_vars => AInv'
<1> SUFFICES ASSUME AInv, [Next]_vars PROVE AInv' OBVIOUS
<1>1. TypeOK' /\ Started' BY StepTyped DEF AInv, TInv
<1>2. NoThreads' /\ Phases' BY NoThreadsKept, PhasesKept DEF AInv
<1>3. Held' /\ AfterReset' BY HeldKept, AfterResetKept DEF AInv
<1>4. OnError' BY OnErrorKept DEF AInv
<1>5. EarlierSegs' BY EarlierRunsKept, EarlierPlacesKept DEF AInv, EarlierSegs
<1>6. FinishLast' BY FinishLastKept DEF AInv
<1>7. SwitchLast' BY <1>1, <1>2, <1>3, <1>5, <1>6, SwitchLastKept
<1> QED BY <1>1, <1>2, <1>3, <1>4, <1>5, <1>6, <1>7 DEF AInv

\* The inductive invariant: where every write of a handler is, in every phase
\* of fwup_apply and run_task.
THEOREM ApplyInvariant == Spec => []AInv
BY InitAInv, StepAInv, PTL DEF Spec

\* The switch comes last: no write of an on-finish that is FinishApart is on the
\* media before all that on-init and on-resource wrote, at any moment a power
\* failure can choose.
THEOREM SwitchComesLast == Spec => []SwitchLast
<1>1. AInv => SwitchLast BY DEF AInv
<1> QED BY <1>1, ApplyInvariant, PTL

\* The on-error handler gets through: a run that ends without a new fault of the
\* destination leaves all that on-error wrote on the media.
THEOREM ErrorHandlerGetsThrough == Spec => []ErrorHandlerLands
<1>1. AInv => ErrorHandlerLands
  <2> SUFFICES ASSUME AInv, pc = "done", resetAt = faults, ErrorCannotFail,
                      NEW i \in DOMAIN task.error, NEW b \in Blocks, Writes(task.error[i], b)
               PROVE  media[b] = "on-error"
    BY DEF ErrorHandlerLands, ErrorCannotFail
  <2>1. want[b] = "on-error" BY DEF AInv, OnError, ErrorWrote
  <2>2. Sound /\ flying = None BY DEF AInv, AfterReset, Sound, Phases
  <2>3. dirty[b] = None BY <2>2 DEF AInv, Held
  <2> QED BY <2>1, <2>2, <2>3 DEF AInv, Held, InFlight
<1> QED BY <1>1, ApplyInvariant, PTL

\* Progress stays within the total, and 100% is reported only for an update
\* that is on the media, unless the writer thread's last segment failed.
THEOREM SuccessIsOnMedia == Spec => []SuccessOnMedia
<1>1. AInv => SuccessOnMedia
  <2> SUFFICES ASSUME AInv PROVE SuccessOnMedia OBVIOUS
  <2>1. current_units <= total_units BY DEF AInv, TypeOK
  <2>2. ASSUME complete, ~bad_offset PROVE media = want
    <3>1. pc = "done" /\ rc = "ok" /\ flying = None BY <2>2 DEF AInv, Phases
    <3>2. Sound BY <2>2, <3>1 DEF Sound
    <3>3. \A b \in Blocks : media[b] = want[b] BY <3>1, <3>2 DEF AInv, Held, InFlight
    <3>4. media \in [Blocks -> Value] /\ want \in [Blocks -> Value] BY DEF AInv, TypeOK
    <3> QED BY <3>3, <3>4
  <2> QED BY <2>1, <2>2 DEF SuccessOnMedia
<1> QED BY <1>1, ApplyInvariant, PTL

\* After a failed handler, and after a final flush that failed in a write, nothing
\* reaches the media but what on-error wrote and the segment already in the
\* writer thread's hands.
THEOREM FailureStopsAllWrites == Spec => FailureStopsWrites
<1>1. AInv /\ [Next]_vars =>
        [(rc = "error" /\ (FlushFailed => bad_offset) /\ (pc = "failed" => fat = None))
           => OnlyErrorHandlerWrites]_vars
  <2> SUFFICES ASSUME AInv, Next, rc = "error", FlushFailed => bad_offset, pc = "failed" => fat = None,
                      NEW b \in Blocks, media'[b] # media[b]
               PROVE  \/ InFlight(SegOf[b])
                      \/ OfErrorHandler(SegOf[b])
                      \/ pc = "on-error" /\ InEvent /\ f.op = "stream" /\ seg = SegOf[b]
    BY DEF OnlyErrorHandlerWrites
  <2>1. Control /\ Contents BY TypeParts DEF AInv
  <2>2. InEvent => pc = "on-error" BY DEF InEvent, Event, AInv, Phases
  <2>3. ASSUME NEW s \in Dirty, FlushOk(s) \/ FlushBad(s), resetAt # -1 \/ bad_offset PROVE OfErrorHandler(SegOf[b])
    <3>1. s \in Segs /\ IsDirty(s) BY DEF Dirty
    <3>2. SegOf[b] = s /\ ~bad_offset BY <2>1, <2>3, <3>1, FlushGood, FlushWrong
    <3>3. \A x \in Blocks : dirty[x] \in {None, "on-error"} BY <2>3, <3>2 DEF AInv, AfterReset
    <3> QED BY <3>1, <3>2, <3>3 DEF OfErrorHandler
  <2>4. CASE stream_run
    <3>1. InEvent /\ f.op = "stream" /\ seg = SegOf[b]
      BY <2>4, StreamCases DEF StreamRefused, StreamHanded, StreamWritten, StreamFailed, StreamKept
    <3> QED BY <2>2, <3>1
  <2>5. CASE Evict
    <3>1. PICK s \in Dirty : FlushOk(s) \/ FlushBad(s) BY <2>5 DEF Evict
    <3>2. resetAt # -1 BY <2>2, <2>5 DEF Evict, AInv, Phases
    <3> QED BY <2>3, <3>1, <3>2
  <2>6. CASE fatfs_closefs
    <3>1. fat # None /\ pc = "failed_again" BY <2>6, CloseCases DEF AInv, Phases
    <3>2. resetAt # -1 BY <3>1 DEF AInv, Phases
    <3>3. CloseEvicts BY <2>6, CloseCases DEF CloseStores, CloseCannotRead, AInv
    <3> QED BY <2>3, <3>2, <3>3 DEF CloseEvicts
  <2>7. CASE block_cache_flush
    <3>1. PICK s \in Dirty : FlushOk(s) \/ FlushBad(s) BY <2>7 DEF block_cache_flush, destVars
    <3>2. resetAt # -1 \/ bad_offset BY <2>7 DEF block_cache_flush, AInv, Phases, FlushFailed
    <3> QED BY <2>3, <3>1, <3>2
  <2>8. CASE writer_worker
    <3>1. media'[b] = media[b] \/ SegOf[b] = flying.seg BY <2>8 DEF writer_worker, Fill
    <3> QED BY <2>8, <3>1 DEF writer_worker, InFlight
  <2>9. CASE fwup_apply \/ write_run \/ read_run \/ full_run \/ error_run \/ EventDone \/ NextEntry
    BY <2>9 DEF fwup_apply, write_run, read_run, full_run, error_run, EventDone, NextEntry,
       CacheUnchanged, destVars
  <2>10. CASE EndOfArchive \/ StartErrorHandler \/ ErrorHandlerFailed \/ CloseFs \/ block_cache_free \/ Done
    BY <2>10 DEF EndOfArchive, StartErrorHandler, ErrorHandlerFailed, CloseFs, block_cache_free, Done,
       CacheUnchanged, destVars, vars
  <2> QED BY <2>4, <2>5, <2>6, <2>7, <2>8, <2>9, <2>10 DEF Next, MainStep
<1> QED BY <1>1, ApplyInvariant, PTL DEF Spec, FailureStopsWrites

============================================================================
