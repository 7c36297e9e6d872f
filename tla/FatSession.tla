----------------------------- MODULE FatSession -----------------------------
(***************************************************************************)
(* The FAT session of fwup (fatfs.c): a ring of Volumes mounted file       *)
(* systems, one file that is kept open between writes and remembered by    *)
(* its name, and the fat_* functions of functions.c and requirement.c that *)
(* use them.  FatFs (3rdparty/fatfs) is external: of it this module keeps  *)
(* when an entry may be opened, made, renamed or removed, and that a file  *)
(* object is refused once its volume was registered or formatted again.    *)
(*                                                                         *)
(* The file systems live behind the block cache; every function syncs      *)
(* FatFs before it returns, so fs is what the cache holds.  The data of a  *)
(* file are units of one write of process_resource.                        *)
(***************************************************************************)
EXTENDS Integers, Sequences, SequencesExt, FiniteSets

CONSTANTS
  Offsets, Names, Contents, NoFS, None, Dir, Torn, Hole,  \* see FatStore
  Volumes,    \* FF_VOLUMES, 4 in the code
  Cap,        \* units a file system has room for
  MaxCalls,   \* bound: functions of a session
  Pitfalls    \* calls with a known trap that may be made, see Avoided

\* What a file holds, an entry of a directory, and a fat_write under way.
Zero == "zero"
Data == Offsets \cup {Zero} \cup UNION {ToSet(c) : c \in Contents}
FileEntry == [data : Seq(Data), ro : BOOLEAN]
Entry == {None, Dir} \cup FileEntry
Job == [at : Offsets, name : Names, content : Contents, ix : Nat]

ASSUME FatAssumption ==
  /\ Volumes \in Nat \ {0} /\ Cap \in Nat /\ MaxCalls \in Nat
  /\ Pitfalls \subseteq {"same_name", "cp_evicts", "attrib_fails"}
  /\ Contents \subseteq Seq(Data)
  /\ None \notin Offsets \cup Names /\ None # Dir
  /\ None \notin FileEntry /\ Dir \notin FileEntry
  /\ None \notin Job \cup [at : Offsets, name : Names, content : Contents]
  /\ NoFS \notin [Names -> Entry \cup {Torn}]

VARIABLES
  fs,         \* fs[o]: NoFS or the entries of the file system at o
  ses,        \* mounted_, next_mount_, current_file_ and fil_
  job,        \* the fat_write under way: [at, name, content, ix], or None
  phase,      \* "select", "run", "finish", "error" or "done" of fwup_apply
  failed,     \* a function has returned < 0
  calls,      \* functions completed
  last,       \* the function completed last, with its arguments
  \* history
  used        \* file systems used, or formatted, since the session was opened
vars == <<fs, ses, job, phase, failed, calls, last, used>>

Slots == 0 .. Volumes - 1
File(data, ro) == [data |-> data, ro |-> ro]
IsFile(e) == e \notin {None, Dir}
NoFile == [slot |-> 0, at |-> None, name |-> None, pos |-> 0, valid |-> FALSE]
Fresh == [mounted |-> [k \in Slots |-> None], next |-> 0, cur |-> None, fil |-> NoFile]

\* What the device may hold: nothing, or a file system with old files.
Before(o) == {NoFS, [n \in Names |-> File(<<o>>, FALSE)]}
Init ==
  /\ fs \in {f \in [Offsets -> UNION {Before(o) : o \in Offsets}] : \A o \in Offsets : f[o] \in Before(o)}
  /\ ses = Fresh
  /\ job = None /\ phase = "select" /\ failed = FALSE /\ calls = 0 /\ last = None
  /\ used = [seen |-> {}, formatted |-> FALSE]

----------------------------------------------------------------------------
(* Mounts and the open file                                                *)

Mounted(s, o) == \E k \in Slots : s.mounted[k] = o
SlotOf(s, o) == CHOOSE k \in Slots : s.mounted[k] = o

\* FatFs: a file object of volume k is refused from now on.
Invalidate(fil, k) == [fil EXCEPT !.valid = @ /\ fil.slot # k]

\* The slot maybe_mount takes: the next free one, or the one next_mount_ is at
\* if all are taken.
NextSlot(s) ==
  LET ring(i) == (s.next + i) % Volumes
      free == {i \in Slots : s.mounted[ring(i)] = None}
  IN  IF free = {} THEN s.next ELSE ring(CHOOSE i \in free : \A j \in free : i <= j)

maybe_mount(s, o) ==
  IF Mounted(s, o) THEN s
  ELSE [s EXCEPT !.mounted[NextSlot(s)] = o, !.next = (NextSlot(s) + 1) % Volumes,
                 !.fil = Invalidate(@, NextSlot(s))]

close_open_files(s) == [s EXCEPT !.cur = None, !.fil = NoFile]

\* What most functions start with.
CloseAndMount(s, o) == maybe_mount(close_open_files(s), o)

----------------------------------------------------------------------------
(* The entries of a file system                                            *)

Size(e) == IF e = None THEN 0 ELSE IF e = Dir THEN 1 ELSE Len(e.data)
\* Units left: none if the files have taken more than there were.
Room(st) == LET taken == MapThenSumSet(LAMBDA n : Size(st[n]), Names)
            IN  IF taken \in 0 .. Cap THEN Cap - taken ELSE 0

\* f_open with FA_CREATE_ALWAYS or FA_OPEN_ALWAYS, and with FA_READ.
MayCreate(st, n) == st[n] = None \/ (IsFile(st[n]) /\ ~st[n].ro)
MayRead(st, n) == IsFile(st[n])

\* f_write of units at pos of file n: the file, and whether it fitted.  Behind
\* the end of the file fatfs_pwrite writes zeros first.
WithData(old, pos, units) ==
  LET padded == IF pos > Len(old) THEN old \o [i \in 1 .. pos - Len(old) |-> Zero] ELSE old
      end == pos + Len(units)
  IN  [i \in 1 .. (IF end > Len(padded) THEN end ELSE Len(padded)) |->
         IF i > pos /\ i <= end THEN units[i - pos] ELSE padded[i]]

----------------------------------------------------------------------------
(* How a function ends                                                     *)

MayCall == phase \in {"run", "finish", "error"} /\ ~failed /\ job = None /\ calls < MaxCalls

\* The file systems a function mounts, and whether it formats one.
Uses(os, format) == used' = [seen |-> used.seen \cup os, formatted |-> used.formatted \/ format]

Return(f, s, r) ==
  /\ ses' = s /\ fs' = r.fs /\ failed' = ~r.ok
  /\ calls' = calls + 1 /\ last' = IF r.ok THEN f ELSE last
  /\ UNCHANGED <<job, phase>>

\* What a function of fatfs.c leaves behind: the file systems and its outcome.
Result(ok, st) == [ok |-> ok, fs |-> st]
Put(o, n, e) == [fs EXCEPT ![o][n] = e]

\* Traps in the code that a careful fwup.conf avoids; Pitfalls lists the ones
\* that are stepped into.
Avoided(trap, steps) == trap \in Pitfalls \/ ~steps

----------------------------------------------------------------------------
(* The functions                                                           *)

\* fatfs_mkfs mounts, clears and formats; it does not close the open file.
\* f_mkfs may refuse the size, with the old contents gone or not.
fatfs_mkfs(o) ==
  {Result(TRUE, [fs EXCEPT ![o] = [n \in Names |-> None]])}
    \cup {Result(FALSE, [fs EXCEPT ![o] = left]) : left \in {fs[o], NoFS}}
fat_mkfs(o) ==
  /\ MayCall
  /\ LET m == maybe_mount(ses, o)
     IN  \E r \in fatfs_mkfs(o) :
           Return(<<"mkfs", o>>, [m EXCEPT !.fil = Invalidate(@, SlotOf(m, o))], r)
  /\ Uses({o}, TRUE)

fatfs_mkdir(o, n) ==
  LET ok == fs[o] # NoFS /\ (fs[o][n] = Dir \/ (fs[o][n] = None /\ Room(fs[o]) > 0))
  IN  Result(ok, IF ok THEN Put(o, n, Dir) ELSE fs)
fat_mkdir(o, n) ==
  /\ MayCall
  /\ Return(<<"mkdir", o, n>>, CloseAndMount(ses, o), fatfs_mkdir(o, n))
  /\ Uses({o}, FALSE)

\* The volume label is not part of fs.
fatfs_setlabel(o) == Result(fs[o] # NoFS, fs)
fat_setlabel(o) ==
  /\ MayCall
  /\ Return(<<"setlabel", o>>, CloseAndMount(ses, o), fatfs_setlabel(o))
  /\ Uses({o}, FALSE)

fatfs_touch(o, n) ==
  LET ok == fs[o] # NoFS /\ MayCreate(fs[o], n)
  IN  Result(ok, IF ok /\ fs[o][n] = None THEN Put(o, n, File(<<>>, FALSE)) ELSE fs)
fat_touch(o, n) ==
  /\ MayCall
  /\ Return(<<"touch", o, n>>, CloseAndMount(ses, o), fatfs_touch(o, n))
  /\ Uses({o}, FALSE)

\* f_unlink refuses a read-only file.
MayUnlink(st, n) == st[n] # None /\ ~(IsFile(st[n]) /\ st[n].ro)
fatfs_rm(o, n, file_must_exist) ==
  LET gone == fs[o] # NoFS /\ MayUnlink(fs[o], n)
      ok == gone \/ (fs[o] # NoFS /\ fs[o][n] = None /\ ~file_must_exist)
  IN  Result(ok, IF gone THEN Put(o, n, None) ELSE fs)
RmOpen(o, n, file_must_exist) == \* variant: the open file is not closed first
  /\ MayCall
  /\ Return(<<"rm", o, n>>, maybe_mount(ses, o), fatfs_rm(o, n, file_must_exist))
  /\ Uses({o}, FALSE)
fat_rm(o, n, file_must_exist) ==
  /\ MayCall
  /\ Return(<<"rm", o, n>>, CloseAndMount(ses, o), fatfs_rm(o, n, file_must_exist))
  /\ Uses({o}, FALSE)

\* fatfs_mv: with force the new name is removed first, and stays removed when
\* the rename fails.
fatfs_mv(o, a, b, force) ==
  LET removed == fs[o] # NoFS /\ force /\ MayUnlink(fs[o], b)
      cleared == IF removed THEN Put(o, b, None) ELSE fs
      ok == /\ fs[o] # NoFS
            /\ force => (removed \/ fs[o][b] = None)
            /\ cleared[o][a] # None /\ (cleared[o][b] = None \/ a = b)
  IN  Result(ok, IF ok THEN [cleared EXCEPT ![o][a] = None, ![o][b] = cleared[o][a]] ELSE cleared)
fat_mv(o, a, b, force) ==
  /\ MayCall
  /\ Return(<<"mv", o, a, b>>, CloseAndMount(ses, o), fatfs_mv(o, a, b, force))
  /\ Uses({o}, FALSE)

\* fatfs_cp mounts both file systems and then opens by the two mount paths: if
\* the second mount took the slot of the first, both paths are the second's.
\* q is the file system read.  A file copied onto itself is truncated before it
\* is read.
fatfs_cp(q, a, o, b) ==
  LET opened == fs[q] # NoFS /\ MayRead(fs[q], a) /\ fs[o] # NoFS /\ MayCreate(fs[o], b)
      data == fs[q][a].data
      room == Room(Put(o, b, None)[o])
      fits == Len(data) <= room
      copied == Result(fits, Put(o, b, File(IF fits THEN data ELSE SubSeq(data, 1, room), FALSE)))
      emptied == Result(FALSE, Put(o, b, File(<<>>, FALSE)))
  IN  IF ~opened THEN {Result(FALSE, fs)}
      ELSE IF q = o /\ a = b /\ data # <<>> THEN {copied, emptied}
      ELSE {copied}
fat_cp(p, a, o, b) ==
  /\ MayCall
  /\ LET s1 == CloseAndMount(ses, p)
         s2 == maybe_mount(s1, o)
         q == s2.mounted[SlotOf(s1, p)]
     IN  /\ Avoided("cp_evicts", q # p)
         /\ \E r \in fatfs_cp(q, a, o, b) : Return(<<"cp", p, a, o, b>>, s2, r)
  /\ Uses({o, p}, FALSE)

\* fatfs_attrib does not close the open file, and fat_attrib_run returns 1 when
\* it fails, which fun_apply_funlist takes for success.
fatfs_attrib(o, n, ro) ==
  LET ok == fs[o] # NoFS /\ fs[o][n] # None
  IN  Result(ok, IF ok /\ IsFile(fs[o][n]) THEN Put(o, n, File(fs[o][n].data, ro)) ELSE fs)
fat_attrib(o, n, ro) ==
  /\ MayCall
  /\ LET r == fatfs_attrib(o, n, ro)
     IN  /\ Avoided("attrib_fails", ~r.ok)
         /\ Return(<<"attrib", o, n, ro>>, maybe_mount(ses, o), [r EXCEPT !.ok = TRUE])
  /\ Uses({o}, FALSE)

----------------------------------------------------------------------------
(* fat_write: truncate, the writes of process_resource, and the last hole  *)

\* fatfs_truncate.  An open file of this name is taken for the file meant.
Reuse(s, o, n) == maybe_mount(IF s.cur # None /\ s.cur # n THEN close_open_files(s) ELSE s, o)
Opened(s, o, n) == [s EXCEPT !.cur = n,
                             !.fil = [slot |-> SlotOf(s, o), at |-> o, name |-> n, pos |-> 0, valid |-> TRUE]]
fat_write_run(o, n, c) ==
  /\ MayCall
  /\ Avoided("same_name", ses.cur = n /\ ses.fil.at # o)
  /\ LET s == Reuse(ses, o, n)
         create == s.cur = None
         ok == IF create THEN fs[o] # NoFS /\ MayCreate(fs[o], n) ELSE s.fil.valid
     IN  /\ ses' = IF ~ok THEN s ELSE IF create THEN Opened(s, o, n) ELSE [s EXCEPT !.fil.pos = 0]
         /\ fs' = IF ~ok THEN fs
                  ELSE IF create THEN Put(o, n, File(<<>>, FALSE))
                  ELSE [fs EXCEPT ![s.fil.at][s.fil.name].data = <<>>]
         /\ failed' = ~ok
         /\ calls' = IF ok THEN calls ELSE calls + 1
         /\ job' = IF ok THEN [at |-> o, name |-> n, content |-> c, ix |-> 0] ELSE None
  /\ Uses({o}, FALSE)
  /\ UNCHANGED <<phase, last>>

\* fatfs_pwrite of units at offset off to the file of the job.  A short write
\* (the disk is full) fails.
Pwrite(off, units, next) ==
  LET s == Reuse(ses, job.at, job.name)
      f == s.fil
      new == WithData(fs[f.at][f.name].data, off, units)
      fits == Len(new) - Len(fs[f.at][f.name].data) <= Room(fs[f.at])
      kept == SubSeq(new, 1, Len(fs[f.at][f.name].data) + Room(fs[f.at]))
      ok == f.valid /\ fits
  IN  /\ ses' = [s EXCEPT !.fil.pos = IF ok THEN off + Len(units) ELSE @]
      /\ fs' = IF ~f.valid THEN fs
               ELSE [fs EXCEPT ![f.at][f.name].data = IF fits THEN new ELSE kept]
      /\ failed' = ~ok
      /\ calls' = IF ok /\ next # None THEN calls ELSE calls + 1
      /\ last' = IF ok /\ next = None THEN <<"write", job.at, job.name>> ELSE last
      /\ job' = IF ok THEN next ELSE None
      /\ UNCHANGED <<phase, used>>

\* One data unit; holes are skipped.
Unit == job.content[job.ix + 1]
fat_write_pwrite_callback ==
  /\ job # None /\ job.ix < Len(job.content) /\ Unit # Hole
  /\ Pwrite(job.ix, <<Unit>>, [job EXCEPT !.ix = @ + 1])
SkipHole ==
  /\ job # None /\ job.ix < Len(job.content) /\ Unit = Hole
  /\ job' = [job EXCEPT !.ix = @ + 1]
  /\ UNCHANGED <<fs, ses, phase, failed, calls, last, used>>

\* The end of the resource: a last hole grows the file by an empty write.
NeverInHole(c) == FALSE         \* variant: the last hole is not written
EndsInHole(c) == c # <<>> /\ c[Len(c)] = Hole
fat_write_final_hole_callback ==
  /\ job # None /\ job.ix = Len(job.content) /\ EndsInHole(job.content)
  /\ Pwrite(job.ix, <<>>, None)
fat_write_done ==
  /\ job # None /\ job.ix = Len(job.content) /\ ~EndsInHole(job.content)
  /\ job' = None /\ calls' = calls + 1 /\ last' = <<"write", job.at, job.name>>
  /\ UNCHANGED <<fs, ses, phase, failed, used>>

\* process_resource gives up: the archive cannot be read, the hash is wrong.
fat_write_fails ==
  /\ job # None
  /\ job' = None /\ failed' = TRUE /\ calls' = calls + 1
  /\ UNCHANGED <<fs, ses, phase, last, used>>

\* A delta update reads its source by fatfs_pread between two writes; this
\* mounts the source's file system and leaves the open file alone.
xdelta_read_fat_callback(p, a) ==
  /\ job # None
  /\ LET ok == fs[p] # NoFS /\ MayRead(fs[p], a)
     IN  /\ ses' = maybe_mount(ses, p)
         /\ failed' = ~ok
         /\ job' = IF ok THEN job ELSE None
         /\ calls' = IF ok THEN calls ELSE calls + 1
  /\ Uses({p}, FALSE)
  /\ UNCHANGED <<fs, phase, last>>

----------------------------------------------------------------------------
(* The session                                                             *)

\* The requirements of the tasks (require-fat-file-exists, -match) use the
\* session before the task runs; one that is not met is no error.
fatfs_exists(o) ==
  /\ phase = "select" /\ calls < MaxCalls
  /\ Return(<<"exists", o>>, CloseAndMount(ses, o), Result(TRUE, fs))
  /\ Uses({o}, FALSE)
find_task ==
  phase = "select" /\ phase' = "run" /\ UNCHANGED <<fs, ses, job, failed, calls, last, used>>

\* fatfs_closefs, before on-finish, at the end, and after a failure.
fatfs_closefs ==
  /\ phase # "select" /\ phase # "done" /\ job = None
  /\ ses' = Fresh
  /\ phase' = CASE phase = "run" /\ ~failed -> "finish"
                [] phase # "error" /\ failed -> "error"
                [] OTHER -> "done"
  /\ failed' = FALSE
  /\ used' = [seen |-> {}, formatted |-> FALSE]
  /\ UNCHANGED <<fs, job, calls, last>>

Done == phase = "done" /\ UNCHANGED vars

OnFile(o, n) ==
  \/ fat_mkdir(o, n) \/ fat_touch(o, n)
  \/ \E must \in BOOLEAN : fat_rm(o, n, must)
  \/ \E m \in Names, force \in BOOLEAN : fat_mv(o, n, m, force)
  \/ \E p \in Offsets, m \in Names : fat_cp(o, n, p, m)
  \/ \E ro \in BOOLEAN : fat_attrib(o, n, ro)
  \/ \E c \in Contents : fat_write_run(o, n, c)
  \/ xdelta_read_fat_callback(o, n)
OnFileSystem(o) ==
  \/ fatfs_exists(o) \/ fat_mkfs(o) \/ fat_setlabel(o)
  \/ \E n \in Names : OnFile(o, n)
Next ==
  \/ \E o \in Offsets : OnFileSystem(o)
  \/ fat_write_pwrite_callback \/ SkipHole
  \/ fat_write_final_hole_callback \/ fat_write_done \/ fat_write_fails
  \/ find_task \/ fatfs_closefs \/ Done
Spec == Init /\ [][Next]_vars

----------------------------------------------------------------------------
(* Properties                                                              *)

\* The table of mounted file systems and the file that is kept open agree.  No
\* file system is mounted in two slots, where two FATFS objects would each keep
\* their own view of one allocation table.  The open file, as long as FatFs
\* accepts it, is the file of current_file_'s name that still exists on the file
\* system still mounted in its slot, at a position inside of it.  FatFs no longer
\* accepts it only if more file systems are in use than there are slots, or one
\* was formatted since: the ring of maybe_mount takes over a slot only when all
\* are taken.
OpenFileLives ==
  /\ \A j, k \in Slots : ses.mounted[j] = ses.mounted[k] /\ ses.mounted[j] # None => j = k
  /\ ses.cur # None =>
       IF ses.fil.valid
       THEN /\ ses.mounted[ses.fil.slot] = ses.fil.at
            /\ ses.fil.name = ses.cur
            /\ IsFile(fs[ses.fil.at][ses.fil.name])
            /\ ses.fil.pos <= Len(fs[ses.fil.at][ses.fil.name].data)
       ELSE Cardinality(used.seen) > Volumes \/ used.formatted

\* The functions do what FatStore promises: see there.  A fat_write under way
\* is seen as a torn file.
Store == INSTANCE FatStore WITH
  store <- IF job = None \/ fs[job.at] = NoFS THEN fs ELSE Put(job.at, job.name, Torn),
  writing <- IF job = None THEN None
             ELSE [at |-> job.at, name |-> job.name, content |-> job.content]

\* Each fat_* function that reports success has done exactly what README.md
\* says it does, to the file and the file system it names, and one that fails
\* has touched no other file: the session implements FatStore.
ImplementsStore == Store!Spec
=============================================================================
