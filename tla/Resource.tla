------------------------------ MODULE Resource ------------------------------
(***************************************************************************)
(* The way of one file-resource: from the files of its host-path into the  *)
(* archive (fwup_create.c, sparse_file.c) and from the archive to where    *)
(* one of raw_write, path_write, pipe_write, fat_write and                 *)
(* ubi_volume_write puts it (read_callback_normal of fwup_apply.c,         *)
(* process_resource and the write callbacks of functions.c,                *)
(* pad_to_block_writer.c).                                                 *)
(*                                                                         *)
(* Holes are not stored: a sparse map, the lengths of data and of holes in *)
(* turn, says where the data belongs.  A file is a sequence of booleans,   *)
(* TRUE where the filesystem stores a byte and FALSE in a hole.  A stored  *)
(* byte is its place in the concatenation of the files, so that no two are *)
(* alike; 0 is a zero byte and Old what was on the destination before.     *)
(* Offsets start at 0, sequences at 1.                                     *)
(***************************************************************************)
EXTENDS PadToBlock, SequencesExt

CONSTANTS
  HostPaths,    \* lists of files to try
  Sinks,        \* functions to try
  Damages,      \* what may happen to the stored data: "none", "short", "changed"
  BufLen,       \* the buffer of write_file_to_archive (4096)
  MapMax,       \* SPARSE_FILE_MAP_MAX_LEN (256)
  DestLen       \* bytes of the destination of raw_write

Old == -1
Wrong == -2

ASSUME ResourceAssumption ==
  /\ HostPaths \subseteq Seq(Seq(BOOLEAN)) \ {<<>>}
  /\ Sinks \subseteq {"raw", "path", "pipe", "fat", "ubi"}
  /\ Damages \subseteq {"none", "short", "changed"}
  /\ BufLen \in Nat \ {0} /\ DestLen \in Nat
  /\ MapMax \in Nat /\ MapMax > 2 /\ MapMax % 2 = 0

VARIABLES
  pc,
  files, skip_holes,            \* host-path and skip-holes of the resource
  file, offset,                 \* the file being read and where
  \* struct sparse_file_map while it is built; map is followed by the entry
  \* that is under construction, of which leftover is the part so far
  map, leftover, started,
  it,                           \* struct sparse_file_read_iterator
  length,                       \* the map in meta.conf
  data, damage, blake2b,        \* the entry of the archive; its hash in meta.conf
  sink,
  rd,                           \* struct fwup_apply_data
  got, last_offset,             \* locals of process_resource: what was read
  w,                            \* destination, with its pad-to-block writer
  units                         \* progress reported
createVars == <<file, offset, map, leftover, started, it>>
input   == <<files, skip_holes>>
archive == <<length, data, damage, blake2b>>
applyVars == <<sink, rd, got, last_offset, w, units>>
vars == <<pc, input, createVars, archive, applyVars>>

\* The first k elements of s, added up, for every k.
Sums(s) == LET sum[k \in 0 .. Len(s)] == IF k = 0 THEN 0 ELSE sum[k - 1] + s[k] IN sum
Sum(s) == Sums(s)[Len(s)]

IN_HOLE(ix) == ix % 2 = 1
DataOnly(m) == [i \in 1 .. Len(m) |-> IF IN_HOLE(i - 1) THEN 0 ELSE m[i]]
sparse_file_size(m) == Sum(m)
sparse_file_data_size(m) == Sum(DataOnly(m))
sparse_ending_hole_size(m) == IF Len(m) % 2 = 0 THEN Last(m) ELSE 0

----------------------------------------------------------------------------
(* The files                                                               *)

\* Bytes of the files in front of file j.
Before(j) == Sums([i \in 1 .. Len(files) |-> Len(files[i])])[j - 1]
\* pread(2) of n bytes: fewer at the end of the file
Pread(j, off, n) ==
  [k \in 1 .. Least(n, Len(files[j]) - off) |->
     IF files[j][off + k] THEN Before(j) + off + k ELSE 0]

\* lseek(2) with SEEK_DATA and SEEK_HOLE: the end of a file counts as a hole;
\* there is nothing at or behind it.
FirstFrom(f, off, kind) ==
  LET S == {k \in off .. Len(f) : IF k = Len(f) THEN ~kind ELSE f[k + 1] = kind}
  IN  IF off >= Len(f) \/ S = {} THEN -1 ELSE CHOOSE k \in S : \A l \in S : k <= l
Lseek(f, off, ix) == FirstFrom(f, off, IN_HOLE(ix))

----------------------------------------------------------------------------
(* fwup -c: the sparse map                                                 *)

NextFile(where) == /\ pc' = where
                   /\ file' = file + 1
                   /\ offset' = 0

\* sparse_file_build_map_from_fd, start: a further file goes on with the last
\* entry of the map.  Without one the code indexes the map with -1: nothing is
\* said about what happens after that.
build_map_start ==
  /\ pc = "open" /\ file <= Len(files)
  /\ \/ /\ ~started
        /\ started' = TRUE
        /\ pc' = IF skip_holes THEN "seek" ELSE "end"
        /\ UNCHANGED <<map, leftover>>
     \/ /\ started /\ map # <<>>
        /\ leftover' = Last(map) /\ map' = Front(map)
        /\ pc' = IF skip_holes THEN "seek" ELSE "end"
        /\ UNCHANGED started
     \/ /\ started /\ map = <<>>
        /\ pc' = "undefined"
        /\ UNCHANGED <<map, leftover, started>>
  /\ UNCHANGED <<input, file, offset, it, archive, applyVars>>

\* One iteration of the loop over data and holes.  The check for special files
\* such as /dev/zero, which are in a hole and in data at once, is the second.
build_map_seek ==
  /\ pc = "seek"
  /\ LET i    == Len(map)
         size == Len(files[file])
         next == Lseek(files[file], offset, i)
     IN  \/ /\ i < MapMax - 2 /\ next < 0
            /\ map' = IF size # offset THEN Append(map, size - offset + leftover) ELSE map
            /\ leftover' = 0
            /\ NextFile("open")
         \/ /\ i < MapMax - 2 /\ next >= 0
            /\ i >= 1 /\ offset = next /\ map[i] = 0
            /\ leftover' = 0
            /\ NextFile("open")
            /\ UNCHANGED map
         \/ /\ i < MapMax - 2 /\ next >= 0
            /\ ~(i >= 1 /\ offset = next /\ map[i] = 0)
            /\ map' = Append(map, next - offset + leftover)
            /\ leftover' = 0
            /\ offset' = next
            /\ UNCHANGED <<pc, file>>
         \/ /\ i >= MapMax - 2
            /\ pc' = "end"
            /\ UNCHANGED <<map, leftover, offset, file>>
  /\ UNCHANGED <<input, started, it, archive, applyVars>>

\* Holes are not wanted, or there is no room for more entries: the rest of the
\* file is data.
build_map_end ==
  /\ pc = "end"
  /\ map' = Append(map, Len(files[file]) - offset + leftover)
  /\ leftover' = 0
  /\ NextFile("open")
  /\ UNCHANGED <<input, started, it, archive, applyVars>>

\* The map goes into meta.conf, whose default is one entry of 0.
set_map_in_resource ==
  /\ pc = "open" /\ file > Len(files)
  /\ length' = IF map = <<>> THEN <<0>> ELSE map
  /\ pc' = "copy" /\ file' = 1 /\ offset' = 0
  /\ it' = [map_ix |-> 0, in_segment |-> 0]
  /\ UNCHANGED <<input, map, leftover, started, data, damage, blake2b, applyVars>>

----------------------------------------------------------------------------
(* fwup -c: the data, read twice: for the hash and for the archive         *)

Left == length[it.map_ix + 1] - it.in_segment

\* sparse_file_read_next_data: one iteration of its search for data.
read_skip ==
  /\ pc = "copy" /\ file <= Len(files)
  /\ it.map_ix < Len(length)
  /\ \/ /\ IN_HOLE(it.map_ix) /\ Len(files[file]) - offset < Left
        /\ it' = [it EXCEPT !.in_segment = @ + Len(files[file]) - offset]
        /\ NextFile("copy")
     \/ /\ IN_HOLE(it.map_ix) /\ Len(files[file]) - offset >= Left
        /\ offset' = offset + Left
        /\ it' = [map_ix |-> it.map_ix + 1, in_segment |-> 0]
        /\ UNCHANGED <<pc, file>>
     \/ /\ ~IN_HOLE(it.map_ix) /\ Left = 0
        /\ it' = [map_ix |-> it.map_ix + 1, in_segment |-> 0]
        /\ UNCHANGED <<pc, file, offset>>
  /\ UNCHANGED <<input, map, leftover, started, archive, applyVars>>

\* Its read of data, and write_file_to_archive.
read_data ==
  /\ pc = "copy" /\ file <= Len(files)
  /\ it.map_ix < Len(length) /\ ~IN_HOLE(it.map_ix) /\ Left > 0
  /\ LET b == Pread(file, offset, Least(Left, BufLen)) IN
     /\ data' = data \o b
     /\ it' = IF Len(b) = Left THEN [map_ix |-> it.map_ix + 1, in_segment |-> 0]
              ELSE [it EXCEPT !.in_segment = @ + Len(b)]
     /\ \/ b = <<>> /\ NextFile("copy")
        \/ b # <<>> /\ offset' = offset + Len(b) /\ UNCHANGED <<pc, file>>
  /\ UNCHANGED <<input, map, leftover, started, length, damage, blake2b, applyVars>>

\* The map is at its end: nothing more is read of this file.
read_end ==
  /\ pc = "copy" /\ file <= Len(files) /\ it.map_ix = Len(length)
  /\ NextFile("copy")
  /\ UNCHANGED <<input, map, leftover, started, it, archive, applyVars>>

\* The archive is complete.  What is applied later may have been damaged: cut
\* off, or one byte of it changed.
Stored(d, how) == IF how = "short" THEN Front(d)
                  ELSE IF how = "changed" THEN Append(Front(d), Wrong) ELSE d
Deliver ==
  /\ pc = "copy" /\ file > Len(files)
  /\ blake2b' = data
  /\ \E how \in Damages :
       /\ how = "none" \/ data # <<>>
       /\ damage' = how
       /\ data' = Stored(data, how)
  /\ pc' = "header"
  /\ UNCHANGED <<input, createVars, length, applyVars>>

----------------------------------------------------------------------------
(* fwup -a: run_task and read_callback_normal                              *)

count_holes == sink \in {"pipe", "fat", "ubi"}

\* variant: a hole at the start is not skipped
FromFirstEntry == [map_ix |-> 0, in_block |-> 0, actual |-> 0, leftover |-> <<>>]
\* Where reading starts.  A map that starts with a hole has a first entry of 0.
StartOfData ==
  IF length[1] # 0 THEN [map_ix |-> 0, in_block |-> 0, actual |-> 0, leftover |-> <<>>]
  ELSE IF Len(length) > 2
  THEN [map_ix |-> 2, in_block |-> 0, actual |-> length[2], leftover |-> <<>>]
  ELSE [map_ix |-> Len(length), in_block |-> 0, actual |-> 0, leftover |-> <<>>]

\* A wrong size is noticed at once when the file is not sparse and the entry
\* has its size set; some archivers leave it open.  Otherwise the function
\* starts: path_write, pipe_write, fat_write and ubi_volume_write from
\* nothing, raw_write on what is there.
StartResource ==
  /\ pc = "header"
  /\ \/ /\ Len(length) = 1 /\ Len(data) # sparse_file_data_size(length)
        /\ pc' = "failed"
        /\ UNCHANGED <<sink, rd, w>>
     \/ /\ \E s \in Sinks :
          /\ sink' = s
          /\ w' = ptbw_init(IF s = "raw" THEN [i \in 1 .. DestLen |-> Old] ELSE <<>>)
        /\ rd' = StartOfData
        /\ pc' = "read"
  /\ UNCHANGED <<input, createVars, archive, got, last_offset, units>>

HoleNotSkipped(r, n) ==         \* variant: the hole is not added to the offset
  LET hole == r.map_ix + 1
  IN  IF r.in_block + n # length[hole] THEN [r EXCEPT !.in_block = @ + n, !.actual = @ + n]
      ELSE [r EXCEPT !.map_ix = Least(hole + 1, Len(length)), !.in_block = 0, !.actual = @ + n]

\* n bytes of the current data block have been handed out; at its end the hole
\* behind it is skipped.
Advanced(r, n) ==
  LET end == r.in_block + n = length[r.map_ix + 1]
      hole == r.map_ix + 1
  IN  IF ~end THEN [r EXCEPT !.in_block = @ + n, !.actual = @ + n]
      ELSE IF hole = Len(length)
      THEN [r EXCEPT !.map_ix = hole, !.in_block = 0, !.actual = @ + n]
      ELSE [r EXCEPT !.map_ix = hole + 1, !.in_block = 0, !.actual = @ + n + length[hole + 1]]
Remaining == length[rd.map_ix + 1] - rd.in_block

----------------------------------------------------------------------------
(* The write callbacks and the callbacks for a hole at the end.  Each gives *)
(* the destination and whether it succeeded.                                *)

Result(out, ok) == [w |-> [w EXCEPT !.out = out], ok |-> ok]

raw_write_pwrite_callback(buf, off) == [w |-> ptbw_pwrite(w, buf, off), ok |-> TRUE]
raw_write_final_hole_callback(hole, size) ==
  LET n == Least(Bk, hole) IN raw_write_pwrite_callback(Zeros(n), size - n)

path_write_pwrite_callback(buf, off) == Result(Overwrite(w.out, buf, off), TRUE)
path_write_final_hole_callback(hole, size) == path_write_pwrite_callback(<<0>>, size - 1)

\* Zeros are written up to off, a block at a time; the number of bytes of each
\* such write is compared with the length of the data that is to follow.
pipe_write_pwrite_callback(buf, off) ==
  LET gap   == off - Len(w.out)
      first == Least(gap, Bk)
  IN  IF gap > 0 /\ (first # Len(buf) \/ gap % first # 0)
      THEN Result(w.out \o Zeros(first), FALSE)
      ELSE Result(w.out \o Zeros(gap) \o buf, TRUE)
pipe_write_final_hole_callback(hole, size) == pipe_write_pwrite_callback(<<0>>, size - 1)

\* fatfs_pwrite fills what it skips behind the end of the file with zeros, also
\* when no data follows.
fat_write_pwrite_callback(buf, off) == Result(Overwrite(w.out, buf, off), TRUE)
fat_write_final_hole_callback(hole, size) == fat_write_pwrite_callback(<<>>, size)

ubi_volume_write_pwrite_callback(buf, off) ==
  IF off < Len(w.out) THEN Result(w.out, FALSE)
  ELSE Result(w.out \o Zeros(off - Len(w.out)) \o buf, TRUE)
ubi_volume_write_final_hole_callback(hole, size) ==
  Result(w.out \o Zeros(size - Len(w.out)), TRUE)

pwrite_callback(buf, off) ==
  CASE sink = "raw"  -> raw_write_pwrite_callback(buf, off)
    [] sink = "path" -> path_write_pwrite_callback(buf, off)
    [] sink = "pipe" -> pipe_write_pwrite_callback(buf, off)
    [] sink = "fat"  -> fat_write_pwrite_callback(buf, off)
    [] sink = "ubi"  -> ubi_volume_write_pwrite_callback(buf, off)
final_hole_callback(hole, size) ==
  CASE sink = "raw"  -> raw_write_final_hole_callback(hole, size)
    [] sink = "path" -> path_write_final_hole_callback(hole, size)
    [] sink = "pipe" -> pipe_write_final_hole_callback(hole, size)
    [] sink = "fat"  -> fat_write_final_hole_callback(hole, size)
    [] sink = "ubi"  -> ubi_volume_write_final_hole_callback(hole, size)

----------------------------------------------------------------------------
(* process_resource                                                        *)

process_resource_compute_progress ==
  IF count_holes THEN sparse_file_size(length) ELSE sparse_file_data_size(length)

SinceDataOnly(buf, off) == Len(buf)   \* variant: holes are not reported
\* What is reported for a chunk: its length, or all since the last chunk.
ChunkUnits(buf, off) == IF count_holes THEN off + Len(buf) - last_offset ELSE Len(buf)

\* The rest of an iteration: hash, write, report.  Reading nothing ends the loop.
Processed(buf, off) ==
  LET s == IF buf = <<>> THEN Result(w.out, TRUE) ELSE pwrite_callback(buf, off) IN
  /\ w' = s.w
  /\ \/ /\ s.ok
        /\ got' = got \o buf
        /\ units' = units + ChunkUnits(buf, off)
        /\ last_offset' = off + Len(buf)
        /\ pc' = IF buf = <<>> THEN "hole" ELSE pc
     \/ /\ ~s.ok
        /\ pc' = "failed"
        /\ UNCHANGED <<got, units, last_offset>>

\* read_callback_normal with data left from the last call
read_leftover ==
  /\ pc = "read" /\ rd.map_ix < Len(length) /\ rd.leftover # <<>>
  /\ LET n == Least(Remaining, Len(rd.leftover)) IN
     /\ rd' = [Advanced(rd, n) EXCEPT !.leftover = Drop(@, n)]
     /\ Processed(Take(rd.leftover, n), rd.actual)
  /\ UNCHANGED <<input, createVars, archive, sink>>

\* The archive hands out a block of any length.
read_more ==
  /\ pc = "read" /\ rd.map_ix < Len(length) /\ rd.leftover = <<>> /\ data # <<>>
  /\ \E len \in 1 .. Len(data) :
       LET n == Least(Remaining, len) IN
       /\ data' = Drop(data, len)
       /\ rd' = [Advanced(rd, n) EXCEPT !.leftover = Drop(Take(data, len), n)]
       /\ Processed(Take(data, n), rd.actual)
  /\ UNCHANGED <<input, createVars, length, damage, blake2b, sink>>

\* libarchive may notice that its data is damaged.
read_error ==
  /\ pc = "read" /\ rd.map_ix < Len(length) /\ rd.leftover = <<>> /\ damage # "none"
  /\ pc' = "failed"
  /\ UNCHANGED <<input, createVars, archive, applyVars>>

\* The end of the map or of the archive's data
read_eof ==
  /\ pc = "read"
  /\ rd.map_ix = Len(length) \/ (rd.leftover = <<>> /\ data = <<>>)
  /\ pc' = "hole"
  /\ UNCHANGED <<input, createVars, archive, applyVars>>

final_hole ==
  /\ pc = "hole"
  /\ LET hole == sparse_ending_hole_size(length)
         s    == final_hole_callback(hole, sparse_file_size(length))
     IN  \/ /\ hole = 0
            /\ pc' = "check"
            /\ UNCHANGED <<w, units>>
         \/ /\ hole > 0 /\ s.ok
            /\ w' = s.w
            /\ units' = units + IF count_holes THEN hole ELSE 0
            /\ pc' = "check"
         \/ /\ hole > 0 /\ ~s.ok
            /\ w' = s.w
            /\ pc' = "failed"
            /\ UNCHANGED units
  /\ UNCHANGED <<input, createVars, archive, sink, rd, got, last_offset>>

\* Length and hash are those of meta.conf.
Verified == Len(got) = sparse_file_data_size(length) /\ got = blake2b

\* The end of process_resource and of the function: raw_write flushes its last
\* block, ubi_volume_write compares its count with the size it has announced.
finish ==
  /\ pc = "check"
  /\ \/ /\ ~Verified
        /\ pc' = "failed"
        /\ UNCHANGED w
     \/ /\ Verified
        /\ w' = IF sink = "raw" THEN ptbw_flush(w) ELSE w
        /\ pc' = IF sink = "ubi" /\ Len(w.out) # sparse_file_size(length) THEN "failed" ELSE "done"
  /\ UNCHANGED <<input, createVars, archive, sink, rd, got, last_offset, units>>

Stopped == pc \in {"done", "failed", "undefined"} /\ UNCHANGED vars

----------------------------------------------------------------------------
Init ==
  /\ pc = "open" /\ files \in HostPaths /\ skip_holes \in BOOLEAN
  /\ file = 1 /\ offset = 0 /\ map = <<>> /\ leftover = 0 /\ started = FALSE
  /\ it = [map_ix |-> 0, in_segment |-> 0]
  /\ length = <<0>> /\ data = <<>> /\ damage = "none" /\ blake2b = <<>>
  /\ sink = "none" /\ rd = [map_ix |-> 0, in_block |-> 0, actual |-> 0, leftover |-> <<>>]
  /\ got = <<>> /\ last_offset = 0 /\ w = ptbw_init(<<>>) /\ units = 0

Next ==
  \/ build_map_start \/ build_map_seek \/ build_map_end \/ set_map_in_resource
  \/ read_skip \/ read_data \/ read_end \/ Deliver
  \/ StartResource \/ read_leftover \/ read_more \/ read_error \/ read_eof
  \/ final_hole \/ finish \/ Stopped

Spec == Init /\ [][Next]_vars

----------------------------------------------------------------------------
(* Properties                                                              *)

\* The files in a row: byte k of file j is byte Before(j) + k.
Whole == [i \in 1 .. Before(Len(files) + 1) |->
            \E j \in DOMAIN files : i - Before(j) \in DOMAIN files[j] /\ files[j][i - Before(j)]]
HasHoles == \E i \in DOMAIN length : IN_HOLE(i - 1)

\* Concatenations the map is wrong for: with skip-holes, an empty file among
\* several, or data right behind files that are nothing but a hole.
IsHole(f) == \A k \in DOMAIN f : ~f[k]
BadConcat ==
  /\ skip_holes /\ Len(files) > 1
  /\ \/ \E i \in DOMAIN files : files[i] = <<>>
     \/ \E j \in 2 .. Len(files) : files[j][1] /\ \A i \in 1 .. j - 1 : IsHole(files[i])

\* Byte i of the destination is right: the byte of the files; for raw_write
\* zero or untouched in a hole and in the rest of the last block, and untouched
\* behind it; for all others zero in a hole.
ByteOk(i) ==
  IF i <= Len(Whole) /\ Whole[i] THEN w.out[i] = i
  ELSE IF sink = "raw"
  THEN w.out[i] = Old \/ (w.out[i] = 0 /\ (i - 1) \div Bk <= (Len(Whole) - 1) \div Bk)
  ELSE w.out[i] = 0
AsConcatenated ==
  /\ Len(w.out) >= Len(Whole) /\ (sink # "raw" => Len(w.out) = Len(Whole))
  /\ \A i \in 1 .. Len(w.out) : ByteOk(i)

\* What a function reports as written is the concatenation of the files of
\* host-path, byte for byte and at the right places, whatever pieces libarchive
\* hands out, wherever the holes are, and also when the archive was damaged.  At
\* every step the pad-to-block writer is called with an offset it has not
\* passed, and asks the cache for nothing but whole blocks.
ResourceIntact == w.ok /\ ((pc = "done" /\ ~BadConcat) => AsConcatenated)

\* The same for every list of files.  It does not hold (README.md, section 6).
ConcatenatedInOrder == pc = "done" => AsConcatenated

\* An undamaged archive can be applied: every length, offset and hash that the
\* apply side checks agrees with what the create side made of the files.
\* pipe_write is excused where there are holes.
UndamagedApplies ==
  pc = "failed" => damage # "none" \/ (sink = "pipe" /\ HasHoles)

\* Progress adds up to exactly what was announced for the function.
ProgressExact == pc = "done" => units = process_resource_compute_progress


=============================================================================
