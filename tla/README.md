# A TLA+ model of fwup

fwup creates firmware archives and applies them to the storage of embedded
devices. An update usually rewrites the partition that is not running and, as
its last write, switches the boot loader to it. What has to be right is
therefore less any single write than the order of all of them, what happens
when one fails, and what a power failure leaves behind.

This directory models the parts of fwup that decide about this: the block cache
with its writer thread, the sequence of events of an update, the U-Boot
environment, FAT filesystems, partition tables, the way of a resource (whole or
as a patch) from the archive to the media, and the archive itself from its
creation to the pipe it arrives through. Small instances are checked with TLC.
The safety properties of the cache, of an update as a whole, of the U-Boot
environment, of FAT sessions, of the trim vector, of archives and of the
conversation with the parent process are also proved with TLAPS, for all values of the constants.

Source references are to `src/src/` of the repository unless a path says
otherwise. `PROJECT.json` maps every definition to the lines it models, and
lists the hazards the properties are aimed at.

## 1. The system

| Part | Source | State it keeps | Operations |
|---|---|---|---|
| Block cache | `block_cache.c` | 128 KB segments with valid and dirty bits, LRU clock, trim bit vector, the segment in the writer thread's hands, `bad_offset` | init, pwrite, pread, trim, flush, reset, free; `writer_worker` |
| Applying an update | `fwup_apply.c`, `resources.c`, `progress.c` | chosen task, resources processed so far, position in the archive, progress | `find_task`, `compute_progress`, `run_task`, cleanup |
| Function handlers | `functions.c` | none of their own; a handler is a list of functions | 25 functions: raw, FAT, MBR, GPT, U-Boot, path, pipe, UBI, execute, trim |
| U-Boot environment | `uboot_env.c` | names and values, the copies to write next, the one-byte counter | read, write, create |
| FAT session | `fatfs.c` (over FatFs, third party) | mounted filesystems, one open file | 13 file operations, each syncing before it returns; close |
| Sparse files | `sparse_file.c` | map of data and hole lengths, read iterator | build map, read next data, sizes |
| Padding writer | `pad_to_block_writer.c` | one partial 512-byte block | pwrite, flush |
| Creating, signing, verifying | `fwup_create.c`, `fwup_sign.c`, `fwup_verify.c`, `fwfile.c`, `fwup_genkeys.c` | archive under construction | create, sign, verify |
| Archive input | `archive_open.c` | what is left of the current frame, end of the input | open, read |
| Delta updates | `fwup_xdelta3.c` (over xdelta3, third party) | decoder state, source callback | init, read |
| Disk encryption | `disk_crypto.c` | key | encrypt and decrypt a range of sectors |
| Partition tables | `mbr.c`, `gpt.c` | none | verify, create, decode |
| Requirements | `requirement.c` | none | conditions of a task |
| Devices | `mmc_*.c`, `ubi_linux.c` | open descriptors | find, unmount, open, trim, write a volume |
| Configuration | `cfgfile.c`, `cfgprint.c`, `eval_math.c` | the parsed configuration | parse, print |
| Command line | `fwup.c`, `fwup_list.c`, `fwup_metadata.c` | options | dispatch |

How they interact when an update is applied:

    archive ──libarchive──> run_task ──on-init / on-resource / on-finish / on-error──> functions
                               │                                                          │
                               │                       FatFs (sectors of its own) <───────┤
                               │                                  │        ptbw, uboot_env, mbr, gpt
                               └─ closefs, reset, flush, free ─> block cache <────────────┘
                                                                  │      │
                                                     main thread ─┘      └─ writer thread
                                                                  media

The handlers see only the block cache. A write reaches the media in one of
three ways: a complete streamed segment goes to the writer thread, a dirty
segment is evicted when room is needed, or the final flush writes it. FatFs
holds data of its own above the cache until `fatfs_closefs`.

What is hard here:

- **Two threads.** One segment at a time is handed to the writer thread under a
  lock, but segments and `bad_offset` are looked at outside it. Both threads
  wait on the same condition variable.
- **Failures that arrive late.** A write handed over asynchronously fails after
  the call that wrote it has returned.
- **Order.** The switch of the boot loader has to be the last thing on the
  media, so write-back has an order: that of last use.
- **Interruption.** Power can fail between any two writes, and within one.
- **State that outlives a call.** An open FAT file, mount slots, a decrypt
  callback and decoder buffers are kept from one function to the next.
- **Other processes.** Host files are edited while an archive is made, archives
  are repacked by other tools, a parent process feeds one pipe and reads another.
- **Recovery in the same process.** After a failure the cache is reset and the
  on-error handler uses it again, with the writer thread still running.
- **Boundaries.** The end of the media inside a segment, a counter that wraps,
  holes that start, end or join files, and data cut up in arbitrary pieces.

## 2. Modules

| Module | Models | Used by |
|---|---|---|
| `BlockCache` | both threads of the cache, step by step | `BlockCacheProps` |
| `BlockCacheProps` | what the cache promises, and its inductive invariant | `MCBlockCache`, `BlockCacheProofs` |
| `BlockCacheProofs` | proofs: the hand-off, what becomes of failures, the data | |
| `TrimVector` | the trim bit vector as an array of bytes | `MCAlgorithms`, `DataStructureProofs` |
| `UbootEnv` | reading and updating one or two copies, write-back, interruption | `MCUbootEnv`, `DataStructureProofs` |
| `Apply` | a whole run of `fwup -a`, over an abstract cache | `MCApply`, `ApplyProofs` |
| `PadToBlock` | the padding writer, as pure operators | `Resource`, `Delta` |
| `Resource` | one resource: files, sparse map, archive, write function | `MCResource`, `ResourceProofs` |
| `Delta` | one resource that is a patch: decoder, source, decryption, a cache with one thread | `MCDelta`, `DeltaProofs` |
| `FatSession` | mount slots, the open file, every `fat_*` function | `MCFatSession`, `FatSessionProofs` |
| `FatStore` | what the `fat_*` functions promise; `FatSession` implements it | `FatSession` |
| `Mbr`, `Gpt` | partition tables, as pure operators | `MCAlgorithms` |
| `EvalMath` | the arithmetic of `define-eval`, and a grammar with values | `MCAlgorithms` |
| `FileMatch` | the search of `require-fat-file-match` | `MCAlgorithms` |
| `Archive` | an archive between `fwup -c`, `-S`, `-V` and other tools | `MCArchive`, `ArchiveProofs` |
| `Port` | fwup between two pipes: framing, progress, result, exit handshake | `MCPort`, `PortProofs` |
| `DataStructureProofs` | proofs about the two data structures, the U-Boot environment and the trim vector | |
| `ApplyProofs`, `ResourceProofs`, `DeltaProofs`, `FatSessionProofs`, `ArchiveProofs`, `PortProofs` | proofs | |

A definition marked *variant* is no part of a model: it is the changed form of
the definition next to it with which a property is shown to be sensitive to the
code (`PROJECT.json`, "mutants").

### BlockCache

State: `segments`, `timestamp`, `trimmed`, `seg_to_write`, `bad_offset` and
`running` are the fields of `struct block_cache`; `cond` is the set of threads
inside `pthread_cond_wait`; `pc`, `op`, `cur`, `ret`, `todo` are where the main
thread is and its locals; `wpc` and `woff` those of the writer thread; `disk` is
the media. The rest is history for the properties.

Every region between lock and unlock is one step. So is each system call, each
look at `bad_offset` outside the lock, and each change of a segment. Spurious
wakeups are allowed. A write to the media succeeds, fails half-way, or claims to
succeed and leaves something else (which only verification notices); the number
of failures is bounded by `MaxFaults`.

An offset is a segment number, a segment has two blocks, a block holds one
value. The constants choose the build (with or without `USE_PTHREADS`), the
options (verify, minimize, hardware trim) and a hard end of the media.

The trim bits are a set in this module. `TrimVector` has the array of bytes with
its masks, growth and rounding, and is compared with the set.

### UbootEnv

A copy is its counter and either an environment or `Bad` (the CRC is wrong or it
does not parse; the CRC does not cover the counter). `cache` is what the
handlers read, `disk` what is on the media, `dirty` what waits to be written,
`recent` the copy used last, which decides what goes out first. `WriteBack` is
the eviction or flush of one segment. `Interrupted` ends a run anywhere: before,
after or inside the write of a segment, where a copy that is partly new does not
decode. The next run starts from what is left.

### Apply

`fwup_apply`, `find_task`, `run_task` and their cleanup, with one step per
function of a handler. A function is what it does to the destination: stream a
segment, write a block of one, read, stop in a full FAT filesystem, or fail. Each
block carries the name of the event that wrote it, so that a segment may hold
unwritten blocks of several events. Of the cache this module keeps which blocks
are dirty, the order in which segments were last used, the segment in flight and
the failed write; of FatFs (`fat`) the sector that a `fat_write` leaves behind
when the filesystem is full. `fatfs_closefs` is a step of its own: it writes that
sector through the cache, for which the cache may have to evict. Archives may lack
entries, have them in another order, or hold entries that do not fit `meta.conf`.
Errors come from functions, the archive and the destination, in either thread.

### Resource and PadToBlock

The create side builds the sparse map over the files of a `host-path` (with the
special cases of `sparse_file_build_map_from_fd`), then reads the data by it.
The archive may then be cut short or changed. The apply side reads pieces of any
length, splits them at the ends of data blocks, and writes through one of five
functions: `raw_write` with the padding writer, `path_write`, `pipe_write`,
`fat_write`, `ubi_volume_write`. Progress is counted as the code counts it. Each
stored byte is a number of its own, so a byte at a wrong place is noticed.

### Delta

`xd` is `struct xdelta_state` with what the decoder keeps; `segs` and `dev` are
the cache and the device, `decrypt` the callback of the cache. The operators on
`[dev, segs]` have the names of the functions of `block_cache.c` they stand for.
With one thread they need no failures and no waits: whoever asks the cache waits
for the writer, which is what `BlockCache` is about. A patch is the list of
source blocks to copy and of insertions; what `xd3_decode_input` asks for next
follows from it (`Event`), so that every order of INPUT, GETSRCBLK, OUTPUT and
early returns occurs. A block is plain, or encrypted under its number in its
partition; decrypted under any other number it is `Noise`.

### FatSession and FatStore

`ses` is `mounted_`, `next_mount_`, `current_file_` and `fil_`. One action per
`fat_*` function, each with its `fatfs_*` counterpart, and four for the steps of
`fat_write`, between which a delta source may be read from another filesystem.
FatFs is external: what may be opened, made, renamed and removed, the room there
is, and when a file object becomes invalid. `FatStore` has filesystems and files
only. The refinement mapping shows a file under `fat_write` as `Torn`, so that
nothing may be read from it before it is complete; a function that succeeds must
have done what it promises, one that fails may have changed only its own file.

Three calls do not do what is promised (section 6). `Pitfalls` says which of
them a session may make; the run uses none of them.

### Mbr, Gpt, EvalMath, FileMatch

Operators with the names of the functions. `MCAlgorithms` puts the inputs in
variables: a token sequence that grows, a configuration that is checked when the
archive is created and written when it is applied, a file and a pattern, or the
operations of `TrimVector`. Offsets are kept modulo `Wrap`, which is 2^32 in the
code. The reference definitions are: the values of a token sequence by the
grammar (`Sum`, which does not use the two stacks), what a reader finds on the
device by following the boot records (`Chain`), and membership.

### Archive

`fw` is the archive, `tmp` the temporary file of `fwup_sign`; one command runs at
a time (`cmd`), in steps between which a host file may be edited or the command
killed. An archive that was not closed leaves any part of its entries. Other
tools may then drop, double, move or replace entries. `fwup_verify` is an
operator, evaluated on every archive that comes up.

### Port

`inp` and `out` are the two pipes, with capacities. The parent writes, reads and
closes independently. `pc`, `ad`, `progress` and `status` are fwup's. A frame
has two units of length, so that a length can be cut in half; streams are all
sequences of units, well-formed or not.

## 3. Runs

Passing runs:

| Run | Question | Bounds |
|---|---|---|
| `cache_threads` | With both threads, one failure and a hard end: does success mean the data is there, which failures can be missed, do reset and free leave the writer idle, in which order does flush write, does every call return? | 3 slots, 3 segments, 3 calls and free, 1 failure |
| `cache_evict` | When there are more segments than slots, with `--minimize-writes`: do readers see the last write, and does the main thread keep off the writer's segment; the inductive invariant of the proofs | 2 slots, 3 segments, 4 calls, no failure |
| `cache_single` | The build without threads: eviction, two failures, media that ends inside segment 2 | 2 slots, 4 segments, 4 calls, 2 failures |
| `uboot_redundant` | Is the newest copy found at every wrap of the counter, and what does an interruption leave? | 2 names, 2 values, room for one, 4 updates, up to 3 pending |
| `apply` | Is the switch last, does a failure stop writes, does on-error get through, does success mean the data is there, does every run end? | 3 segments of 2 blocks, 2 resources, 360 tasks, 5 archives, both builds, 2 failures |
| `resource` | Does a resource arrive as it was, for every shape of holes and every way of cutting up the data? | all files up to 5 bytes, pairs up to 3, triples up to 1; 2-byte blocks and buffers; maps of up to 6 entries; 3 kinds of archive |
| `delta` | Does a patched image arrive exactly, with an encrypted source or destination in the same cache, and does nothing else change? | 14 blocks of device, segments of 2, caches of 1, 2 and 8 segments, all layouts of a source of 3 or 4 blocks, 6 patches of 1 or 2 windows |
| `fat_session` | Do the functions do to the named file of the named filesystem what is promised, however mounts and the open file carry over? | 3 filesystems, 2 slots, 2 names, 3 functions, room for 3 units, 2 resources with holes |
| `algorithms` | Are arithmetic, partition tables, file search and trim vector right on all small inputs? | 5 tokens; 2 primary and 3 logical partitions, 3 of GPT, several device sizes; files of 7 and buffers of 3 bytes; 2 bits per byte, 3 bytes, one growth |
| `archive` | Does verification accept exactly the good archives, and do create and sign make good ones or leave the old one? | 6 configurations of at most 2 resources, 1 create, 2 signs with 2 keys, 1 edit, 1 repack, 1 kill |
| `port` | Is the payload exact, is the output in order, does the handshake hold, does fwup exit? | all streams of 5 units, 2-unit buffer, pipes of 4 units and 2 messages |

`cache_reuse_loss` ends in a counterexample (section 6).

Why the bounds are enough to be interesting: three slots hold one segment in
flight, one that is dirty and one that is being worked on; two slots with three
segments force an eviction while a segment is in flight; three calls and a free
are a hand-over, a call that meets it, and a flush. Segments of two blocks have
complete, partial and merged content. Four updates of the U-Boot environment use
each copy twice, from counters on both sides of 127/128 and 255/0. The tasks of
`apply` are all combinations of a few handlers, so that every event fails in some
of them, and on-finish comes back to segments of on-resource before its switch,
after it, to read, to write and to run out of space. Files of five bytes with blocks of two bytes have holes that start, end
and lie inside a block, and need more map entries than there is room for.

Three filesystems over two slots force a takeover, also under an open file, and
three functions are one that opens, one that interferes and one that is hurt; the
steps of a `fat_write` and the requirements come on top. The device of `delta`
has layouts in which source and destination share a segment, touch, or are
apart; with one segment every access evicts, with eight none does; a window is
longer than what one `xdelta_read` returns. Five tokens are enough for two binary
operators with a unary one or parentheses between them. Frames in five units are
one of length three, cut short by the end or larger than the buffer, or two with
an end mark between.

Fairness. `cache_threads` and `apply` assume weak fairness of each thread's
steps: the operating system schedules both, system calls return, and a thread
blocked on the mutex gets it, since critical sections are short and contain no
call that blocks. No fairness is assumed of spurious wakeups or failures, of the
caller making another call, or of one thread getting ahead of the other.
`Terminates` also needs that lists of functions and archives are finite. `port`
assumes weak fairness of fwup and of each of the parent's three actions: the
parent keeps reading stdout whatever happens to its writes, as an Erlang port
does. With a parent that stops reading while it writes, both would wait for ever
once both pipes are full.

Deadlock is checked in every run but two: `algorithms` and `archive` stop when
the input is complete or the bounds are used up. `Freed`, `Done`, `Stopped`,
`Ended` and `Over` are the explicit stutter steps of a finished run elsewhere.

## 4. The properties

Block cache:

- `Coherent`: between calls a reader gets the last thing written, wherever it is.
- `Durable`: a flush and free without error mean everything is on the media.
- `OnlyLastAsyncUnreported`: the only failure nobody is told of is that of the
  segment handed over last (as long as no slot in flight was reused, section 6). `NoErrorLost`, without that excuse, holds without
  threads, and also covers writes behind the end of the media.
- `ResetQuiesces`, `FreeDrains`: the writer is idle after reset and free.
- `FlushOrder`: a segment is written by flush only when all that were used before
  it are on the media, or in the writer thread's hands.
- `UntouchedUnlessReused`: the main thread does not touch the writer's segment.
- `PastEndUntouched`: nothing is written past a hard end.
- `CallsReturn`: no call and no hand-over hangs. The hang that v1.13.1 fixed is
  the variant `StaysPending`.
- `VectorExact`: the trim bit vector against the set it stands for.

FAT: `OpenFileLives` about the session (each file system mounted once, the file
kept open is the right one, and goes stale only when the slots run out), and
`ImplementsStore`, the refinement.

Delta: `StreamExact` (what the decoder reads of the source and what its pieces add
up to), `DeviceExact` (what is on the device, inside and outside of the
destination), `UndamagedApplies`. `Separate` is the condition under which
decrypting whole segments does no harm.

Archive: `VerifySound` compares `fwup_verify` with a definition of a good archive
that does not walk through it; `OutputVerifies` and `SignAtomic` are about what
the commands leave. Port: `FramedExact`, `LogExact` (messages and handshake),
`Exits`.

Algorithms: `EvalExact`, `MbrTables`, `GptTables`, `MatchExact`. `MbrSound`,
`GptSound` and `OddParenthesis` collect what the code accepts and does not handle.

Applying: `SwitchLast`, `FailureStopsWrites`, `ErrorHandlerLands`,
`SuccessOnMedia`, `Terminates`. U-Boot: `ReadsLastUpdate`, `NeverUnreadable`,
`CrashAtomic`. Resource: `ResourceIntact`, `UndamagedApplies`, `ProgressExact`.
Their comments state them in words, with what they excuse. `SwitchLast` speaks of
an on-finish that is `FinishApart`: it fills no whole segment (`raw_memset`; such a
segment is handed to the writer at once), and when it has changed a segment it uses
no other one that on-init or on-resource change. The usual on-finish, which writes
the switch to a segment of its own, possibly after reading or changing one of the
segments of the update, is `FinishApart`. Without the second condition the property
fails (`SwitchLastAlways`, section 6).

## 5. Proofs

The theorems hold for every value of the constants that satisfies the assumptions
named in the modules: any number of slots, segments, blocks, file systems, names,
requests, calls and failures, any size of pipe, buffer, byte or array, either
build, any options. An extra hypothesis is written in the theorem and explained
here. Every safety theorem has the same shape: an inductive invariant, a lemma per
action (or per kind of step), and the property from the invariant.

### The block cache

`BlockCacheProofs`, from `ConstAssumption` (the types of the constants) and
`ReqAssumption` (requests fall on segments of the destination):

- `TypeCorrect`: `Spec => []TypeOK`. `TypeOK` alone is not inductive: where the
  code takes the next chunk or uses the writer's segment there has to be one, so
  `ChunkLeft` and `WriterHasSegment` are carried along.
- `HandoffCorrect`: `Spec => []IInv`, where `IInv` adds `Handoff`. Its parts are
  the locking discipline that the code follows without writing it down. The
  writer's segment is in use and complete (so nothing is ever merged into it). Past
  every wait the main thread works on a different one. Only complete segments
  are handed over. Dirty blocks are valid. The writer exits only when nothing more
  can come. Each part is needed for another: that the main thread works elsewhere
  follows from the wait in `get_segment` and `do_sync_write`, and must hold at
  every program point in between.
- `FreeDrainsAlways`: from `WriterExit`.
- `HandoffExclusive`: `Spec => UntouchedUnlessReused`, from `IInv`, one case per
  action of the main thread.

Its second part is about failures. `EInv` adds to `IInv` which
call the main thread is in at each program point, that a reset still has to visit
every slot in use, and that the writer's segment, or the failed one, is the one
handed over last.

- `ResetLeavesQuiet` (`ResetQuiesces`) and `UnreportedIsLast`
  (`OnlyLastAsyncUnreported`): from `EInv`.
- `PastEndKept` (`PastEndUntouched`): with `~HwTrim`, because the range that
  `mmc_trim` gives to the kernel is too long (section 6).

The second half of the module is about where the data is. `DInv` adds to `EInv` the structure
(`SInv`: a segment is cached once; a flush visits every dirty slot in the order of
last use) and, as long as nothing was reported and no slot reused, the content
(`DCore`): a clean segment is complete; valid blocks hold the last thing written;
what is neither dirty nor in flight is right on the media; and wherever the media
is damaged, `bad_offset` is set or the thread that wrote is just about to compare.
The last part, `DamageKnown`, is what makes it work and what a test does not see.

- `ReadersSeeLastWrite` (`Coherent`), `FlushKeepsOrder` (`FlushOrder`),
  `SuccessIsDurable` (`Durable`): with `~HwTrim` as above and `VerifyWrites`, the
  default. Without reading back a write that silently goes wrong is not noticed, its
  blocks are merged into later writes of the segment, and from then on the model's
  own record of the damage (`damaged`) cannot excuse them.
- `SuccessHidesNoError` (`NoErrorLost`): also with `~UsePthreads`. With threads it
  is false (section 6).

The trim vector, in `DataStructureProofs`, from `VectorAssumption`:

- `TrimVectorExact` (`VectorExact`). The lemmas are about division: order of
  numbers as order of quotient and remainder (`DivOrder`), rounding down and up
  (`Floor`, `Ceiling`). With them `MaskExact` says that the masks of first, last
  and whole bytes are an interval of segments, and `TrimExact` that the interval is
  the whole segments of the range, as far as the array tracked them at the start.
  The invariant adds that the array never gets shorter than it was.

### Applying an update

`ApplyProofs`, from `ApplyAssumption`: `AInv`, in parts. `Held`: what the handlers
wrote to a block is on the media, in the cache or in flight, and nowhere in two
versions, as long as nothing has gone wrong. `AfterReset`: once the error handler
has reset the cache, only its own writes are on their way. `OnError`: which of its
functions have run and what they wrote. `EarlierSegs`: whatever on-init and
on-resource wrote lies in a segment that one of their functions changes, which is
how `FinishApart` speaks of them. `FinishRan`: where on-finish has written
something, a function of it that has already run changes that segment. With it
`FinishApart` excludes the use that would spoil the order, so that what on-finish
wrote is younger in the cache than what waits in the other segments of earlier
handlers (`FinishYoungest`) and, once it is on the media, none of that waits any
more (`FinishAlone`); it exists only when every resource is through
(`FinishProcessed`).

- `ApplyTyped`, `ApplyInvariant`, and from them `SwitchComesLast`
  (`SwitchLast`), `ErrorHandlerGetsThrough` (`ErrorHandlerLands`),
  `SuccessIsOnMedia` (`SuccessOnMedia`), and the action property
  `FailureStopsAllWrites` (`FailureStopsWrites`). `SwitchLast` is part of the
  invariant: once something has failed `Held` says nothing, and only the
  property's own past says what is on the media.

### Resources

`ResourceProofs`, from `ResourceAssumption` and `BlockAssumption`: any list of
files that is not empty, any block, buffer, map size above 2 that is even, and any
size of the destination. `RInv` follows a resource through three places:

- While the map is built (`Building`), no entry behind the first is empty; `Seeking`
  says why the next one will not be either. This holds for all lists of files, and so
  does that the entries never add up to more than was read, which is all that
  applying the archive without an error needs. But for the concatenations of
  section 6 (`BadConcat`) the entries add up to exactly what was read, and a hole of
  the map has no data in it: `NothingLeft` and `NoEarlyExit` show that the two
  statements that lose bytes are not reached.
- While the data is copied (`Copying`), the iterator is at the place in the files
  that the sums over the map say, and the data so far is, entry by entry, the bytes
  of the files (`DataOk`). At the end nothing is left that the map asks for
  (`AllCopied`).
- While it is applied (`Applying`), `read_callback_normal` is at a position that the
  map and the number of bytes read determine (`Position`), everything read is in
  the destination at its place (`PlacedIn`), and every other byte is zero or what
  raw_write found (`RestOf`). The destination is what it will be once the padding
  writer is flushed (`Shown`); `RawWriter` is the writer's own invariant, and
  `LeftoversRight` and `BlocksRight` show that a chunk at any later offset keeps it.

`ResourceInvariant` is `Spec => []RInv`; from it `WrittenIntact` (`ResourceIntact`),
`UndamagedIsApplied` (`UndamagedApplies`) and `ProgressAddsUp` (`ProgressExact`).
Sums over a map are one recursive function (`Sums`), with a lemma for one more entry;
the place of a byte is a unique entry (`OneEntry`) and an offset in it.

### Delta updates

`DeltaProofs`, from `DeltaAssumption`: the device is a number of whole segments,
and the windows of a patch follow each other, none is empty and the last one ends
the image. What else is needed is where `Init` puts things: the patch copies from
inside of the source only, and the image goes to a partition that does not overlap
the source. Sizes of segments, source reads, returned pieces and the cache are any
numbers from 1 on.

- `DeltaInvariant`: `Spec => []DInv`. Its first half, `Steady`, holds always: the
  decoder is inside of the window it decodes, of a window something is always left
  to be reported when it ends (`Decoding`), and the decrypt callback is set exactly
  while a resource with a key is under way or has failed (`Callback`). The second
  half is `Separate => Stream /\ Holding /\ Contents`: what was handed out and what
  waits in the decoder are parts of the image that follow each other; the source
  block the decoder holds is the old image; and cache and device *together* hold
  the device as it was with the first blocks of the image put on it.
- `StreamIsImage` (`StreamExact`), `DeviceIsRight` (`DeviceExact`) and the action
  property `PatchApplies` (`UndamagedApplies`) follow from it.

The heart is `Holds(c, D, ...)`, which says that a cache `c` shows the contents `D`,
in plain where the callback is active, and that a block of the device differs from
`D` only if it is dirty in the cache. One lemma per function of `block_cache.c`
(`get_segment`, `make_segment_valid`, `flush_segment`, `block_cache_pread`,
`block_cache_pwrite`, `block_cache_flush`) says that the function keeps it. `Separate` is where a
callback that does not know what a segment is for would break it: a segment that
was decrypted must never be written, so none may be loaded a second time, nor be
shared with the destination (section 6). Without a key `Separate` is true. The loops over blocks
(`raw_write`, `block_cache_pread`, the flush) are recursive functions; each has a
lemma that takes the first step that goes wrong and shows that there is none.

### U-Boot environment

`DataStructureProofs`, from `UbootAssumption` (types, at least one name and value,
`Unset` and `Bad` are neither):

- `UbootTypes` and `NewestIsFound`: `Spec => []ReadsLastUpdate`. The core is the
  arithmetic of `PreferredAfterUpdate`: a counter that is one more modulo 256 is
  preferred, for all 256 values, with no relation assumed between the two
  counters before. It covers one copy, two copies, and two copies in one segment.
- `PendingInvariant`: `Spec => []UInv`. `CrashAtomic` speaks about what is left
  on the media; for that one has to know how the pending copy relates to the one
  on the media, which is `OnePending`: it goes to the copy that is not in force,
  and its counter follows the other one's. `Settled` ties cache and media together
  where nothing is pending.
- `InterruptedAtomic` and `InterruptedReadable`: `CrashAtomic` and
  `NeverUnreadable` from `UInv`. They also hold for any number of interruptions
  in a row.

### FAT sessions

`FatSessionProofs`, from `FatAssumption`:

- `FatInvariant` and `OpenFileStaysValid` (`OpenFileLives`): `FInv` says of the
  session that no file system has two slots, that only file systems that were used
  are mounted, that the file kept open is known by name and place, and that FatFs
  accepts it unless more file systems were used than there are slots, or one was
  formatted. It is stated of a session, its file systems and the history (`Good`),
  so that one lemma per helper of `fatfs.c` (`maybe_mount`, `close_open_files`, ...)
  serves every function that calls it.
- `SessionImplementsStore`: `Spec => ImplementsStore` if `Pitfalls = {}`, which
  leaves out the three traps of section 6 and nothing else. `FatStore` sees the
  file under way in `fat_write` as torn until the function returns; `RInv` adds to
  `FInv` that this file holds what was sent so far, but for holes at its end
  (`WrittenSoFar`), which the last step fills.

### Archives

`ArchiveProofs`, from `ArchiveAssumption` (file-resources have different names, as
libconfuse demands; paths are sequences of any set of words). `ArchiveInv` says of
the two archives and the former one that no entry is called `data/`, that a
meta.conf lists no name twice (`SoundArchive`), and that the size in front of an
entry is missing, true, or the one meta.conf gives for it (`Sized`). Of a command
that runs it says what has been written so far: how far the list of resources is
measured (`MapOK`), the entries of a new archive (`AddOK`), the resources a signed
one has taken over (`CopyOK`) and, if the former archive is as it should be, each
of its entries (`SignedOK`). `TempOK` says where a temporary file may be left.

- `ArchiveInvariant`, and from it `VerifyExact` (`VerifySound`), `SignIsAtomic`
  (`SignAtomic`) and `OutputIsGood` (`OutputVerifies`). `VerifyIsGood` is the core:
  an archive's entries are accepted one after the other, each for a resource not
  marked yet, and none is left in the end, exactly if every resource is vouched
  for once. It rests on `NameOfPath`: a path leads to one name, apart from names
  `/data/something`, which the definition of a good archive leaves out as the code
  does. `PathsAgree` and `PathsAppend` take `Paths` one entry further.

### The conversation with the parent

`PortProofs`, from `PortAssumption`:

- `PortInvariant` and `LogIsExact` (`LogExact`): `PInv` says what has been said at
  every point of fwup's way out (`SaidSoFar`), that percentages grow and the highest
  one is kept for success, and who may close or leave first (`Parting`).
- `FramesAreExact` (`FramedExact`): `FrameInv` names how much of the stream has
  been read, the frames that have begun and the positions of what libarchive was
  given. `NoOtherStart` is the heart of it: the frames seen, with all positions from
  the next one on, are closed under "the next frame starts behind this one", and
  `Starts` is the smallest such set, so that no payload is taken for a length.

### Only model-checked

- All liveness: `CallsReturn`, `Terminates`, `Exits` (out of the prover's reach).
- `EvalExact`: recursive operators. The other algorithms (`MbrTables`, `GptTables`,
  `MatchExact`) share their module with `EvalMath`; they are checked over all small inputs.
- The theorems about the cache with `HwTrim` or without `VerifyWrites`, where they
  do not hold, and `ImplementsStore` with `Pitfalls`.

## 6. Where code and documentation disagree

One is kept as a run, `cache_reuse_loss` (`block_cache.c:671`): on a miss with no
free slot, `get_segment` takes the least recently used slot without waiting for
the writer thread when the slot is clean, and a segment in flight is clean. It
needs every other slot to be used more recently than the one in flight while one
write is under way: possible with few slots or a slow device, unlikely with 64
slots.

The others are stated as definitions next to the properties of the passing runs.
They do not hold; a configuration that names one of them gives the
counterexample.

| Definition | Where | What happens |
|---|---|---|
| `BlockCacheProps.NoErrorLost` with threads | `block_cache.c:378` | The failure of the last streamed segment is not seen by free, nor by flush unless it has a dirty segment to write and the failure has arrived by then. `CHANGELOG.md:294-297`: "Writes are verified as they're written". |
| `BlockCacheProps.TrimOnlyRange` with hardware trim | `mmc_linux.c:498` | The second number of the discard range is the end, where the kernel takes a length. `README.md:746`: "Discard any data previously written to the range". |
| `Apply.SwitchLastAlways` | `block_cache.c:647` | The flush goes by the last use of whole segments. An on-finish that, after its switch, writes a block of a segment (or only reads it) in which data of on-resource still waits moves that data behind the switch. The comment of `block_cache_flush` says that order is "mostly" kept, but also that the switch "will be done last" and, if the system crashes before, "won't occur" (`block_cache.c:547-551`); `fwup_apply.c:481-485` relies on it. |
| `Apply.ClosedQuietly` | `fwup_apply.c:498` | After a `fat_write` has stopped on a full filesystem, `fatfs_closefs` writes what FatFs holds through the cache before the reset; to make room, a segment of the failed handlers may go to the media. `block_cache.c:526-528`: "any writes that we still control can be cancelled". |
| `Apply.OnlyErrorHandlerFlushed` | `fwup_apply.c:600` | A final flush that fails in a read leaves no trace in `bad_offset`; the flush in the cleanup writes the rest, the switch included, while an error is reported. The comment says it is there "in case the on-error handler left something". |
| `Resource.ConcatenatedInOrder` | `sparse_file.c:229` | With `skip-holes`, data right behind a file that is only a hole: both disappear from the resource. `README.md:376-377`: "They will be concatenated in the order they appear". |
| `Delta.FinalBits` | `block_cache.c:212` | With an encrypted source, whatever the cache loads is decrypted: a segment shared with the destination, or one reloaded after an eviction, is written back as noise and the update succeeds. |
| `Delta.ErrorHandlerFresh` | `fwup_apply.c:430` | After a failed resource with an encrypted source the callback is still set while on-error runs, so its read-modify-writes decrypt what was never encrypted. The comment at `fwup_apply.c:496-497` says the handler "can start fresh". |
| `FatSession.ImplementsStore` with `"same_name"` | `fatfs.c:512`, `fatfs.c:571` | The open file is compared by name only: `fat_write` to the same name on a second filesystem goes to the first one. |
| `FatSession.ImplementsStore` with `"cp_evicts"` | `fatfs.c:337` | A copy between filesystems with all slots taken may read from the destination. |
| `FatSession.ImplementsStore` with `"attrib_fails"` | `functions.c:522` | `fat_attrib_run` returns 1 on an error, which counts as success. |

What a property, its comment or one of the `...Sound` definitions excuses or
leaves out:

- A segment that starts exactly at the end of the media is accepted with length
  zero, so such a write is dropped without an error (`block_cache.c:167`).
- With `--minimize-writes` and without verification the writer thread has no
  buffer to compare with and writes everything (`block_cache.c:442`).
- In `FailureStopsWrites`, closing FatFs while it holds a sector, and a final flush
  that fails in a read (`ClosedQuietly` and `OnlyErrorHandlerFlushed` above).
- Flush does not wait for the segment in flight, so that the switch may reach the
  media first by one segment (`block_cache.c:350`).
- The trim vector's growth makes no room for the first byte of a new unit
  (`block_cache.c:39`). It takes a write more than 64 GiB out on media that ends
  before that, which is going to fail anyway.
- Progress of an on-error handler is not part of the total (`progress.c:158`).
- Several updates of the U-Boot environment in one task, and `uboot_clearenv`,
  are not atomic under interruption (`uboot_env.c:401`, `functions.c:966`).
  `uboot_recover` takes an environment that it cannot read, because the device
  fails, for a corrupt one and does the same (`functions.c:926`).
- `pipe_write` compares the zeros written for a hole with the length of the
  data behind it and fails on most sparse resources (`functions.c:1185`). The
  test meant for it, `tests/138_pipe_write_sparse.test`, uses `path_write`.
- An empty file in a `host-path` with `skip-holes` makes the next one start with
  entry -1 of the map (`sparse_file.c:210`).
- MBR: the number of logical partitions is that of the section listed last, a
  logical partition may start on its own boot record, and an empty partition with
  `expand` can make `mbr_create` fail, whose result `mbr_create_cfg` does not look
  at: `mbr_write` succeeds and writes nothing (`mbr.c:375`, `mbr.c:418`,
  `mbr.c:515`).
- GPT: no check that the device is large enough or that partitions keep clear of
  the first table; the partition that expands must have the highest number, not
  the highest offset; sizes are cut to 32 bits (`gpt.c:59`, `functions.c:770`).
- `eval_math` takes `1(2)`-like parentheses for something. A `+` directly before a
  number is read by `strtoll` as its sign, so that `+1` and `1++2` have values
  while `++1` and `+(1)` have none; the grammar in `EvalMath` says so, and takes
  tokens to follow each other without white space (`eval_math.c:241`).
  `push_operator` does not check the end of the operator stack
  (`eval_math.c:167`): expressions of five tokens do not get there, and what
  happens there is not modelled, nor are numbers beyond 64 bits.
- `fatfs_file_matches` searches the first `br` bytes of the buffer, although
  `offset` bytes from the pass before are in front of them (`fatfs.c:485`): in a
  file longer than one buffer a pattern near the end of a pass is missed, and in
  a third pass stale bytes are searched.
- `fwup_sign` takes a header it cannot read for the end of the archive
  (`fwup_sign.c:81`), and neither it nor `fwup_create` looks at the result of
  `archive_write_close`. `fwup_create` writes in place, and a failed one leaves a
  part of an archive. Neither syncs before the rename. A `meta.conf` of 50000
  bytes or more is created and then refused by everything else. A resource called
  `/meta.conf.ed25519` is dropped by signing.
- A file that grows while an archive is made gives a resource that is a prefix of
  it, and verifies.
- An entry of the wrong size that begins like a patch is accepted by
  `fwup_verify`; whether it is one turns out when it is applied.
- Ctrl-Z and the status of the exit handshake are not framed (`util.c:463`).

## 7. Not modelled

- Cryptography and compression: libsodium, monocypher, libarchive, xdelta3. A
  hash is modelled as the data itself.
- FatFs and libconfuse, and text: the syntax of the configuration, `cfgprint.c`,
  lists and metadata (`fwup_list.c`, `fwup_metadata.c`), formatting.
- Finding, unmounting and opening devices (`mmc_*.c`, most of `ubi_linux.c`),
  which is operating-system calls, and the parsing of options in `fwup.c`.
- A soft end of the media (an image file), which limits nothing.
- Failures of the destination in `Resource`, `Delta` and `FatSession`; they are
  the subject of `BlockCache` and `Apply`.
- What the reset after a failure takes away from FAT filesystems (`fwup_apply.c:499`):
  `FatSession` leaves them as the handlers saw them when on-error starts. Writes
  that were still in the cache are lost in the code, so its `ImplementsStore` is
  about a device on which they have arrived.
- Two commands on one archive at once; they would share the temporary file.
- The writer thread together with decryption: `Delta` has one thread.

## 8. What could follow

All modules planned for the model are there, and the safety properties of all
of them are proved, apart from those of `EvalMath`, `Mbr`, `Gpt` and `FileMatch`. Worth doing next:

1. `MbrTables`, `GptTables` and `MatchExact`, with the algorithms in a module of
   their own, apart from the recursive operators of `EvalMath`.
2. An abstract write-back disk that `BlockCache` implements, so that `Apply`,
   `Delta` and `UbootEnv` rest on a stated contract instead of a summary of the
   cache. `DInv` of `BlockCacheProofs` and `Holds` of `DeltaProofs` have what the
   refinement needs.

Running it: `tlc -config X.cfg M` for each run of `PROJECT.json`, and `tlapm` for
each of the modules that end in `Proofs`. `FatSessionProofs`, `BlockCacheProofs`,
`DeltaProofs`, `ResourceProofs` and `ArchiveProofs` take some minutes each.
