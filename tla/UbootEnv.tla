------------------------------ MODULE UbootEnv ------------------------------
(***************************************************************************)
(* The U-Boot environment of uboot_env.c and the uboot_* functions of      *)
(* functions.c: one or two copies on the destination, a one-byte counter   *)
(* that says which of the two is newer, updates that go to the other copy, *)
(* and runs of fwup that may be cut off at any moment.                     *)
(*                                                                         *)
(* The handlers read and write through the block cache.  Of the cache this *)
(* module keeps what the handlers see (cache), which copies wait to be     *)
(* written back (dirty) and which of them was used last (recent): dirty    *)
(* segments go out from the least to the most recently used, by eviction   *)
(* or by the final flush.  Module BlockCache is about the cache itself.    *)
(***************************************************************************)
EXTENDS Integers, FiniteSets

CONSTANTS
  Names, Vals,    \* variable names and what they may be set to
  Unset, Bad,     \* a variable that is not set; a copy that does not decode
  UseRedundant,   \* block-offset-redund is given
  SameSegment,    \* both copies lie in one 128 KB segment of the cache
  Capacity,       \* how many variables fit into the environment
  StartFlags,     \* pairs of counters to start from
  MaxUpdates,     \* bound: updates of all runs together
  MaxBatch        \* bound: updates of a task before they are written back

Env   == [Names -> Vals \cup {Unset}]
Empty == [n \in Names |-> Unset]
Flag  == 0 .. 255
Copy  == {"primary", "secondary"}
Other(c) == CHOOSE d \in Copy : d # c

\* What is in a copy: the counter byte, which the CRC does not cover, and the
\* variables, Bad when the CRC is wrong or the names and values do not parse.
Stored == [flag : Flag, data : Env \cup {Bad}]

ASSUME UbootAssumption ==
  /\ UseRedundant \in BOOLEAN /\ SameSegment \in BOOLEAN
  /\ Capacity \in Nat /\ MaxUpdates \in Nat /\ MaxBatch \in Nat
  /\ StartFlags \subseteq Flag \X Flag
  /\ Names # {} /\ Vals # {} /\ Unset \notin Vals /\ Bad \notin Env

VARIABLES
  disk,       \* disk[c]: what is on the destination
  cache,      \* cache[c]: what block_cache_pread returns
  dirty,      \* copies written to the cache and not yet written back
  recent,     \* the copy used last
  failed,     \* a handler of this run returned an error
  \* history, read by the properties and by no guard of the code
  updates,    \* updates of all runs
  batch,      \* updates since everything was last written back
  cleared,    \* one of them replaced both copies
  last,       \* what the handlers made of the environment
  accepted    \* the environment this run started from and those it set
vars == <<disk, cache, dirty, recent, failed, updates, batch, cleared, last, accepted>>

----------------------------------------------------------------------------
(* Reading                                                                 *)

\* variant: which copy is newer, without regard for the wrap of the counter
PreferredNoWrap(s) == IF s["secondary"].flag > s["primary"].flag THEN "secondary" ELSE "primary"

\* The copy to try first: the bigger counter, accounting for wrap.
Preferred(s) ==
  LET delta == (256 + s["secondary"].flag - s["primary"].flag) % 256
  IN  IF delta = 0 \/ delta >= 128 THEN "primary" ELSE "secondary"

\* variant: the update goes to the copy that was just read
ReadOverwrites(s) ==
  LET c == Preferred(s) IN
  [ok |-> s[c].data # Bad, data |-> s[c].data, flags |-> s[c].flag, writes |-> {c}]

\* What is left in struct uboot_env: whether it decoded, the variables, the
\* counter and the copies the next uboot_env_write replaces.
uboot_env_read_redundant(s) ==
  LET c == Preferred(s)
      d == Other(c)
  IN  IF s[c].data # Bad
      THEN [ok |-> TRUE, data |-> s[c].data, flags |-> s[c].flag, writes |-> {d}]
      ELSE [ok |-> s[d].data # Bad, data |-> s[d].data, flags |-> s[d].flag,
            writes |-> IF s[d].data # Bad THEN {c} ELSE Copy]

uboot_env_read_non_redundant(s) ==
  [ok |-> s["primary"].data # Bad, data |-> s["primary"].data, flags |-> 0,
   writes |-> {"primary"}]

uboot_env_read(s) == IF UseRedundant THEN uboot_env_read_redundant(s)
                     ELSE uboot_env_read_non_redundant(s)

\* uboot_env_create_cfg: no variables, and every copy is to be written.
uboot_env_create_cfg ==
  [ok |-> TRUE, data |-> Empty, flags |-> 0,
   writes |-> IF UseRedundant THEN Copy ELSE {"primary"}]

\* What a boot loader that applies the same rule finds in s.
Found(s) == uboot_env_read(s).data

\* After a read the redundant copy was used last.
Touched == IF UseRedundant THEN "secondary" ELSE "primary"

----------------------------------------------------------------------------
(* Writing                                                                 *)

\* uboot_env_encode refuses what does not fit.
Fits(data) == Cardinality({n \in Names : data[n] # Unset}) <= Capacity

\* An error ends the task: the cache is thrown away (run_task).
Fail ==
  /\ failed' = TRUE
  /\ cache' = disk
  /\ dirty' = {}
  /\ last' = Found(disk)
  /\ UNCHANGED <<disk, recent, updates, batch, cleared, accepted>>

\* variant: the counter is not kept to a byte
WideCounter(env) == [flag |-> env.flags + 1, data |-> env.data]
Encoded(env) == [flag |-> IF UseRedundant THEN (env.flags + 1) % 256 ELSE 0, data |-> env.data]

uboot_env_write(env) ==
  \/ ~Fits(env.data) /\ Fail
  \/ /\ Fits(env.data)
     /\ cache' = [c \in Copy |-> IF c \in env.writes THEN Encoded(env) ELSE cache[c]]
     /\ dirty' = dirty \cup env.writes
     /\ recent' = IF "secondary" \in env.writes THEN "secondary" ELSE "primary"
     /\ batch' = batch + 1
     /\ cleared' = (cleared \/ env.writes = Copy)
     /\ last' = env.data
     /\ accepted' = accepted \cup {env.data}
     /\ updates' = updates + 1
     /\ UNCHANGED <<disk, failed>>

Running == ~failed /\ updates < MaxUpdates /\ batch < MaxBatch

\* Read, change one variable, write.  The read fails where nothing decodes; and
\* it may fail at any time because the destination does.
Update(n, v) ==
  LET env == uboot_env_read(cache) IN
  \/ Fail
  \/ env.ok /\ uboot_env_write([env EXCEPT !.data = [env.data EXCEPT ![n] = v]])

uboot_setenv_run   == Running /\ \E n \in Names, v \in Vals : Update(n, v)
uboot_unsetenv_run == Running /\ \E n \in Names : Update(n, Unset)

uboot_clearenv_run ==
  /\ Running
  /\ uboot_env_write(uboot_env_create_cfg)

\* A read that fails because the destination does is taken for a corrupt
\* environment too.
uboot_recover_run ==
  /\ Running
  /\ \/ uboot_env_write(uboot_env_create_cfg)
     \/ /\ uboot_env_read(cache).ok
        /\ recent' = Touched
        /\ UNCHANGED <<disk, cache, dirty, failed, updates, batch, cleared, last, accepted>>

----------------------------------------------------------------------------
(* Write-back and interruption                                             *)

AllAtOnce == dirty   \* variant: both copies in one write
\* The copies in the segment that goes out next: the least recently used
\* dirty one.
Outgoing ==
  IF SameSegment THEN Copy
  ELSE IF Other(recent) \in dirty THEN {Other(recent)} ELSE {recent}

\* Eviction or flush of one segment.
WriteBack ==
  /\ dirty # {}
  /\ disk' = [c \in Copy |-> IF c \in Outgoing THEN cache[c] ELSE disk[c]]
  /\ dirty' = dirty \ Outgoing
  /\ batch' = IF dirty' = {} THEN 0 ELSE batch
  /\ cleared' = (cleared /\ dirty' # {})
  /\ UNCHANGED <<cache, recent, failed, updates, last, accepted>>

\* What an interrupted write can leave of one copy.  Its first block holds the
\* CRC and the counter; a copy that is only partly new does not decode.
Torn(old, new) ==
  IF old.data = new.data THEN {old, new}
  ELSE {old, new} \cup {[flag |-> f, data |-> Bad] : f \in {old.flag, new.flag}}

\* The next run starts with an empty cache.
Restart(d) ==
  /\ disk' = d
  /\ cache' = d
  /\ dirty' = {}
  /\ recent' = Touched
  /\ failed' = FALSE
  /\ batch' = 0 /\ cleared' = FALSE
  /\ last' = Found(d)
  /\ accepted' = {Found(d)}
  /\ UNCHANGED updates

\* Power fails, or the process is killed, between two writes to the media or
\* in the middle of one; then fwup runs again.  The same step with nothing
\* dirty is the end of one run and the start of the next.
Interrupted ==
  \/ Restart(disk)
  \/ /\ dirty # {}
     /\ \E left \in [Copy -> UNION {Torn(disk[c], cache[c]) : c \in Copy}] :
          /\ \A c \in Copy : left[c] \in IF c \in Outgoing THEN Torn(disk[c], cache[c])
                                         ELSE {disk[c]}
          /\ Restart(left)

----------------------------------------------------------------------------
\* A device in the field: the copies of the last two updates; or, before the
\* first update, only one good copy, or none.
OneSet == [Empty EXCEPT ![CHOOSE n \in Names : TRUE] = CHOOSE v \in Vals : TRUE]
StartCopies ==
  {[c \in Copy |-> IF c = p THEN [flag |-> ff[1], data |-> dd[1]]
                             ELSE [flag |-> ff[2], data |-> dd[2]]] :
     p \in Copy, ff \in StartFlags, dd \in {<<Empty, OneSet>>, <<Bad, OneSet>>, <<Bad, Bad>>}}

Init ==
  /\ disk \in StartCopies
  /\ cache = disk
  /\ dirty = {} /\ recent = Touched /\ failed = FALSE
  /\ updates = 0 /\ batch = 0 /\ cleared = FALSE
  /\ last = Found(disk)
  /\ accepted = {last}

Next ==
  \/ uboot_setenv_run \/ uboot_unsetenv_run \/ uboot_clearenv_run \/ uboot_recover_run
  \/ WriteBack \/ Interrupted

Spec == Init /\ [][Next]_vars

----------------------------------------------------------------------------
(* Properties                                                              *)

\* The range of every variable: the counter stays a byte, copies stay decodable
\* environments or Bad.
TypeOK ==
  /\ disk \in [Copy -> Stored] /\ cache \in [Copy -> Stored]
  /\ dirty \subseteq Copy /\ recent \in Copy /\ failed \in BOOLEAN
  /\ updates \in Nat /\ batch \in Nat /\ cleared \in BOOLEAN
  /\ last \in Env \cup {Bad} /\ accepted \subseteq Env \cup {Bad}

\* The next handler, and the boot loader once all is written back, find what
\* the previous handler left, whatever copies the updates went to and wherever
\* the one-byte counter stands (CHANGELOG v1.10.1: the wrong copy was picked
\* when it went from 127 to 128).
ReadsLastUpdate == Found(cache) = last

\* With two good copies in segments of their own, some environment can be read
\* wherever a run is cut off, however many updates wait in the cache: the flush
\* never has both copies open at once.
NeverUnreadable ==
  [][(UseRedundant /\ ~SameSegment /\ \A c \in Copy : disk[c].data # Bad)
        => Found(disk') # Bad]_vars

\* Cut off at any moment, a run leaves either the environment it started from
\* or one that a handler set: never a mixture, and never an older one.  This
\* holds while one update waits in the cache.  Not covered are two or more,
\* where the copy that holds the current environment may be overwritten before
\* the other one is complete, and uboot_clearenv (or a uboot_recover that could
\* not read), which restarts the counter of both copies and, cut off between
\* them, can bring the older one back.
CrashAtomic ==
  [][(UseRedundant /\ ~cleared /\ batch <= 1) => Found(disk') \in accepted]_vars

----------------------------------------------------------------------------
(* The inductive invariant behind CrashAtomic                              *)

\* What is not dirty is as on the media; nothing is dirty unless updates wait;
\* the last update is one of the accepted ones.
Settled ==
  /\ \A c \in Copy \ dirty : cache[c] = disk[c]
  /\ batch = 0 \/ failed => dirty = {}
  /\ ~failed => last \in accepted

\* A single pending update replaces the copy w that is not in force: the other
\* one is good, it is what is found on the media, and w's new counter follows
\* its counter.
PendingIn(w) ==
  /\ dirty = {w}
  /\ disk[Other(w)].data # Bad
  /\ cache[w].flag = (disk[Other(w)].flag + 1) % 256
  /\ cache[w].data \in accepted
  /\ Found(disk) = disk[Other(w)].data

OnePending ==
  (UseRedundant /\ ~cleared /\ batch <= 1) =>
     /\ Found(disk) \in accepted
     /\ dirty = {} \/ \E w \in Copy : PendingIn(w)

\* The inductive invariant: types, the last update is found, and what waits in
\* the cache relative to what is on the media.
UInv == TypeOK /\ ReadsLastUpdate /\ Settled /\ OnePending

=============================================================================
