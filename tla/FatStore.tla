------------------------------ MODULE FatStore ------------------------------
(***************************************************************************)
(* What the fat_* functions promise the author of fwup.conf (README.md,    *)
(* table of functions): a set of file systems, each named by its block     *)
(* offset, each a set of files.  A function that succeeds has changed the  *)
(* file it names on the file system it names and nothing else; one that    *)
(* fails has changed at most that file.  There are no mounts, no open      *)
(* files and no order in which file systems may be used.  Module           *)
(* FatSession is shown to implement this.                                  *)
(***************************************************************************)
EXTENDS Integers, Sequences

CONSTANTS
  Offsets,    \* block offsets of the file systems
  Names,      \* file names
  Contents,   \* contents of resources: sequences of data and holes
  NoFS,       \* nothing formatted at this offset
  None, Dir,  \* no entry of this name; a directory
  Torn,       \* a file that is being written
  Hole        \* a unit of a resource that its sparse map leaves out

VARIABLES
  store,      \* store[o]: NoFS or the entries of the file system
  writing,    \* the fat_write under way: [at, name, content], or None
  failed,     \* the last function failed and the session is not closed yet
  last        \* the function completed last, with its arguments
storeVars == <<store, writing, failed, last>>

File(data, ro) == [data |-> data, ro |-> ro]
Zero == "zero"
Filled(c) == [i \in DOMAIN c |-> IF c[i] = Hole THEN Zero ELSE c[i]]
Formatted(o) == store[o] # NoFS
IsFile(e) == e \notin {None, Dir}

\* What the device may hold: nothing, or a file system with old files.
Before(o) == {NoFS, [n \in Names |-> File(<<o>>, FALSE)]}
Init == /\ DOMAIN store = Offsets /\ \A o \in Offsets : store[o] \in Before(o)
        /\ writing = None /\ failed = FALSE /\ last = None

\* Function f completes with this store.
Completes(f, st) ==
  /\ ~failed
  /\ store' = st /\ last' = f /\ failed' = FALSE /\ writing' = None
Put(o, n, e) == [store EXCEPT ![o][n] = e]

Mkfs(o) == writing = None /\ Completes(<<"mkfs", o>>, [store EXCEPT ![o] = [n \in Names |-> None]])
Mkdir(o, n) == /\ writing = None /\ Formatted(o) /\ store[o][n] \in {None, Dir}
               /\ Completes(<<"mkdir", o, n>>, Put(o, n, Dir))
Touch(o, n) == /\ writing = None /\ Formatted(o)
               /\ \/ store[o][n] = None /\ Completes(<<"touch", o, n>>, Put(o, n, File(<<>>, FALSE)))
                  \/ IsFile(store[o][n]) /\ Completes(<<"touch", o, n>>, store)
Rm(o, n) == writing = None /\ Formatted(o) /\ Completes(<<"rm", o, n>>, Put(o, n, None))
Mv(o, a, b) == /\ writing = None /\ Formatted(o) /\ store[o][a] # None
               /\ Completes(<<"mv", o, a, b>>, [store EXCEPT ![o][a] = None, ![o][b] = store[o][a]])
Cp(p, a, o, b) == /\ writing = None /\ Formatted(o) /\ Formatted(p) /\ IsFile(store[p][a])
                  /\ Completes(<<"cp", p, a, o, b>>, Put(o, b, File(store[p][a].data, FALSE)))
Attrib(o, n, ro) == /\ writing = None /\ Formatted(o) /\ store[o][n] # None
                    /\ Completes(<<"attrib", o, n, ro>>,
                                 IF store[o][n] = Dir THEN store
                                 ELSE Put(o, n, File(store[o][n].data, ro)))
Setlabel(o) == writing = None /\ Formatted(o) /\ Completes(<<"setlabel", o>>, store)
Exists(o) == writing = None /\ Completes(<<"exists", o>>, store)
BeginWrite(o, n, c) == /\ writing = None /\ ~failed /\ Formatted(o)
                       /\ store' = Put(o, n, Torn)
                       /\ writing' = [at |-> o, name |-> n, content |-> c]
                       /\ UNCHANGED <<failed, last>>
EndWrite ==                     \* a file still open keeps its attribute
  /\ writing # None
  /\ \E ro \in BOOLEAN :
       Completes(<<"write", writing.at, writing.name>>,
                 Put(writing.at, writing.name, File(Filled(writing.content), ro)))

\* A function that fails: whatever is left of the one entry it was to change.
EndsBadly(o, n) ==
  /\ writing # None => writing.at = o /\ writing.name = n
  /\ ~failed /\ failed' /\ writing' = None /\ UNCHANGED last
  /\ \A p \in Offsets \ {o} : store'[p] = store[p]
  /\ IF Formatted(o) THEN \A m \in Names \ {n} : store'[o][m] = store[o][m]
                     ELSE store'[o] = store[o]
MkfsFails(o) ==
  /\ writing = None /\ ~failed /\ failed' /\ UNCHANGED <<writing, last>>
  /\ store' \in {store, [store EXCEPT ![o] = NoFS]}
Recover == failed /\ failed' = FALSE /\ UNCHANGED <<store, writing, last>>

OnFile(o, n) ==
  \/ Mkdir(o, n) \/ Touch(o, n) \/ Rm(o, n) \/ EndsBadly(o, n)
  \/ \E m \in Names : Mv(o, n, m) \/ \E p \in Offsets : Cp(p, m, o, n)
  \/ \E ro \in BOOLEAN : Attrib(o, n, ro)
  \/ \E c \in Contents : BeginWrite(o, n, c)
OnFileSystem(o) == Mkfs(o) \/ MkfsFails(o) \/ Setlabel(o) \/ Exists(o) \/ \E n \in Names : OnFile(o, n)
Next == (\E o \in Offsets : OnFileSystem(o)) \/ EndWrite \/ Recover
Spec == Init /\ [][Next]_storeVars
=============================================================================
