-------------------------- MODULE FatSessionProofs --------------------------
(***************************************************************************)
(* Proofs about the FAT session: the table of mounted file systems and the *)
(* open file agree whatever functions are called in whatever order, and    *)
(* the functions implement module FatStore.                                *)
(***************************************************************************)
EXTENDS FatSession, FiniteSetTheorems, NaturalsInduction, SequenceTheorems, TLAPS

----------------------------------------------------------------------------
(* The inductive invariant                                                 *)

FileSystem == [Names -> Entry]
FileSystems == [Offsets -> {NoFS} \cup FileSystem]
OpenFile == [slot : Slots, at : Offsets \cup {None}, name : Names \cup {None}, pos : Nat, valid : BOOLEAN]
Session == [mounted : [Slots -> Offsets \cup {None}], next : Slots, cur : Names \cup {None}, fil : OpenFile]

\* FatFs accepts the open file of session s: it is there, in st.
Accepted(s, st) ==
  /\ s.mounted[s.fil.slot] = s.fil.at
  /\ st[s.fil.at] # NoFS /\ IsFile(st[s.fil.at][s.fil.name])
  /\ s.fil.pos <= Len(st[s.fil.at][s.fil.name].data)

\* A session s that has used the file systems in seen, as st holds them.
OnceMounted(s) == \A j, k \in Slots : s.mounted[j] = s.mounted[k] /\ s.mounted[j] # None => j = k
MountsSeen(s, seen) == \A k \in Slots : s.mounted[k] \in seen \cup {None}
FileKnown(s) == /\ s.cur = None => s.fil = NoFile
                /\ s.cur # None => s.fil.at \in Offsets /\ s.fil.name = s.cur
FileLives(s, st, seen, formatted) ==
  s.cur # None => IF s.fil.valid THEN Accepted(s, st)
                  ELSE Cardinality(seen) > Volumes \/ formatted
Good(s, st, seen, formatted) ==
  /\ s \in Session /\ OnceMounted(s) /\ MountsSeen(s, seen) /\ FileKnown(s)
  /\ FileLives(s, st, seen, formatted)

FatTypes ==
  /\ fs \in FileSystems /\ job \in {None} \cup Job /\ calls \in Nat /\ failed \in BOOLEAN
  /\ used \in [seen : SUBSET Offsets, formatted : BOOLEAN] /\ IsFiniteSet(used.seen)
JobSeen == job # None => job.at \in used.seen
FInv == FatTypes /\ JobSeen /\ Good(ses, fs, used.seen, used.formatted)

----------------------------------------------------------------------------
(* Mounts                                                                  *)

\* A set of numbers has a least one.
LEMMA LeastNumber ==
  ASSUME NEW S, S \subseteq Nat, S # {}
  PROVE  \E x \in S : \A y \in S : x <= y
<1> DEFINE R == OpToRel(<, Nat)
<1>1. IsWellFoundedOn(R, Nat)
  BY NatLessThanWellFounded
<1> HIDE DEF R
<1>2. PICK x \in S : \A y \in S : ~(<<y, x>> \in R)
  BY <1>1, WFMin
<1>3. \A y \in S : <<y, x>> \in R <=> y < x
  BY DEF R, OpToRel
<1>4. x \in Nat /\ \A y \in S : y \in Nat /\ ~(y < x)
  BY <1>2, <1>3
<1>5. \A y \in S : x <= y
  BY <1>4
<1> QED BY <1>5

\* The slot that is taken is free if there is a free one.
LEMMA NextSlotFree ==
  ASSUME NEW s \in Session
  PROVE  /\ NextSlot(s) \in Slots
         /\ s.mounted[NextSlot(s)] # None => \A k \in Slots : s.mounted[k] # None
<1> DEFINE ring(i) == (s.next + i) % Volumes
           free == {i \in Slots : s.mounted[ring(i)] = None}
<1>0. Volumes \in Nat \ {0} /\ s.next \in Slots /\ Slots \subseteq Nat
  BY FatAssumption DEF Session, Slots
<1>1. \A i \in Slots : ring(i) \in Slots
  BY <1>0 DEF Slots
<1>2. NextSlot(s) = IF free = {} THEN s.next ELSE ring(CHOOSE i \in free : \A j \in free : i <= j)
  BY DEF NextSlot
<1>3. CASE free # {}
  <2>1. \E i \in free : \A j \in free : i <= j
    BY <1>0, <1>3, LeastNumber
  <2> DEFINE i == CHOOSE i \in free : \A j \in free : i <= j
  <2>2. i \in free
    BY <2>1
  <2> QED BY <1>1, <1>2, <1>3, <2>2
<1>4. CASE free = {}
  <2>1. NextSlot(s) = s.next
    BY <1>2, <1>4
  <2>2. \A k \in Slots : \E i \in Slots : ring(i) = k
    <3> SUFFICES ASSUME NEW k \in Slots PROVE \E i \in Slots : ring(i) = k
      OBVIOUS
    <3>1. CASE k >= s.next
      <4>1. k - s.next \in Slots /\ (s.next + (k - s.next)) % Volumes = k
        BY <1>0, <3>1 DEF Slots
      <4> QED BY <4>1
    <3>2. CASE k < s.next
      <4> DEFINE i == k - s.next + Volumes
      <4>1. i \in Slots /\ s.next + i = k + Volumes
        BY <1>0, <3>2 DEF Slots
      <4>2. (k + Volumes) % Volumes = k
        BY <1>0 DEF Slots
      <4> HIDE DEF i
      <4> QED BY <4>1, <4>2
    <3>3. k \in Nat /\ s.next \in Nat
      BY <1>0
    <3>4. k >= s.next \/ k < s.next
      BY <3>3
    <3> QED BY <3>1, <3>2, <3>4
  <2>3. \A k \in Slots : s.mounted[k] # None
    BY <1>4, <2>2
  <2> QED BY <1>0, <2>1, <2>3
<1> QED BY <1>3, <1>4

\* maybe_mount, one field at a time.
LEMMA MountFields ==
  ASSUME NEW s \in Session, NEW o \in Offsets, ~Mounted(s, o)
  PROVE  LET m == maybe_mount(s, o)
             k == NextSlot(s)
         IN  /\ m \in Session /\ k \in Slots
             /\ m.mounted[k] = o
             /\ \A j \in Slots \ {k} : m.mounted[j] = s.mounted[j]
             /\ m.cur = s.cur /\ m.fil.slot = s.fil.slot /\ m.fil.at = s.fil.at
             /\ m.fil.name = s.fil.name /\ m.fil.pos = s.fil.pos
             /\ m.fil.valid = (s.fil.valid /\ s.fil.slot # k)
             /\ ~s.fil.valid => m.fil = s.fil
<1> DEFINE m == maybe_mount(s, o)
           k == NextSlot(s)
<1>0. Volumes \in Nat \ {0} /\ k \in Slots /\ Slots \subseteq Nat
  BY FatAssumption, NextSlotFree DEF Slots
<1>1. m = [s EXCEPT !.mounted[k] = o, !.next = (k + 1) % Volumes, !.fil = Invalidate(s.fil, k)]
  BY DEF maybe_mount
<1>2. (k + 1) % Volumes \in Slots
  BY <1>0 DEF Slots
<1> HIDE DEF k
<1>3. /\ s.mounted \in [Slots -> Offsets \cup {None}] /\ s.fil \in OpenFile
  BY DEF Session
<1>4. /\ m.mounted = [s.mounted EXCEPT ![k] = o] /\ m.next = (k + 1) % Volumes
      /\ m.cur = s.cur /\ m.fil = Invalidate(s.fil, k)
      /\ m = [mounted |-> m.mounted, next |-> m.next, cur |-> m.cur, fil |-> m.fil]
  BY <1>1 DEF Session
<1>5. /\ Invalidate(s.fil, k) \in OpenFile
      /\ Invalidate(s.fil, k).slot = s.fil.slot /\ Invalidate(s.fil, k).at = s.fil.at
      /\ Invalidate(s.fil, k).name = s.fil.name /\ Invalidate(s.fil, k).pos = s.fil.pos
      /\ Invalidate(s.fil, k).valid = (s.fil.valid /\ s.fil.slot # k)
  BY <1>3 DEF Invalidate, OpenFile
<1>6. ~s.fil.valid => Invalidate(s.fil, k) = s.fil
  BY <1>3, <1>5 DEF OpenFile
<1> HIDE DEF m
<1>7. m.mounted \in [Slots -> Offsets \cup {None}]
  BY <1>0, <1>3, <1>4
<1>8. m \in Session
  BY <1>2, <1>4, <1>5, <1>7 DEF Session
<1>9. m.mounted[k] = o /\ \A j \in Slots \ {k} : m.mounted[j] = s.mounted[j]
  BY <1>0, <1>3, <1>4
<1> QED BY <1>0, <1>4, <1>5, <1>6, <1>8, <1>9 DEF m, k

\* When all slots are taken and one more is wanted there are too many.
LEMMA TooMany ==
  ASSUME NEW s \in Session, OnceMounted(s), NEW seen \in SUBSET Offsets, IsFiniteSet(seen),
         MountsSeen(s, seen), NEW o \in Offsets, ~Mounted(s, o), \A k \in Slots : s.mounted[k] # None
  PROVE  Cardinality(seen \cup {o}) > Volumes
<1> DEFINE M == {s.mounted[k] : k \in Slots}
<1>1. /\ IsFiniteSet(Slots) /\ Cardinality(Slots) = Volumes /\ Volumes \in Nat
  <2>1. Volumes \in Nat \ {0}
    BY FatAssumption
  <2>2. IsFiniteSet(0 .. Volumes - 1)
        /\ Cardinality(0 .. Volumes - 1) = IF 0 > Volumes - 1 THEN 0 ELSE Volumes - 1 - 0 + 1
    BY <2>1, FS_Interval
  <2> QED BY <2>1, <2>2 DEF Slots
<1>2. s.mounted \in Injection(Slots, M)
  BY DEF Session, OnceMounted, Injection, IsInjective
<1>3. M \subseteq seen /\ o \notin M
  BY DEF MountsSeen, Mounted
<1>4. IsFiniteSet(M)
  BY <1>3, FS_Subset
<1>5. Volumes <= Cardinality(M)
  BY <1>1, <1>2, <1>4, FS_Injection
<1> HIDE DEF M
<1>6. IsFiniteSet(M \cup {o}) /\ Cardinality(M \cup {o}) = Cardinality(M) + 1 /\ Cardinality(M) \in Nat
  BY <1>3, <1>4, FS_AddElement, FS_CardinalityType
<1>7. IsFiniteSet(seen \cup {o}) /\ Cardinality(seen \cup {o}) \in Nat
  BY FS_AddElement, FS_CardinalityType
<1>8. Cardinality(M \cup {o}) <= Cardinality(seen \cup {o})
  BY <1>3, <1>7, FS_Subset
<1> QED BY <1>1, <1>5, <1>6, <1>7, <1>8

\* Using one more file system leaves at least as many.
LEMMA MoreSeen ==
  ASSUME NEW seen, IsFiniteSet(seen), NEW o
  PROVE  IsFiniteSet(seen \cup {o}) /\ (Cardinality(seen) > Volumes => Cardinality(seen \cup {o}) > Volumes)
<1>1. /\ IsFiniteSet(seen \cup {o}) /\ Cardinality(seen) \in Nat /\ Volumes \in Nat
      /\ Cardinality(seen \cup {o}) = IF o \in seen THEN Cardinality(seen) ELSE Cardinality(seen) + 1
  BY FS_AddElement, FS_CardinalityType, FatAssumption
<1> QED BY <1>1

\* Mounting keeps a session good.
LEMMA MountGood ==
  ASSUME NEW s, NEW st, NEW seen \in SUBSET Offsets, IsFiniteSet(seen), NEW fm \in BOOLEAN,
         Good(s, st, seen, fm), NEW o \in Offsets
  PROVE  /\ Good(maybe_mount(s, o), st, seen \cup {o}, fm)
         /\ Mounted(maybe_mount(s, o), o)
         /\ maybe_mount(s, o).cur = s.cur
<1> DEFINE m == maybe_mount(s, o)
           k == NextSlot(s)
<1>0. s \in Session /\ OnceMounted(s) /\ MountsSeen(s, seen) /\ FileKnown(s) /\ FileLives(s, st, seen, fm)
  BY DEF Good
<1>1. CASE Mounted(s, o)
  <2>1. m = s
    BY <1>1 DEF maybe_mount
  <2>2. FileLives(s, st, seen \cup {o}, fm)
    BY <1>0, MoreSeen DEF FileLives
  <2>3. MountsSeen(s, seen \cup {o})
    BY <1>0 DEF MountsSeen
  <2> QED BY <1>0, <1>1, <2>1, <2>2, <2>3 DEF Good
<1>2. CASE ~Mounted(s, o)
  <2>1. /\ m \in Session /\ k \in Slots /\ m.mounted[k] = o
        /\ \A j \in Slots \ {k} : m.mounted[j] = s.mounted[j]
        /\ m.cur = s.cur /\ m.fil.slot = s.fil.slot /\ m.fil.at = s.fil.at
        /\ m.fil.name = s.fil.name /\ m.fil.pos = s.fil.pos
        /\ m.fil.valid = (s.fil.valid /\ s.fil.slot # k)
        /\ ~s.fil.valid => m.fil = s.fil
    BY <1>0, <1>2, MountFields
  <2>2. s.fil.slot \in Slots /\ None \notin Offsets
    BY <1>0, FatAssumption DEF Session, OpenFile
  <2>3. s.mounted[k] # None => \A j \in Slots : s.mounted[j] # None
    BY <1>0, NextSlotFree
  <2> HIDE DEF m, k
  <2>4. OnceMounted(m)
    BY <1>0, <1>2, <2>1 DEF OnceMounted, Mounted
  <2>5. MountsSeen(m, seen \cup {o})
    BY <1>0, <2>1 DEF MountsSeen
  <2>6. FileKnown(m)
    BY <1>0, <2>1 DEF FileKnown, NoFile
  <2>7. FileLives(m, st, seen \cup {o}, fm)
    <3> SUFFICES ASSUME m.cur # None
                 PROVE  IF m.fil.valid THEN Accepted(m, st)
                        ELSE Cardinality(seen \cup {o}) > Volumes \/ fm
      BY DEF FileLives
    <3>1. CASE m.fil.valid
      <4>1. s.fil.valid /\ s.fil.slot # k /\ Accepted(s, st)
        BY <1>0, <2>1, <3>1 DEF FileLives
      <4> QED BY <2>1, <2>2, <3>1, <4>1 DEF Accepted
    <3>2. CASE ~m.fil.valid /\ s.fil.valid
      <4>1. s.fil.slot = k /\ s.mounted[k] = s.fil.at /\ s.fil.at \in Offsets
        BY <1>0, <2>1, <3>2 DEF FileLives, Accepted, FileKnown
      <4>2. \A j \in Slots : s.mounted[j] # None
        BY <2>2, <2>3, <4>1
      <4>3. Cardinality(seen \cup {o}) > Volumes
        BY <1>0, <1>2, <4>2, TooMany
      <4> QED BY <3>2, <4>3
    <3>3. CASE ~m.fil.valid /\ ~s.fil.valid
      <4>1. Cardinality(seen) > Volumes \/ fm
        BY <1>0, <2>1, <3>3 DEF FileLives
      <4> QED BY <3>3, <4>1, MoreSeen
    <3> QED BY <3>1, <3>2, <3>3
  <2>8. Mounted(m, o)
    BY <2>1 DEF Mounted
  <2>9. Good(m, st, seen \cup {o}, fm)
    BY <2>1, <2>4, <2>5, <2>6, <2>7 DEF Good
  <2> QED BY <2>1, <2>8, <2>9 DEF m
<1> QED BY <1>1, <1>2

\* Closing forgets the file, whatever becomes of the file systems.
LEMMA CloseGood ==
  ASSUME NEW s, NEW st, NEW st2, NEW seen, NEW fm, Good(s, st, seen, fm)
  PROVE  Good(close_open_files(s), st2, seen, fm) /\ close_open_files(s).cur = None
<1> DEFINE c == close_open_files(s)
<1>1. /\ c.mounted = s.mounted /\ c.next = s.next /\ c.cur = None /\ c.fil = NoFile
      /\ c = [mounted |-> c.mounted, next |-> c.next, cur |-> c.cur, fil |-> c.fil]
  <2>1. s \in Session
    BY DEF Good
  <2>2. c = [s EXCEPT !.cur = None, !.fil = NoFile]
    BY DEF close_open_files
  <2> HIDE DEF c
  <2>3. c.mounted = s.mounted /\ c.next = s.next
    BY <2>1, <2>2 DEF Session
  <2>4. c.cur = None /\ c.fil = NoFile
    BY <2>1, <2>2 DEF Session
  <2>5. c = [mounted |-> c.mounted, next |-> c.next, cur |-> c.cur, fil |-> c.fil]
    BY <2>1, <2>2 DEF Session
  <2> QED BY <2>3, <2>4, <2>5
<1>2. NoFile \in OpenFile
  BY FatAssumption DEF NoFile, OpenFile, Slots
<1> HIDE DEF c
<1>3. c \in Session
  BY <1>1, <1>2 DEF Good, Session
<1> QED BY <1>1, <1>3 DEF c, Good, OnceMounted, MountsSeen, FileKnown, FileLives

\* So does what most functions start with.
LEMMA CloseAndMountGood ==
  ASSUME NEW s, NEW st, NEW st2, NEW seen \in SUBSET Offsets, IsFiniteSet(seen), NEW fm \in BOOLEAN,
         Good(s, st, seen, fm), NEW o \in Offsets
  PROVE  /\ Good(CloseAndMount(s, o), st2, seen \cup {o}, fm)
         /\ Mounted(CloseAndMount(s, o), o) /\ CloseAndMount(s, o).cur = None
<1>1. Good(close_open_files(s), st2, seen, fm) /\ close_open_files(s).cur = None
  BY CloseGood
<1> QED BY <1>1, MountGood DEF CloseAndMount

\* The slot of a mounted file system.
LEMMA SlotOfMounted ==
  ASSUME NEW s \in Session, NEW o \in Offsets, Mounted(s, o)
  PROVE  SlotOf(s, o) \in Slots /\ s.mounted[SlotOf(s, o)] = o
BY DEF Mounted, SlotOf

----------------------------------------------------------------------------
(* The entries of a file system                                            *)

LEMMA RoomNat == \A st : Room(st) \in Nat
<1> SUFFICES ASSUME NEW st PROVE Room(st) \in Nat
  OBVIOUS
<1> DEFINE taken == MapThenSumSet(LAMBDA n : Size(st[n]), Names)
<1>1. Room(st) = IF taken \in 0 .. Cap THEN Cap - taken ELSE 0
  BY DEF Room
<1> HIDE DEF taken
<1> QED BY <1>1, FatAssumption

\* Files are told apart from no entry and from directories.
LEMMA Entries ==
  /\ \A e \in Entry : IsFile(e) <=> e \in FileEntry
  /\ \A e \in FileEntry : e \in Entry /\ e.data \in Seq(Data) /\ e.ro \in BOOLEAN /\ e = File(e.data, e.ro)
  /\ \A data \in Seq(Data), ro \in BOOLEAN :
       /\ File(data, ro) \in FileEntry /\ IsFile(File(data, ro))
       /\ File(data, ro).data = data /\ File(data, ro).ro = ro
  /\ None \in Entry /\ Dir \in Entry /\ ~IsFile(None) /\ ~IsFile(Dir)
<1>1. \A e \in Entry : IsFile(e) <=> e \in FileEntry
  BY FatAssumption DEF Entry, IsFile
<1>2. \A e \in FileEntry : e \in Entry /\ e.data \in Seq(Data) /\ e.ro \in BOOLEAN /\ e = File(e.data, e.ro)
  BY DEF Entry, FileEntry, File
<1>3. \A data \in Seq(Data), ro \in BOOLEAN :
       File(data, ro) \in FileEntry /\ File(data, ro).data = data /\ File(data, ro).ro = ro
  BY DEF File, FileEntry
<1>4. None \in Entry /\ Dir \in Entry /\ ~IsFile(None) /\ ~IsFile(Dir)
  BY DEF Entry, IsFile
<1> QED BY <1>1, <1>2, <1>3, <1>4

LEMMA EmptyFile == /\ File(<<>>, FALSE) \in FileEntry /\ File(<<>>, FALSE) \in Entry
                   /\ File(<<>>, FALSE).data = <<>> /\ Len(<<>>) = 0 /\ <<>> \in Seq(Data)
<1>1. <<>> \in Seq(Data) /\ Len(<<>>) = 0
  OBVIOUS
<1>2. FALSE \in BOOLEAN
  OBVIOUS
<1> QED BY <1>1, <1>2, Entries

\* Replacing one entry.
With(st, o, n, e) == [st EXCEPT ![o][n] = e]
LEMMA PutFields ==
  ASSUME NEW st \in FileSystems, NEW o \in Offsets, st[o] # NoFS, NEW n \in Names, NEW e
  PROVE  /\ \A p \in Offsets \ {o} : With(st, o, n, e)[p] = st[p]
         /\ With(st, o, n, e)[o][n] = e
         /\ \A m \in Names \ {n} : With(st, o, n, e)[o][m] = st[o][m]
         /\ e \in Entry => With(st, o, n, e) \in FileSystems /\ With(st, o, n, e)[o] # NoFS
<1>0. st[o] \in FileSystem /\ st[o] \in [Names -> Entry]
  BY DEF FileSystems, FileSystem
<1> DEFINE q == With(st, o, n, e)
           d == [st[o] EXCEPT ![n] = e]
<1>1. q = [st EXCEPT ![o] = d]
  BY DEF With
<1>2. d[n] = e /\ \A m \in Names \ {n} : d[m] = st[o][m]
  BY <1>0
<1>3. e \in Entry => d \in FileSystem
  BY <1>0 DEF FileSystem
<1>4. \A x \in FileSystem : x # NoFS
  BY FatAssumption DEF FileSystem
<1> HIDE DEF d, q
<1>5. q[o] = d /\ \A p \in Offsets \ {o} : q[p] = st[p]
  BY <1>1 DEF FileSystems
<1>6. d \in FileSystem => q \in FileSystems
  BY <1>1 DEF FileSystems
<1> QED BY <1>2, <1>3, <1>4, <1>5, <1>6 DEF q

\* Two stores with the same entries are the same.
LEMMA SameStore ==
  ASSUME NEW x \in FileSystems, NEW y \in FileSystems, NEW o \in Offsets, x[o] # NoFS, y[o] # NoFS,
         \A p \in Offsets \ {o} : x[p] = y[p], \A m \in Names : x[o][m] = y[o][m]
  PROVE  x = y
<1>1. x[o] \in FileSystem /\ y[o] \in FileSystem
  BY DEF FileSystems
<1>2. x[o] = y[o]
  BY <1>1 DEF FileSystem
<1> QED BY <1>2 DEF FileSystems

\* Replacing the data of a file.
WithFileData(st, o, n, data) == [st EXCEPT ![o][n].data = data]
LEMMA PutData ==
  ASSUME NEW st \in FileSystems, NEW o \in Offsets, st[o] # NoFS, NEW n \in Names,
         st[o][n] \in FileEntry, NEW data \in Seq(Data)
  PROVE  /\ WithFileData(st, o, n, data) = With(st, o, n, File(data, st[o][n].ro))
         /\ File(data, st[o][n].ro) \in FileEntry /\ File(data, st[o][n].ro) \in Entry
         /\ File(data, st[o][n].ro).data = data /\ IsFile(File(data, st[o][n].ro))
<1> DEFINE e == File(data, st[o][n].ro)
<1>1. [st[o][n] EXCEPT !.data = data] = e
  BY DEF FileEntry, File
<1>2. [st EXCEPT ![o][n].data = data] = [st EXCEPT ![o][n] = [st[o][n] EXCEPT !.data = data]]
  OBVIOUS
<1>3. [st EXCEPT ![o][n].data = data] = With(st, o, n, e)
  BY <1>1, <1>2 DEF With
<1>4. st[o][n].ro \in BOOLEAN
  BY Entries
<1>5. e \in FileEntry /\ e \in Entry /\ IsFile(e) /\ e.data = data
  BY <1>4, Entries
<1> QED BY <1>3, <1>5 DEF WithFileData

----------------------------------------------------------------------------
(* What the functions of fatfs.c leave behind                              *)

\* A result: the store it leaves behind differs from fs at most in entry n of
\* the file system at o.
KeepsOthers(st, o, n) ==
  /\ st \in FileSystems
  /\ \A p \in Offsets \ {o} : st[p] = fs[p]
  /\ fs[o] = NoFS => st = fs
  /\ fs[o] # NoFS => st[o] # NoFS /\ \A m \in Names \ {n} : st[o][m] = fs[o][m]
OnlyEntry(r, o, n) == r.ok \in BOOLEAN /\ KeepsOthers(r.fs, o, n)

LEMMA PutResult ==
  ASSUME fs \in FileSystems, NEW o \in Offsets, NEW n \in Names, NEW e \in Entry, NEW ok \in BOOLEAN,
         fs[o] # NoFS
  PROVE  OnlyEntry(Result(ok, Put(o, n, e)), o, n)
<1> DEFINE q == Put(o, n, e)
           r == Result(ok, q)
<1>0. q = With(fs, o, n, e)
  BY DEF Put, With
<1> HIDE DEF q
<1>1. /\ \A p \in Offsets \ {o} : q[p] = fs[p]
      /\ \A m \in Names \ {n} : q[o][m] = fs[o][m]
      /\ q \in FileSystems /\ q[o] # NoFS
  BY <1>0, PutFields
<1>2. r.fs = q /\ r.ok = ok
  BY DEF Result
<1> HIDE DEF r
<1> QED BY <1>1, <1>2 DEF OnlyEntry, KeepsOthers, r, q

LEMMA SameResult ==
  ASSUME fs \in FileSystems, NEW o \in Offsets, NEW n, NEW ok \in BOOLEAN
  PROVE  OnlyEntry(Result(ok, fs), o, n)
<1> DEFINE r == Result(ok, fs)
<1>1. r.fs = fs /\ r.ok = ok
  BY DEF Result
<1> HIDE DEF r
<1> QED BY <1>1 DEF OnlyEntry, KeepsOthers, r

LEMMA MkdirResult ==
  ASSUME fs \in FileSystems, NEW o \in Offsets, NEW n \in Names
  PROVE  OnlyEntry(fatfs_mkdir(o, n), o, n)
<1> DEFINE ok == fs[o] # NoFS /\ (fs[o][n] = Dir \/ (fs[o][n] = None /\ Room(fs[o]) > 0))
<1>1. fatfs_mkdir(o, n) = Result(ok, IF ok THEN Put(o, n, Dir) ELSE fs) /\ ok \in BOOLEAN
  BY DEF fatfs_mkdir
<1>2. ok => fs[o] # NoFS
  OBVIOUS
<1> HIDE DEF ok
<1> QED BY <1>1, <1>2, PutResult, SameResult, Entries

LEMMA TouchResult ==
  ASSUME fs \in FileSystems, NEW o \in Offsets, NEW n \in Names
  PROVE  OnlyEntry(fatfs_touch(o, n), o, n)
<1> DEFINE ok == fs[o] # NoFS /\ MayCreate(fs[o], n)
           new == ok /\ fs[o][n] = None
<1>1. fatfs_touch(o, n) = Result(ok, IF new THEN Put(o, n, File(<<>>, FALSE)) ELSE fs) /\ ok \in BOOLEAN
  BY DEF fatfs_touch
<1>2. (new => fs[o] # NoFS) /\ File(<<>>, FALSE) \in Entry
  BY EmptyFile
<1> HIDE DEF ok, new
<1> QED BY <1>1, <1>2, PutResult, SameResult

LEMMA RmResult ==
  ASSUME fs \in FileSystems, NEW o \in Offsets, NEW n \in Names, NEW must \in BOOLEAN
  PROVE  OnlyEntry(fatfs_rm(o, n, must), o, n)
<1> DEFINE gone == fs[o] # NoFS /\ MayUnlink(fs[o], n)
           ok == gone \/ (fs[o] # NoFS /\ fs[o][n] = None /\ ~must)
<1>1. fatfs_rm(o, n, must) = Result(ok, IF gone THEN Put(o, n, None) ELSE fs) /\ ok \in BOOLEAN
  BY DEF fatfs_rm
<1>2. gone => fs[o] # NoFS
  OBVIOUS
<1> HIDE DEF ok, gone
<1> QED BY <1>1, <1>2, PutResult, SameResult, Entries

\* fatfs_attrib keeps the data of a file.
LEMMA AttribResult ==
  ASSUME fs \in FileSystems, NEW o \in Offsets, NEW n \in Names, NEW ro \in BOOLEAN
  PROVE  LET r == fatfs_attrib(o, n, ro)
         IN  /\ OnlyEntry(r, o, n)
             /\ fs[o] # NoFS /\ IsFile(fs[o][n]) =>
                  r.fs[o][n] = File(fs[o][n].data, ro) /\ r.fs = Put(o, n, File(fs[o][n].data, ro))
             /\ ~(fs[o] # NoFS /\ IsFile(fs[o][n])) => r.fs = fs
             /\ r.ok = (fs[o] # NoFS /\ fs[o][n] # None)
<1> DEFINE ok == fs[o] # NoFS /\ fs[o][n] # None
           r == fatfs_attrib(o, n, ro)
<1>1. r = Result(ok, IF ok /\ IsFile(fs[o][n]) THEN Put(o, n, File(fs[o][n].data, ro)) ELSE fs)
      /\ ok \in BOOLEAN
  BY DEF fatfs_attrib
<1>2. r.ok = ok /\ r.fs = IF ok /\ IsFile(fs[o][n]) THEN Put(o, n, File(fs[o][n].data, ro)) ELSE fs
  BY <1>1 DEF Result
<1>3. CASE fs[o] # NoFS /\ IsFile(fs[o][n])
  <2>1. fs[o][n] \in FileEntry /\ fs[o][n] # None
    BY <1>3, Entries DEF FileSystems, FileSystem, IsFile
  <2>2. File(fs[o][n].data, ro) \in Entry
    BY <2>1, Entries
  <2>3. OnlyEntry(r, o, n)
    BY <1>1, <1>3, <2>1, <2>2, PutResult
  <2>4. r.fs = Put(o, n, File(fs[o][n].data, ro))
    BY <1>2, <1>3, <2>1
  <2>5. r.fs = With(fs, o, n, File(fs[o][n].data, ro))
    BY <2>4 DEF Put, With
  <2>6. r.fs[o][n] = File(fs[o][n].data, ro)
    BY <1>3, <2>5, PutFields
  <2> QED BY <1>2, <1>3, <2>3, <2>4, <2>6
<1>4. CASE ~(fs[o] # NoFS /\ IsFile(fs[o][n]))
  <2>1. r = Result(ok, fs) /\ r.fs = fs
    BY <1>1, <1>2, <1>4
  <2> QED BY <1>1, <1>2, <1>4, <2>1, SameResult
<1> QED BY <1>3, <1>4

\* fatfs_mv changes the two entries, or the new one if it fails.
LEMMA MvResult ==
  ASSUME fs \in FileSystems, NEW o \in Offsets, NEW a \in Names, NEW b \in Names, NEW force \in BOOLEAN
  PROVE  LET r == fatfs_mv(o, a, b, force)
         IN  /\ r.fs \in FileSystems /\ r.ok \in BOOLEAN
             /\ ~r.ok => OnlyEntry(r, o, b)
             /\ r.ok => /\ fs[o] # NoFS /\ fs[o][a] # None
                        /\ r.fs = [fs EXCEPT ![o][a] = None, ![o][b] = fs[o][a]]
<1> DEFINE removed == fs[o] # NoFS /\ force /\ MayUnlink(fs[o], b)
           cleared == IF removed THEN Put(o, b, None) ELSE fs
           ok == /\ fs[o] # NoFS
                 /\ force => (removed \/ fs[o][b] = None)
                 /\ cleared[o][a] # None /\ (cleared[o][b] = None \/ a = b)
           moved == [cleared EXCEPT ![o][a] = None, ![o][b] = cleared[o][a]]
           r == fatfs_mv(o, a, b, force)
<1>1. r = Result(ok, IF ok THEN moved ELSE cleared) /\ ok \in BOOLEAN
  BY DEF fatfs_mv
<1>2. r.ok = ok /\ r.fs = IF ok THEN moved ELSE cleared
  BY <1>1 DEF Result
<1>3. OnlyEntry(Result(FALSE, cleared), o, b)
  <2>1. CASE removed
    BY <2>1, PutResult, Entries
  <2>2. CASE ~removed
    BY <2>2, SameResult
  <2> QED BY <2>1, <2>2
<1>4. cleared \in FileSystems
  BY <1>3 DEF OnlyEntry, KeepsOthers, Result
<1>5. CASE ok
  <2>1. fs[o] # NoFS /\ cleared[o][a] # None
    BY <1>5
  <2>2. /\ cleared[o] # NoFS /\ cleared[o][a] = fs[o][a]
        /\ \A p \in Offsets \ {o} : cleared[p] = fs[p]
        /\ \A m \in Names \ {b} : cleared[o][m] = fs[o][m]
    <3>1. CASE removed
      <4>0. cleared = With(fs, o, b, None) /\ None \in Entry
        BY <3>1, Entries DEF Put, With
      <4> HIDE DEF cleared
      <4>1. /\ cleared[o][b] = None /\ \A m \in Names \ {b} : cleared[o][m] = fs[o][m]
            /\ cleared[o] # NoFS /\ \A p \in Offsets \ {o} : cleared[p] = fs[p]
        BY <2>1, <4>0, PutFields
      <4> QED BY <2>1, <4>1
    <3>2. CASE ~removed
      BY <2>1, <3>2
    <3> QED BY <3>1, <3>2
  <2> HIDE DEF ok
  <2> DEFINE e == fs[o][a]
             mid == With(cleared, o, a, None)
             mid2 == With(fs, o, a, None)
             want == With(mid2, o, b, e)
  <2>3. e \in Entry /\ None \in Entry
    BY <2>1, Entries DEF FileSystems, FileSystem
  <2>4. /\ moved = With(mid, o, b, e)
        /\ want = [fs EXCEPT ![o][a] = None, ![o][b] = fs[o][a]]
    BY <2>2 DEF With
  <2> HIDE DEF moved, cleared, e
  <2>5. /\ mid \in FileSystems /\ mid[o] # NoFS /\ mid[o][a] = None
        /\ \A p \in Offsets \ {o} : mid[p] = cleared[p]
        /\ \A m \in Names \ {a} : mid[o][m] = cleared[o][m]
    BY <1>4, <2>2, <2>3, PutFields
  <2>6. /\ mid2 \in FileSystems /\ mid2[o] # NoFS /\ mid2[o][a] = None
        /\ \A p \in Offsets \ {o} : mid2[p] = fs[p]
        /\ \A m \in Names \ {a} : mid2[o][m] = fs[o][m]
    BY <2>1, <2>3, PutFields
  <2> HIDE DEF mid, mid2
  <2>61. /\ moved \in FileSystems /\ moved[o] # NoFS /\ moved[o][b] = e
         /\ \A p \in Offsets \ {o} : moved[p] = mid[p]
         /\ \A m \in Names \ {b} : moved[o][m] = mid[o][m]
    BY <2>3, <2>4, <2>5, PutFields
  <2>62. /\ want \in FileSystems /\ want[o] # NoFS /\ want[o][b] = e
         /\ \A p \in Offsets \ {o} : want[p] = mid2[p]
         /\ \A m \in Names \ {b} : want[o][m] = mid2[o][m]
    BY <2>3, <2>6, PutFields
  <2> HIDE DEF want
  <2>63. \A p \in Offsets \ {o} : moved[p] = want[p]
    BY <2>2, <2>5, <2>6, <2>61, <2>62
  <2>64. \A m \in Names : moved[o][m] = want[o][m]
    BY <2>2, <2>5, <2>6, <2>61, <2>62
  <2>65. moved = want
    BY <2>61, <2>62, <2>63, <2>64, SameStore
  <2>7. moved = [fs EXCEPT ![o][a] = None, ![o][b] = fs[o][a]]
    BY <2>4, <2>65
  <2>8. r.ok = TRUE /\ r.fs = moved
    BY <1>1, <1>2, <1>5
  <2> QED BY <2>1, <2>2, <2>61, <2>7, <2>8
<1>6. CASE ~ok
  <2>1. r = Result(FALSE, cleared)
    BY <1>1, <1>6
  <2> QED BY <1>2, <1>3, <1>4, <1>6, <2>1
<1> QED BY <1>5, <1>6

\* fatfs_cp changes the entry it copies to.
LEMMA CpResult ==
  ASSUME fs \in FileSystems, NEW q \in Offsets, NEW a \in Names, NEW o \in Offsets, NEW b \in Names,
         NEW r \in fatfs_cp(q, a, o, b)
  PROVE  /\ OnlyEntry(r, o, b)
         /\ r.ok => /\ fs[q] # NoFS /\ fs[o] # NoFS /\ IsFile(fs[q][a])
                    /\ r.fs = Put(o, b, File(fs[q][a].data, FALSE))
<1> DEFINE opened == fs[q] # NoFS /\ MayRead(fs[q], a) /\ fs[o] # NoFS /\ MayCreate(fs[o], b)
           data == fs[q][a].data
           room == Room(Put(o, b, None)[o])
           fits == Len(data) <= room
           copied == Result(fits, Put(o, b, File(IF fits THEN data ELSE SubSeq(data, 1, room), FALSE)))
           emptied == Result(FALSE, Put(o, b, File(<<>>, FALSE)))
<1>1. fatfs_cp(q, a, o, b) = IF ~opened THEN {Result(FALSE, fs)}
                             ELSE IF q = o /\ a = b /\ data # <<>> THEN {copied, emptied}
                             ELSE {copied}
  BY DEF fatfs_cp
<1>2. CASE ~opened
  <2>1. r = Result(FALSE, fs)
    BY <1>1, <1>2
  <2>2. r.ok = FALSE
    BY <2>1 DEF Result
  <2> QED BY <2>1, <2>2, SameResult
<1>3. CASE opened
  <2>1. fs[q] # NoFS /\ fs[o] # NoFS /\ IsFile(fs[q][a])
    BY <1>3 DEF MayRead
  <2>2. fs[q][a] \in FileEntry
    BY <2>1, Entries DEF FileSystems, FileSystem
  <2>3. data \in Seq(Data) /\ room \in Nat /\ fits \in BOOLEAN
    BY <2>2, Entries, RoomNat
  <2> DEFINE part == IF fits THEN data ELSE SubSeq(data, 1, room)
  <2>4. part \in Seq(Data)
    <3>1. CASE fits
      BY <2>3, <3>1
    <3>2. CASE ~fits
      <4> HIDE DEF data, room
      <4>1. Len(data) \in Nat /\ room < Len(data)
        BY <2>3, <3>2, LenProperties
      <4>2. SubSeq(data, 1, room) \in Seq(Data)
        BY <2>3, <4>1, SubSeqProperties
      <4> QED BY <3>2, <4>2
    <3> QED BY <3>1, <3>2
  <2>5. File(part, FALSE) \in Entry /\ File(<<>>, FALSE) \in Entry
    BY <2>4, Entries, EmptyFile
  <2>6. r = copied \/ r = emptied
    BY <1>1, <1>3
  <2> HIDE DEF opened
  <2>7. CASE r = copied
    <3>1. OnlyEntry(copied, o, b)
      BY <2>1, <2>3, <2>5, PutResult
    <3>2. r.ok = fits /\ r.fs = Put(o, b, File(part, FALSE))
      BY <2>7 DEF Result
    <3> QED BY <2>1, <2>7, <3>1, <3>2
  <2>8. CASE r = emptied
    <3>1. OnlyEntry(emptied, o, b)
      BY <2>1, <2>5, PutResult
    <3>2. r.ok = FALSE
      BY <2>8 DEF Result
    <3> QED BY <2>8, <3>1, <3>2
  <2> QED BY <2>6, <2>7, <2>8
<1> QED BY <1>2, <1>3

\* fatfs_mkfs changes one file system.
LEMMA MkfsResult ==
  ASSUME fs \in FileSystems, NEW o \in Offsets, NEW r \in fatfs_mkfs(o)
  PROVE  /\ r.fs \in FileSystems /\ r.ok \in BOOLEAN
         /\ \A p \in Offsets \ {o} : r.fs[p] = fs[p]
         /\ r.ok => r.fs = [fs EXCEPT ![o] = [n \in Names |-> None]]
         /\ ~r.ok => r.fs \in {fs, [fs EXCEPT ![o] = NoFS]}
<1> DEFINE empty == [n \in Names |-> None]
<1>1. PICK e \in {empty, fs[o], NoFS}, ok \in BOOLEAN :
        /\ r = Result(ok, [fs EXCEPT ![o] = e])
        /\ IF ok THEN e = empty ELSE e \in {fs[o], NoFS}
  BY DEF fatfs_mkfs
<1>2. r.fs = [fs EXCEPT ![o] = e] /\ r.ok = ok
  BY <1>1 DEF Result
<1>3. empty \in FileSystem
  BY Entries DEF FileSystem
<1> HIDE DEF empty
<1>4. e \in {NoFS} \cup FileSystem
  BY <1>3 DEF FileSystems
<1>5. r.fs \in FileSystems /\ \A p \in Offsets \ {o} : r.fs[p] = fs[p]
  BY <1>2, <1>4 DEF FileSystems
<1>6. [fs EXCEPT ![o] = fs[o]] = fs
  BY DEF FileSystems
<1> QED BY <1>1, <1>2, <1>5, <1>6 DEF empty

----------------------------------------------------------------------------
(* The invariant holds in every reachable state                            *)

LEMMA UsesOne ==
  ASSUME FatTypes, NEW o \in Offsets, NEW fm \in BOOLEAN, Uses({o}, fm)
  PROVE  /\ used' \in [seen : SUBSET Offsets, formatted : BOOLEAN] /\ IsFiniteSet(used'.seen)
         /\ used'.seen = used.seen \cup {o} /\ used'.formatted = (used.formatted \/ fm)
<1>1. used.seen \in SUBSET Offsets /\ used.formatted \in BOOLEAN /\ IsFiniteSet(used.seen)
  BY DEF FatTypes
<1>2. used' = [seen |-> used.seen \cup {o}, formatted |-> used.formatted \/ fm]
  BY DEF Uses
<1>3. used'.seen = used.seen \cup {o} /\ used'.formatted = (used.formatted \/ fm)
  BY <1>2
<1>4. IsFiniteSet(used.seen \cup {o})
  BY <1>1, MoreSeen
<1>5. used' \in [seen : SUBSET Offsets, formatted : BOOLEAN]
  BY <1>1, <1>2
<1> QED BY <1>3, <1>4, <1>5

\* A function that returns leaves the invariant behind when it leaves a good session.
LEMMA ReturnInv ==
  ASSUME FInv, NEW f, NEW s, NEW r, Return(f, s, r), r.fs \in FileSystems, r.ok \in BOOLEAN,
         used' \in [seen : SUBSET Offsets, formatted : BOOLEAN], IsFiniteSet(used'.seen),
         used.seen \subseteq used'.seen, Good(s, r.fs, used'.seen, used'.formatted)
  PROVE  FInv'
<1>1. ses' = s /\ fs' = r.fs /\ failed' = ~r.ok /\ calls' = calls + 1 /\ job' = job
  BY DEF Return
<1>2. FatTypes'
  BY <1>1 DEF FInv, FatTypes
<1>3. JobSeen'
  BY <1>1 DEF FInv, JobSeen
<1>4. Good(ses, fs, used.seen, used.formatted)'
  BY <1>1
<1> QED BY <1>2, <1>3, <1>4 DEF FInv

\* The functions that close the open file first.
LEMMA ClosingInv ==
  ASSUME FInv, NEW f, NEW o \in Offsets, NEW r, Return(f, CloseAndMount(ses, o), r),
         r.fs \in FileSystems, r.ok \in BOOLEAN, Uses({o}, FALSE)
  PROVE  FInv'
<1>1. /\ used' \in [seen : SUBSET Offsets, formatted : BOOLEAN] /\ IsFiniteSet(used'.seen)
      /\ used'.seen = used.seen \cup {o} /\ used'.formatted = (used.formatted \/ FALSE)
  BY UsesOne DEF FInv
<1>2. used.seen \in SUBSET Offsets /\ used.formatted \in BOOLEAN /\ IsFiniteSet(used.seen)
  BY DEF FInv, FatTypes
<1>3. used'.formatted = used.formatted
  BY <1>1, <1>2
<1>4. Good(ses, fs, used.seen, used.formatted)
  BY DEF FInv
<1>5. Good(CloseAndMount(ses, o), r.fs, used.seen \cup {o}, used.formatted)
  BY <1>2, <1>4, CloseAndMountGood
<1>6. Good(CloseAndMount(ses, o), r.fs, used'.seen, used'.formatted)
  BY <1>1, <1>3, <1>5
<1> QED BY <1>1, <1>6, ReturnInv

\* The functions that keep it, for a result r that leaves it alone.
LEMMA MountingGood ==
  ASSUME FInv, NEW o \in Offsets, NEW fm \in BOOLEAN, Uses({o}, fm)
  PROVE  /\ Good(maybe_mount(ses, o), fs, used'.seen, used.formatted)
         /\ Mounted(maybe_mount(ses, o), o)
         /\ used' \in [seen : SUBSET Offsets, formatted : BOOLEAN] /\ IsFiniteSet(used'.seen)
         /\ used'.seen = used.seen \cup {o} /\ used'.formatted = (used.formatted \/ fm)
<1>1. /\ used' \in [seen : SUBSET Offsets, formatted : BOOLEAN] /\ IsFiniteSet(used'.seen)
      /\ used'.seen = used.seen \cup {o} /\ used'.formatted = (used.formatted \/ fm)
  BY UsesOne DEF FInv
<1>2. used.seen \in SUBSET Offsets /\ used.formatted \in BOOLEAN /\ IsFiniteSet(used.seen)
  BY DEF FInv, FatTypes
<1>3. Good(ses, fs, used.seen, used.formatted)
  BY DEF FInv
<1>4. Good(maybe_mount(ses, o), fs, used.seen \cup {o}, used.formatted) /\ Mounted(maybe_mount(ses, o), o)
  BY <1>2, <1>3, MountGood
<1> QED BY <1>1, <1>4

LEMMA MkfsInv ==
  ASSUME FInv, NEW o \in Offsets, fat_mkfs(o)
  PROVE  FInv'
<1> DEFINE m == maybe_mount(ses, o)
           k == SlotOf(m, o)
           s == [m EXCEPT !.fil = Invalidate(@, k)]
<1>1. Uses({o}, TRUE)
  BY DEF fat_mkfs
<1>2. PICK r \in fatfs_mkfs(o) : Return(<<"mkfs", o>>, s, r)
  BY DEF fat_mkfs
<1>3. /\ Good(m, fs, used'.seen, used.formatted) /\ Mounted(m, o)
      /\ used' \in [seen : SUBSET Offsets, formatted : BOOLEAN] /\ IsFiniteSet(used'.seen)
      /\ used'.seen = used.seen \cup {o} /\ used'.formatted
  BY <1>1, MountingGood
<1>4. /\ r.fs \in FileSystems /\ r.ok \in BOOLEAN
      /\ \A p \in Offsets \ {o} : r.fs[p] = fs[p]
  BY <1>2, MkfsResult DEF FInv, FatTypes
<1>5. /\ m \in Session /\ OnceMounted(m) /\ MountsSeen(m, used'.seen) /\ FileKnown(m)
      /\ FileLives(m, fs, used'.seen, used.formatted)
  BY <1>3 DEF Good
<1>6. k \in Slots /\ m.mounted[k] = o
  BY <1>3, <1>5, SlotOfMounted
<1> HIDE DEF m, k
<1>7. m.fil \in OpenFile
  BY <1>5 DEF Session
<1>8. /\ Invalidate(m.fil, k) \in OpenFile
      /\ Invalidate(m.fil, k).slot = m.fil.slot /\ Invalidate(m.fil, k).at = m.fil.at
      /\ Invalidate(m.fil, k).name = m.fil.name /\ Invalidate(m.fil, k).pos = m.fil.pos
      /\ Invalidate(m.fil, k).valid = (m.fil.valid /\ m.fil.slot # k)
      /\ ~m.fil.valid => Invalidate(m.fil, k) = m.fil
  BY <1>7 DEF Invalidate, OpenFile
<1>9. /\ s.mounted = m.mounted /\ s.cur = m.cur /\ s.next = m.next /\ s.fil = Invalidate(m.fil, k)
      /\ s = [mounted |-> s.mounted, next |-> s.next, cur |-> s.cur, fil |-> s.fil]
  BY <1>5 DEF Session
<1> HIDE DEF s
<1>10. s \in Session
  BY <1>5, <1>8, <1>9 DEF Session
<1>11. OnceMounted(s) /\ MountsSeen(s, used'.seen)
  BY <1>5, <1>9 DEF OnceMounted, MountsSeen
<1>12. FileKnown(s)
  <2>1. m.cur = None => s.fil = m.fil
    BY <1>5, <1>8, <1>9 DEF FileKnown, NoFile
  <2> QED BY <1>5, <1>8, <1>9, <2>1 DEF FileKnown
<1>13. FileLives(s, r.fs, used'.seen, used'.formatted)
  <2> SUFFICES ASSUME s.cur # None, s.fil.valid PROVE Accepted(s, r.fs)
    BY <1>3 DEF FileLives
  <2>1. m.cur # None /\ m.fil.valid /\ m.fil.slot # k /\ m.fil.slot \in Slots
    BY <1>7, <1>8, <1>9 DEF OpenFile
  <2>2. Accepted(m, fs) /\ m.fil.at \in Offsets
    BY <1>5, <2>1 DEF FileLives, FileKnown
  <2>3. m.fil.at # o
    BY <1>5, <1>6, <2>1, <2>2, FatAssumption DEF Accepted, OnceMounted
  <2>4. r.fs[m.fil.at] = fs[m.fil.at]
    BY <1>4, <2>2, <2>3
  <2> QED BY <1>8, <1>9, <2>2, <2>4 DEF Accepted
<1>14. Good(s, r.fs, used'.seen, used'.formatted)
  BY <1>10, <1>11, <1>12, <1>13 DEF Good
<1> QED BY <1>2, <1>3, <1>4, <1>14, ReturnInv

LEMMA AttribInv ==
  ASSUME FInv, NEW o \in Offsets, NEW n \in Names, NEW ro \in BOOLEAN, fat_attrib(o, n, ro)
  PROVE  FInv'
<1> DEFINE m == maybe_mount(ses, o)
           r0 == fatfs_attrib(o, n, ro)
           r == [r0 EXCEPT !.ok = TRUE]
<1>1. Uses({o}, FALSE) /\ Return(<<"attrib", o, n, ro>>, m, r)
  BY DEF fat_attrib
<1>2. /\ Good(m, fs, used'.seen, used.formatted)
      /\ used' \in [seen : SUBSET Offsets, formatted : BOOLEAN] /\ IsFiniteSet(used'.seen)
      /\ used'.seen = used.seen \cup {o} /\ used'.formatted = (used.formatted \/ FALSE)
  BY <1>1, MountingGood
<1>3. used'.formatted = used.formatted
  BY <1>2 DEF FInv, FatTypes
<1>4. fs \in FileSystems
  BY DEF FInv, FatTypes
<1>5. /\ OnlyEntry(r0, o, n)
      /\ fs[o] # NoFS /\ IsFile(fs[o][n]) => r0.fs[o][n] = File(fs[o][n].data, ro)
      /\ ~(fs[o] # NoFS /\ IsFile(fs[o][n])) => r0.fs = fs
  BY <1>4, AttribResult
<1>6. r.fs = r0.fs /\ r.ok = TRUE
  BY DEF fatfs_attrib, Result
<1> HIDE DEF m, r0, r
<1>7. r.fs \in FileSystems /\ r.ok \in BOOLEAN
  BY <1>5, <1>6 DEF OnlyEntry, KeepsOthers
<1>8. Accepted(m, fs) /\ m.fil.at \in Offsets /\ m.fil.name \in Names => Accepted(m, r.fs)
  <2> SUFFICES ASSUME Accepted(m, fs), m.fil.at \in Offsets, m.fil.name \in Names PROVE Accepted(m, r.fs)
    OBVIOUS
  <2>1. CASE m.fil.at # o
    <3>1. r.fs[m.fil.at] = fs[m.fil.at]
      BY <1>5, <1>6, <2>1 DEF OnlyEntry, KeepsOthers
    <3> QED BY <3>1 DEF Accepted
  <2>2. CASE m.fil.at = o /\ m.fil.name # n
    <3>1. fs[o] # NoFS /\ r.fs[o] # NoFS /\ r.fs[o][m.fil.name] = fs[o][m.fil.name]
      BY <1>5, <1>6, <2>2 DEF OnlyEntry, KeepsOthers, Accepted
    <3> QED BY <2>2, <3>1 DEF Accepted
  <2>3. CASE m.fil.at = o /\ m.fil.name = n
    <3>1. fs[o] # NoFS /\ IsFile(fs[o][n])
      BY <2>3 DEF Accepted
    <3>2. fs[o][n] \in FileEntry
      BY <1>4, <3>1, Entries DEF FileSystems, FileSystem
    <3>3. r.fs[o] # NoFS /\ r.fs[o][n] = File(fs[o][n].data, ro)
      BY <1>5, <1>6, <3>1 DEF OnlyEntry, KeepsOthers
    <3>4. IsFile(r.fs[o][n]) /\ r.fs[o][n].data = fs[o][n].data
      BY <3>2, <3>3, Entries
    <3> QED BY <2>3, <3>3, <3>4 DEF Accepted
  <2> QED BY <2>1, <2>2, <2>3
<1>9. Good(m, r.fs, used'.seen, used.formatted)
  <2>1. m \in Session /\ FileKnown(m) /\ FileLives(m, fs, used'.seen, used.formatted)
    BY <1>2 DEF Good
  <2>2. m.cur # None => m.fil.at \in Offsets /\ m.fil.name \in Names
    BY <2>1 DEF FileKnown, Session
  <2>3. FileLives(m, r.fs, used'.seen, used.formatted)
    BY <1>8, <2>1, <2>2 DEF FileLives
  <2> QED BY <1>2, <2>3 DEF Good
<1>10. Good(m, r.fs, used'.seen, used'.formatted)
  BY <1>3, <1>9
<1> QED BY <1>1, <1>2, <1>7, <1>10, ReturnInv

\* The two mounts of fatfs_cp; q is the file system it reads.
LEMMA CpMounts ==
  ASSUME FInv, NEW p \in Offsets, NEW o \in Offsets, NEW st, NEW s1, NEW s2, NEW q,
         s1 = CloseAndMount(ses, p), s2 = maybe_mount(s1, o), q = s2.mounted[SlotOf(s1, p)]
  PROVE  /\ Good(s2, st, used.seen \cup {o, p}, used.formatted)
         /\ IsFiniteSet(used.seen \cup {o, p}) /\ q \in {o, p}
<1>1. used.seen \in SUBSET Offsets /\ used.formatted \in BOOLEAN /\ IsFiniteSet(used.seen)
  BY DEF FInv, FatTypes
<1>2. Good(ses, fs, used.seen, used.formatted)
  BY DEF FInv
<1>3. Good(s1, st, used.seen \cup {p}, used.formatted) /\ Mounted(s1, p)
  BY <1>1, <1>2, CloseAndMountGood
<1>4. IsFiniteSet(used.seen \cup {p}) /\ used.seen \cup {p} \in SUBSET Offsets
  BY <1>1, MoreSeen
<1>5. Good(s2, st, (used.seen \cup {p}) \cup {o}, used.formatted) /\ IsFiniteSet((used.seen \cup {p}) \cup {o})
  BY <1>1, <1>3, <1>4, MountGood, MoreSeen
<1>6. (used.seen \cup {p}) \cup {o} = used.seen \cup {o, p}
  OBVIOUS
<1>7. s1 \in Session
  BY <1>3 DEF Good
<1>8. SlotOf(s1, p) \in Slots /\ s1.mounted[SlotOf(s1, p)] = p
  BY <1>3, <1>7, SlotOfMounted
<1>9. q \in {o, p}
  <2>1. CASE Mounted(s1, o)
    BY <1>8, <2>1 DEF maybe_mount
  <2>2. CASE ~Mounted(s1, o)
    <3>1. /\ s2.mounted[NextSlot(s1)] = o
          /\ \A j \in Slots \ {NextSlot(s1)} : s2.mounted[j] = s1.mounted[j]
      BY <1>7, <2>2, MountFields
    <3> QED BY <1>8, <3>1
  <2> QED BY <2>1, <2>2
<1> QED BY <1>5, <1>6, <1>9

LEMMA CpInv ==
  ASSUME FInv, NEW p \in Offsets, NEW a \in Names, NEW o \in Offsets, NEW b \in Names, fat_cp(p, a, o, b)
  PROVE  FInv'
<1> DEFINE s1 == CloseAndMount(ses, p)
           s2 == maybe_mount(s1, o)
           q == s2.mounted[SlotOf(s1, p)]
<1>1. PICK r \in fatfs_cp(q, a, o, b) : Return(<<"cp", p, a, o, b>>, s2, r)
  BY DEF fat_cp
<1>2. Uses({o, p}, FALSE)
  BY DEF fat_cp
<1>3. /\ Good(s2, r.fs, used.seen \cup {o, p}, used.formatted)
      /\ IsFiniteSet(used.seen \cup {o, p}) /\ q \in {o, p}
  BY CpMounts
<1> HIDE DEF s1, s2, q
<1>4. used.seen \in SUBSET Offsets /\ used.formatted \in BOOLEAN /\ fs \in FileSystems
  BY DEF FInv, FatTypes
<1>5. /\ used'.seen = used.seen \cup {o, p} /\ used'.formatted = used.formatted
      /\ used' \in [seen : SUBSET Offsets, formatted : BOOLEAN]
  <2>1. used' = [seen |-> used.seen \cup {o, p}, formatted |-> used.formatted \/ FALSE]
    BY <1>2 DEF Uses
  <2>2. (used.formatted \/ FALSE) = used.formatted
    BY <1>4
  <2> QED BY <1>4, <2>1, <2>2
<1>6. r.fs \in FileSystems /\ r.ok \in BOOLEAN
  BY <1>1, <1>3, <1>4, CpResult DEF OnlyEntry, KeepsOthers
<1>7. Good(s2, r.fs, used'.seen, used'.formatted) /\ IsFiniteSet(used'.seen)
  BY <1>3, <1>5
<1> QED BY <1>1, <1>5, <1>6, <1>7, ReturnInv

\* fatfs_truncate and fatfs_pwrite find their file.
LEMMA ReuseGood ==
  ASSUME NEW s, NEW st, NEW seen \in SUBSET Offsets, IsFiniteSet(seen), NEW fm \in BOOLEAN,
         Good(s, st, seen, fm), NEW o \in Offsets, NEW n \in Names
  PROVE  /\ Good(Reuse(s, o, n), st, seen \cup {o}, fm) /\ Mounted(Reuse(s, o, n), o)
         /\ Reuse(s, o, n).cur \in {None, n}
<1>1. CASE s.cur # None /\ s.cur # n
  <2>1. Good(close_open_files(s), st, seen, fm) /\ close_open_files(s).cur = None
    BY CloseGood
  <2>2. Reuse(s, o, n) = maybe_mount(close_open_files(s), o)
    BY <1>1 DEF Reuse
  <2> QED BY <2>1, <2>2, MountGood
<1>2. CASE ~(s.cur # None /\ s.cur # n)
  <2>1. Reuse(s, o, n) = maybe_mount(s, o)
    BY <1>2 DEF Reuse
  <2> QED BY <1>2, <2>1, MountGood
<1> QED BY <1>1, <1>2

\* Replacing the data of the open file, with the position inside of it.
LEMMA DataGood ==
  ASSUME NEW s, NEW st \in FileSystems, NEW seen, NEW fm, Good(s, st, seen, fm),
         s.cur # None, s.fil.valid, NEW data \in Seq(Data), NEW pos \in Nat, pos <= Len(data)
  PROVE  /\ [st EXCEPT ![s.fil.at][s.fil.name].data = data] \in FileSystems
         /\ Good([s EXCEPT !.fil.pos = pos], [st EXCEPT ![s.fil.at][s.fil.name].data = data], seen, fm)
<1> DEFINE at == s.fil.at
           n == s.fil.name
           d == WithFileData(st, at, n, data)
           t == [s EXCEPT !.fil.pos = pos]
<1>1. s \in Session /\ OnceMounted(s) /\ MountsSeen(s, seen) /\ FileKnown(s) /\ FileLives(s, st, seen, fm)
  BY DEF Good
<1>2. s.cur \in Names /\ at \in Offsets /\ n = s.cur /\ Accepted(s, st)
  BY <1>1 DEF FileKnown, FileLives, Session
<1>3. st[at] # NoFS /\ n \in Names /\ IsFile(st[at][n])
  BY <1>2 DEF Accepted
<1>4. st[at][n] \in FileEntry
  BY <1>2, <1>3, Entries DEF FileSystems, FileSystem
<1>5. /\ d = With(st, at, n, File(data, st[at][n].ro)) /\ File(data, st[at][n].ro) \in Entry
      /\ File(data, st[at][n].ro).data = data /\ IsFile(File(data, st[at][n].ro))
  BY <1>2, <1>3, <1>4, PutData
<1> HIDE DEF d
<1>6. d \in FileSystems /\ d[at] # NoFS /\ d[at][n] = File(data, st[at][n].ro)
  BY <1>2, <1>3, <1>5, PutFields
<1>7. s.fil \in OpenFile
  BY <1>1 DEF Session
<1>8. /\ t.mounted = s.mounted /\ t.next = s.next /\ t.cur = s.cur
      /\ t.fil = [s.fil EXCEPT !.pos = pos]
      /\ t = [mounted |-> t.mounted, next |-> t.next, cur |-> t.cur, fil |-> t.fil]
  BY <1>1 DEF Session
<1> HIDE DEF t
<1>9. /\ t.fil \in OpenFile /\ t.fil.slot = s.fil.slot /\ t.fil.at = at /\ t.fil.name = n
      /\ t.fil.pos = pos /\ t.fil.valid = s.fil.valid
  BY <1>7, <1>8 DEF OpenFile
<1>10. t \in Session
  BY <1>1, <1>8, <1>9 DEF Session
<1>11. OnceMounted(t) /\ MountsSeen(t, seen) /\ FileKnown(t)
  BY <1>1, <1>2, <1>8, <1>9 DEF OnceMounted, MountsSeen, FileKnown
<1>12. Accepted(t, d)
  <2>1. d[at][n].data = data /\ IsFile(d[at][n])
    BY <1>5, <1>6
  <2>2. t.mounted[t.fil.slot] = at
    BY <1>2, <1>8, <1>9 DEF Accepted
  <2> HIDE DEF at, n
  <2> QED BY <1>6, <1>9, <2>1, <2>2 DEF Accepted
<1>13. Good(t, d, seen, fm)
  BY <1>9, <1>10, <1>11, <1>12 DEF Good, FileLives
<1> QED BY <1>6, <1>13 DEF d, t, WithFileData

\* Opening a file that was just made.
LEMMA OpenedGood ==
  ASSUME NEW s, NEW st, NEW st2, NEW seen, NEW fm, Good(s, st, seen, fm), s.cur = None,
         NEW o \in Offsets, NEW n \in Names, Mounted(s, o),
         st2[o] # NoFS, IsFile(st2[o][n]), Len(st2[o][n].data) = 0
  PROVE  Good(Opened(s, o, n), st2, seen, fm)
<1> DEFINE t == Opened(s, o, n)
           f == [slot |-> SlotOf(s, o), at |-> o, name |-> n, pos |-> 0, valid |-> TRUE]
<1>1. s \in Session /\ OnceMounted(s) /\ MountsSeen(s, seen) /\ FileKnown(s)
  BY DEF Good
<1>2. SlotOf(s, o) \in Slots /\ s.mounted[SlotOf(s, o)] = o
  BY <1>1, SlotOfMounted
<1>3. f \in OpenFile
  BY <1>2 DEF OpenFile
<1>4. t = [s EXCEPT !.cur = n, !.fil = f]
  BY DEF Opened
<1> HIDE DEF t, f
<1>5. t.mounted = s.mounted /\ t.next = s.next
  BY <1>1, <1>4 DEF Session
<1>6. t.cur = n /\ t.fil = f
  BY <1>1, <1>4 DEF Session
<1>7. t = [mounted |-> t.mounted, next |-> t.next, cur |-> t.cur, fil |-> t.fil]
  BY <1>1, <1>4 DEF Session
<1>8. t \in Session
  BY <1>1, <1>3, <1>5, <1>6, <1>7 DEF Session
<1>9. f.slot = SlotOf(s, o) /\ f.at = o /\ f.name = n /\ f.pos = 0 /\ f.valid = TRUE
  BY DEF f
<1>10. OnceMounted(t) /\ MountsSeen(t, seen)
  BY <1>1, <1>5 DEF OnceMounted, MountsSeen
<1>11. FileKnown(t)
  BY <1>6, <1>9, FatAssumption DEF FileKnown
<1>12. FileLives(t, st2, seen, fm)
  BY <1>2, <1>5, <1>6, <1>9 DEF FileLives, Accepted
<1> QED BY <1>8, <1>10, <1>11, <1>12 DEF Good, t

LEMMA WriteRunInv ==
  ASSUME FInv, NEW o \in Offsets, NEW n \in Names, NEW c \in Contents, fat_write_run(o, n, c)
  PROVE  FInv'
<1> DEFINE s == Reuse(ses, o, n)
           create == s.cur = None
           ok == IF create THEN fs[o] # NoFS /\ MayCreate(fs[o], n) ELSE s.fil.valid
<1>1. /\ ses' = IF ~ok THEN s ELSE IF create THEN Opened(s, o, n) ELSE [s EXCEPT !.fil.pos = 0]
      /\ fs' = IF ~ok THEN fs
               ELSE IF create THEN Put(o, n, File(<<>>, FALSE))
               ELSE [fs EXCEPT ![s.fil.at][s.fil.name].data = <<>>]
      /\ failed' = ~ok
      /\ calls' = IF ok THEN calls ELSE calls + 1
      /\ job' = IF ok THEN [at |-> o, name |-> n, content |-> c, ix |-> 0] ELSE None
      /\ Uses({o}, FALSE)
  BY DEF fat_write_run
<1>2. /\ used' \in [seen : SUBSET Offsets, formatted : BOOLEAN] /\ IsFiniteSet(used'.seen)
      /\ used'.seen = used.seen \cup {o} /\ used'.formatted = (used.formatted \/ FALSE)
  BY <1>1, UsesOne DEF FInv
<1>3. /\ used.seen \in SUBSET Offsets /\ used.formatted \in BOOLEAN /\ IsFiniteSet(used.seen)
      /\ fs \in FileSystems /\ calls \in Nat
  BY DEF FInv, FatTypes
<1>4. used'.formatted = used.formatted
  BY <1>2, <1>3
<1>50. Good(ses, fs, used.seen, used.formatted)
  BY DEF FInv
<1>5. /\ Good(s, fs, used.seen \cup {o}, used.formatted) /\ Mounted(s, o) /\ s.cur \in {None, n}
  BY <1>3, <1>50, ReuseGood
<1>6. Good(s, fs, used'.seen, used'.formatted)
  BY <1>2, <1>4, <1>5
<1>7. ok \in BOOLEAN
  <2>1. s.fil.valid \in BOOLEAN
    BY <1>5 DEF Good, Session, OpenFile
  <2> QED BY <2>1
<1>8. fs' \in FileSystems /\ Good(ses', fs', used'.seen, used'.formatted)
  <2> HIDE DEF s
  <2>1. CASE ~ok
    BY <1>1, <1>3, <1>6, <2>1
  <2>2. CASE ok /\ create
    <3>1. ses' = Opened(s, o, n) /\ fs' = Put(o, n, File(<<>>, FALSE)) /\ fs[o] # NoFS
      BY <1>1, <2>2
    <3> DEFINE e == File(<<>>, FALSE)
    <3>2. fs' = With(fs, o, n, e)
      BY <3>1 DEF Put, With
    <3>20. e \in Entry /\ IsFile(e) /\ Len(e.data) = 0
      BY EmptyFile, Entries
    <3> HIDE DEF e
    <3>21. fs[o] # NoFS /\ fs \in FileSystems
      BY <1>3, <3>1
    <3>22. /\ With(fs, o, n, e) \in FileSystems /\ With(fs, o, n, e)[o] # NoFS
           /\ With(fs, o, n, e)[o][n] = e
      BY <3>20, <3>21, PutFields
    <3>3. fs' \in FileSystems /\ fs'[o] # NoFS /\ fs'[o][n] = e
      BY <3>2, <3>22
    <3>4. IsFile(fs'[o][n]) /\ Len(fs'[o][n].data) = 0
      BY <3>3, <3>20
    <3> QED BY <1>5, <1>6, <2>2, <3>1, <3>3, <3>4, OpenedGood
  <2>3. CASE ok /\ ~create
    <3>1. /\ ses' = [s EXCEPT !.fil.pos = 0] /\ fs' = [fs EXCEPT ![s.fil.at][s.fil.name].data = <<>>]
          /\ s.fil.valid /\ s.cur # None
      BY <1>1, <2>3
    <3>2. <<>> \in Seq(Data) /\ 0 \in Nat /\ 0 <= Len(<<>>)
      OBVIOUS
    <3> QED BY <1>3, <1>6, <3>1, <3>2, DataGood
  <2> QED BY <2>1, <2>2, <2>3
<1> HIDE DEF ok, s
<1>9. failed' \in BOOLEAN /\ calls' \in Nat
  BY <1>1, <1>3, <1>7
<1>10. job' \in {None} \cup Job /\ (job' # None => job'.at = o)
  <2>1. [at |-> o, name |-> n, content |-> c, ix |-> 0] \in Job
    BY DEF Job
  <2> QED BY <1>1, <2>1
<1>11. FatTypes' /\ JobSeen'
  BY <1>2, <1>8, <1>9, <1>10 DEF FatTypes, JobSeen
<1> QED BY <1>8, <1>11 DEF FInv

\* What a write at pos leaves: the units there, zeros behind the old end.
Overwritten(old, pos, units, new) ==
  /\ Len(new) = IF pos + Len(units) > Len(old) THEN pos + Len(units) ELSE Len(old)
  /\ \A i \in 1 .. Len(new) :
       new[i] = IF i > pos /\ i <= pos + Len(units) THEN units[i - pos]
                ELSE IF i <= Len(old) THEN old[i] ELSE Zero
LEMMA WithDataSeq ==
  ASSUME NEW old \in Seq(Data), NEW pos \in Nat, NEW units \in Seq(Data), NEW new,
         new = WithData(old, pos, units)
  PROVE  new \in Seq(Data) /\ Len(new) \in Nat /\ Overwritten(old, pos, units, new)
<1> DEFINE zeros == [i \in 1 .. pos - Len(old) |-> Zero]
           padded == IF pos > Len(old) THEN old \o zeros ELSE old
           end == pos + Len(units)
           size == IF end > Len(padded) THEN end ELSE Len(padded)
           elt(i) == IF i > pos /\ i <= end THEN units[i - pos] ELSE padded[i]
<1>1. Len(old) \in Nat /\ Len(units) \in Nat /\ end \in Nat /\ Zero \in Data
  BY LenProperties DEF Data
<1>2. /\ padded \in Seq(Data) /\ Len(padded) = IF pos > Len(old) THEN pos ELSE Len(old)
      /\ \A i \in 1 .. Len(padded) : padded[i] = IF i <= Len(old) THEN old[i] ELSE Zero
  <2>1. CASE pos > Len(old)
    <3>1. pos - Len(old) \in Nat
      BY <1>1, <2>1
    <3>2. zeros \in Seq(Data) /\ Len(zeros) = pos - Len(old)
      <4>1. zeros \in [1 .. pos - Len(old) -> Data]
        BY <1>1
      <4>2. zeros \in Seq(Data)
        BY <3>1, <4>1, SeqDef
      <4> QED BY <3>1, <4>2, LenProperties
    <3>3. padded = old \o zeros
      BY <2>1
    <3>4. \A i \in 1 .. pos - Len(old) : zeros[i] = Zero
      OBVIOUS
    <3> HIDE DEF zeros
    <3>5. /\ old \o zeros \in Seq(Data) /\ Len(old \o zeros) = Len(old) + Len(zeros)
          /\ \A i \in 1 .. Len(old) + Len(zeros) :
               (old \o zeros)[i] = IF i <= Len(old) THEN old[i] ELSE zeros[i - Len(old)]
      BY <3>2, ConcatProperties
    <3>6. Len(old) + Len(zeros) = pos
      BY <1>1, <3>2
    <3> HIDE DEF padded
    <3>7. \A i \in 1 .. pos : padded[i] = IF i <= Len(old) THEN old[i] ELSE Zero
      <4> SUFFICES ASSUME NEW i \in 1 .. pos PROVE padded[i] = IF i <= Len(old) THEN old[i] ELSE Zero
        OBVIOUS
      <4>1. padded[i] = IF i <= Len(old) THEN old[i] ELSE zeros[i - Len(old)]
        BY <3>3, <3>5, <3>6
      <4>2. ~(i <= Len(old)) => i - Len(old) \in 1 .. pos - Len(old)
        BY <1>1
      <4> QED BY <3>4, <4>1, <4>2
    <3> QED BY <2>1, <3>3, <3>5, <3>6, <3>7
  <2>2. CASE ~(pos > Len(old))
    BY <1>1, <2>2
  <2> QED BY <2>1, <2>2
<1>3. new = [i \in 1 .. size |-> elt(i)]
  BY DEF WithData
<1> HIDE DEF padded
<1>4. Len(padded) \in Nat /\ size \in Nat
  BY <1>1, <1>2
<1>5. size = IF pos + Len(units) > Len(old) THEN pos + Len(units) ELSE Len(old)
  BY <1>1, <1>2
<1>6. \A i \in 1 .. size : elt(i) \in Data
  <2> SUFFICES ASSUME NEW i \in 1 .. size PROVE elt(i) \in Data
    OBVIOUS
  <2>1. CASE i > pos /\ i <= end
    <3>1. i - pos \in 1 .. Len(units)
      BY <1>1, <1>4, <2>1
    <3>2. units[i - pos] \in Data
      BY <3>1, ElementOfSeq
    <3> QED BY <2>1, <3>2
  <2>2. CASE ~(i > pos /\ i <= end)
    <3>1. i \in 1 .. Len(padded)
      BY <1>1, <1>2, <1>4, <2>2
    <3>2. padded[i] \in Data
      BY <1>2, <3>1, ElementOfSeq
    <3> QED BY <2>2, <3>2
  <2> QED BY <2>1, <2>2
<1>7. new \in [1 .. size -> Data] /\ \A i \in 1 .. size : new[i] = elt(i)
  BY <1>3, <1>6
<1> HIDE DEF elt, size
<1>8. new \in Seq(Data) /\ Len(new) = size
  <2>1. new \in Seq(Data)
    BY <1>4, <1>7, SeqDef
  <2>2. DOMAIN new = 1 .. size /\ DOMAIN new = 1 .. Len(new) /\ Len(new) \in Nat
    BY <1>7, <2>1, LenProperties
  <2> QED BY <1>4, <2>1, <2>2
<1>9. \A i \in 1 .. Len(new) :
        new[i] = IF i > pos /\ i <= pos + Len(units) THEN units[i - pos]
                 ELSE IF i <= Len(old) THEN old[i] ELSE Zero
  <2> SUFFICES ASSUME NEW i \in 1 .. size
               PROVE  new[i] = IF i > pos /\ i <= pos + Len(units) THEN units[i - pos]
                               ELSE IF i <= Len(old) THEN old[i] ELSE Zero
    BY <1>8
  <2>1. new[i] = IF i > pos /\ i <= pos + Len(units) THEN units[i - pos] ELSE padded[i]
    BY <1>7 DEF elt
  <2>2. ~(i > pos /\ i <= pos + Len(units)) => i \in 1 .. Len(padded)
    BY <1>1, <1>2, <1>4 DEF size
  <2> QED BY <1>2, <2>1, <2>2
<1> QED BY <1>4, <1>5, <1>8, <1>9 DEF Overwritten

LEMMA Prefix ==
  ASSUME NEW S, NEW s \in Seq(S), NEW k \in Nat, k <= Len(s)
  PROVE  SubSeq(s, 1, k) \in Seq(S) /\ Len(SubSeq(s, 1, k)) = k
<1>1. \A i \in 1 .. k : s[i] \in S
  BY ElementOfSeq, LenProperties
<1>2. 1 \in Int /\ k \in Int
  OBVIOUS
<1>3. SubSeq(s, 1, k) \in Seq(S) /\ Len(SubSeq(s, 1, k)) = IF 1 <= k THEN k - 1 + 1 ELSE 0
  BY <1>1, <1>2, SubSeqProperties
<1> QED BY <1>3

\* fatfs_pwrite.
LEMMA PwriteInv ==
  ASSUME FInv, job # None, NEW off \in Nat, NEW units \in Seq(Data), NEW next \in {None} \cup Job,
         next # None => next.at = job.at, Pwrite(off, units, next)
  PROVE  FInv'
<1> DEFINE s == Reuse(ses, job.at, job.name)
           f == s.fil
           old == fs[f.at][f.name].data
           new == WithData(old, off, units)
           room == Room(fs[f.at])
           fits == Len(new) - Len(old) <= room
           kept == SubSeq(new, 1, Len(old) + room)
           ok == f.valid /\ fits
<1>1. /\ ses' = [s EXCEPT !.fil.pos = IF ok THEN off + Len(units) ELSE @]
      /\ fs' = IF ~f.valid THEN fs
               ELSE [fs EXCEPT ![f.at][f.name].data = IF fits THEN new ELSE kept]
      /\ failed' = ~ok
      /\ calls' = IF ok /\ next # None THEN calls ELSE calls + 1
      /\ job' = IF ok THEN next ELSE None
      /\ used' = used
  BY DEF Pwrite
<1>2. /\ used.seen \in SUBSET Offsets /\ used.formatted \in BOOLEAN /\ IsFiniteSet(used.seen)
      /\ fs \in FileSystems /\ calls \in Nat /\ job \in Job /\ job.at \in used.seen
      /\ used \in [seen : SUBSET Offsets, formatted : BOOLEAN]
  BY DEF FInv, FatTypes, JobSeen
<1>3. Good(ses, fs, used.seen, used.formatted)
  BY DEF FInv
<1>4. job.at \in Offsets /\ job.name \in Names
  BY <1>2 DEF Job
<1>5. used.seen \cup {job.at} = used.seen
  BY <1>2
<1>6. Good(s, fs, used.seen \cup {job.at}, used.formatted)
  BY <1>2, <1>3, <1>4, ReuseGood
<1>7. Good(s, fs, used.seen, used.formatted)
  BY <1>5, <1>6
<1> HIDE DEF s
<1>8. s \in Session /\ FileKnown(s) /\ f \in OpenFile /\ FileLives(s, fs, used.seen, used.formatted)
  BY <1>7 DEF Good, Session
<1>9. room \in Nat /\ f.valid \in BOOLEAN /\ f.pos \in Nat /\ Len(units) \in Nat
  BY <1>8, RoomNat DEF OpenFile
<1>10. fs' \in FileSystems /\ Good(ses', fs', used.seen, used.formatted)
  <2>1. CASE ~f.valid
    <3>1. [s EXCEPT !.fil.pos = @] = s
      BY <1>8 DEF Session, OpenFile
    <3>2. ~ok
      BY <2>1
    <3>3. ses' = s /\ fs' = fs
      BY <1>1, <2>1, <3>1, <3>2
    <3> QED BY <1>2, <1>7, <3>3
  <2>2. CASE f.valid
    <3>1. s.cur # None
      BY <1>8, <2>2 DEF FileKnown, NoFile
    <3>2. Accepted(s, fs) /\ f.at \in Offsets /\ f.name \in Names
      BY <1>8, <2>2, <3>1 DEF FileLives, FileKnown, Session
    <3>3. fs[f.at][f.name] \in FileEntry
      BY <1>2, <3>2, Entries DEF FileSystems, FileSystem, Accepted
    <3>4. old \in Seq(Data) /\ Len(old) \in Nat /\ f.pos <= Len(old)
      BY <3>2, <3>3, Entries, LenProperties DEF Accepted
    <3> HIDE DEF old
    <3>5. /\ new \in Seq(Data) /\ Len(new) \in Nat
          /\ Len(new) = IF off + Len(units) > Len(old) THEN off + Len(units) ELSE Len(old)
      BY <3>4, WithDataSeq DEF Overwritten
    <3> HIDE DEF new, room
    <3> DEFINE data == IF fits THEN new ELSE kept
               pos == IF ok THEN off + Len(units) ELSE f.pos
    <3>6. data \in Seq(Data) /\ pos \in Nat /\ pos <= Len(data)
      <4>1. CASE fits
        BY <1>9, <2>2, <3>4, <3>5, <4>1
      <4>2. CASE ~fits
        <5>1. Len(old) + room \in Nat /\ Len(old) + room <= Len(new) /\ ~ok
          BY <1>9, <3>4, <3>5, <4>2
        <5>3. kept \in Seq(Data) /\ Len(kept) = Len(old) + room
          BY <3>5, <5>1, Prefix
        <5> HIDE DEF kept
        <5>4. data = kept /\ pos = f.pos
          BY <4>2, <5>1
        <5> QED BY <1>9, <3>4, <5>3, <5>4
      <4> QED BY <4>1, <4>2
    <3>7. fs' = [fs EXCEPT ![f.at][f.name].data = data]
      BY <1>1, <2>2
    <3>8. ses' = [s EXCEPT !.fil.pos = pos]
      <4>1. [s EXCEPT !.fil.pos = IF ok THEN off + Len(units) ELSE @] = [s EXCEPT !.fil.pos = pos]
        BY <1>8 DEF Session, OpenFile
      <4> QED BY <1>1, <4>1
    <3> HIDE DEF data, pos
    <3> QED BY <1>2, <1>7, <2>2, <3>1, <3>6, <3>7, <3>8, DataGood
  <2> QED BY <1>9, <2>1, <2>2
<1>11. ok \in BOOLEAN
  BY <1>9
<1> HIDE DEF ok
<1>12. FatTypes'
  <2>1. failed' \in BOOLEAN /\ calls' \in Nat
    BY <1>1, <1>2, <1>11
  <2>2. job' \in {None} \cup Job
    BY <1>1
  <2> QED BY <1>1, <1>2, <1>10, <2>1, <2>2 DEF FatTypes
<1>13. JobSeen'
  BY <1>1, <1>2 DEF JobSeen
<1> QED BY <1>1, <1>10, <1>12, <1>13 DEF FInv

LEMMA FreshGood == \A st, fm : Good(Fresh, st, {}, fm)
<1>1. NoFile \in OpenFile
  BY FatAssumption DEF NoFile, OpenFile, Slots
<1>2. 0 \in Slots
  BY FatAssumption DEF Slots
<1>3. /\ Fresh.mounted = [k \in Slots |-> None] /\ Fresh.next = 0 /\ Fresh.cur = None /\ Fresh.fil = NoFile
      /\ Fresh \in Session
  BY <1>1, <1>2 DEF Fresh, Session
<1> QED BY <1>3 DEF Good, OnceMounted, MountsSeen, FileKnown, FileLives

LEMMA FInvInit == Init => FInv
<1> SUFFICES ASSUME Init PROVE FInv
  OBVIOUS
<1>1. \A o \in Offsets : Before(o) \subseteq {NoFS} \cup FileSystem
  <2> SUFFICES ASSUME NEW o \in Offsets PROVE [n \in Names |-> File(<<o>>, FALSE)] \in FileSystem
    BY DEF Before
  <2>1. <<o>> \in Seq(Data) /\ FALSE \in BOOLEAN
    BY DEF Data
  <2>2. File(<<o>>, FALSE) \in Entry
    BY <2>1, Entries
  <2> QED BY <2>2 DEF FileSystem
<1>2. fs \in FileSystems
  BY <1>1 DEF Init, FileSystems
<1>3. used = [seen |-> {}, formatted |-> FALSE] /\ IsFiniteSet({})
  BY FS_EmptySet DEF Init
<1>4. job = None /\ failed = FALSE /\ calls = 0 /\ ses = Fresh
  BY DEF Init
<1>5. FatTypes /\ JobSeen
  BY <1>2, <1>3, <1>4 DEF FatTypes, JobSeen
<1>6. Good(ses, fs, used.seen, used.formatted)
  BY <1>3, <1>4, FreshGood
<1> QED BY <1>5, <1>6 DEF FInv

LEMMA FInvNext == FInv /\ [Next]_vars => FInv'
<1> SUFFICES ASSUME FInv, [Next]_vars PROVE FInv'
  OBVIOUS
<1>0. /\ fs \in FileSystems /\ used.seen \in SUBSET Offsets /\ used.formatted \in BOOLEAN
      /\ IsFiniteSet(used.seen) /\ calls \in Nat /\ job \in {None} \cup Job
      /\ used \in [seen : SUBSET Offsets, formatted : BOOLEAN]
      /\ Good(ses, fs, used.seen, used.formatted)
  BY DEF FInv, FatTypes
<1>1. ASSUME NEW o \in Offsets, fatfs_exists(o) PROVE FInv'
  <2>1. /\ Return(<<"exists", o>>, CloseAndMount(ses, o), Result(TRUE, fs)) /\ Uses({o}, FALSE)
        /\ Result(TRUE, fs).fs \in FileSystems /\ Result(TRUE, fs).ok \in BOOLEAN
    BY <1>0, <1>1 DEF fatfs_exists, Result
  <2> QED BY <2>1, ClosingInv
<1>2. ASSUME NEW o \in Offsets, fat_mkfs(o) PROVE FInv'
  BY <1>2, MkfsInv
<1>3. ASSUME NEW o \in Offsets, fat_setlabel(o) PROVE FInv'
  <2>1. /\ Return(<<"setlabel", o>>, CloseAndMount(ses, o), fatfs_setlabel(o)) /\ Uses({o}, FALSE)
        /\ fatfs_setlabel(o).fs \in FileSystems /\ fatfs_setlabel(o).ok \in BOOLEAN
    BY <1>0, <1>3 DEF fat_setlabel, fatfs_setlabel, Result
  <2> QED BY <2>1, ClosingInv
<1>4. ASSUME NEW o \in Offsets, NEW n \in Names, OnFile(o, n) PROVE FInv'
  <2>1. CASE fat_mkdir(o, n)
    <3>1. /\ Return(<<"mkdir", o, n>>, CloseAndMount(ses, o), fatfs_mkdir(o, n)) /\ Uses({o}, FALSE)
          /\ fatfs_mkdir(o, n).fs \in FileSystems /\ fatfs_mkdir(o, n).ok \in BOOLEAN
      BY <1>0, <2>1, MkdirResult DEF fat_mkdir, OnlyEntry, KeepsOthers
    <3> QED BY <3>1, ClosingInv
  <2>2. CASE fat_touch(o, n)
    <3>1. /\ Return(<<"touch", o, n>>, CloseAndMount(ses, o), fatfs_touch(o, n)) /\ Uses({o}, FALSE)
          /\ fatfs_touch(o, n).fs \in FileSystems /\ fatfs_touch(o, n).ok \in BOOLEAN
      BY <1>0, <2>2, TouchResult DEF fat_touch, OnlyEntry, KeepsOthers
    <3> QED BY <3>1, ClosingInv
  <2>3. ASSUME NEW must \in BOOLEAN, fat_rm(o, n, must) PROVE FInv'
    <3>1. /\ Return(<<"rm", o, n>>, CloseAndMount(ses, o), fatfs_rm(o, n, must)) /\ Uses({o}, FALSE)
          /\ fatfs_rm(o, n, must).fs \in FileSystems /\ fatfs_rm(o, n, must).ok \in BOOLEAN
      BY <1>0, <2>3, RmResult DEF fat_rm, OnlyEntry, KeepsOthers
    <3> QED BY <3>1, ClosingInv
  <2>4. ASSUME NEW m \in Names, NEW force \in BOOLEAN, fat_mv(o, n, m, force) PROVE FInv'
    <3>1. /\ Return(<<"mv", o, n, m>>, CloseAndMount(ses, o), fatfs_mv(o, n, m, force)) /\ Uses({o}, FALSE)
          /\ fatfs_mv(o, n, m, force).fs \in FileSystems /\ fatfs_mv(o, n, m, force).ok \in BOOLEAN
      BY <1>0, <2>4, MvResult DEF fat_mv
    <3> QED BY <3>1, ClosingInv
  <2>5. ASSUME NEW p \in Offsets, NEW m \in Names, fat_cp(o, n, p, m) PROVE FInv'
    BY <2>5, CpInv
  <2>6. ASSUME NEW ro \in BOOLEAN, fat_attrib(o, n, ro) PROVE FInv'
    BY <2>6, AttribInv
  <2>7. ASSUME NEW c \in Contents, fat_write_run(o, n, c) PROVE FInv'
    BY <2>7, WriteRunInv
  <2>8. CASE xdelta_read_fat_callback(o, n)
    <3> DEFINE ok == fs[o] # NoFS /\ MayRead(fs[o], n)
    <3>1. /\ ses' = maybe_mount(ses, o) /\ failed' = ~ok /\ fs' = fs
          /\ job' = (IF ok THEN job ELSE None) /\ calls' = (IF ok THEN calls ELSE calls + 1)
          /\ Uses({o}, FALSE)
      BY <2>8 DEF xdelta_read_fat_callback
    <3>2. /\ Good(maybe_mount(ses, o), fs, used'.seen, used.formatted)
          /\ used' \in [seen : SUBSET Offsets, formatted : BOOLEAN] /\ IsFiniteSet(used'.seen)
          /\ used'.seen = used.seen \cup {o} /\ used'.formatted = (used.formatted \/ FALSE)
      BY <3>1, MountingGood
    <3>3. used'.formatted = used.formatted
      BY <1>0, <3>2
    <3>4. failed' \in BOOLEAN /\ calls' \in Nat /\ job' \in {None, job}
      BY <1>0, <3>1
    <3> HIDE DEF ok
    <3>5. FatTypes' /\ JobSeen'
      BY <1>0, <3>1, <3>2, <3>4 DEF FInv, FatTypes, JobSeen
    <3>6. Good(ses', fs', used'.seen, used'.formatted)
      BY <3>1, <3>2, <3>3
    <3> QED BY <3>5, <3>6 DEF FInv
  <2> QED BY <1>4, <2>1, <2>2, <2>3, <2>4, <2>5, <2>6, <2>7, <2>8 DEF OnFile
<1>5. ASSUME job # None PROVE job \in Job /\ job.ix \in Nat /\ job.content \in Seq(Data) /\ Len(job.content) \in Nat
  BY <1>0, <1>5, FatAssumption, LenProperties DEF Job
<1>6. CASE fat_write_pwrite_callback
  <2>1. /\ job # None /\ job.ix < Len(job.content) /\ Pwrite(job.ix, <<Unit>>, [job EXCEPT !.ix = @ + 1])
    BY <1>6 DEF fat_write_pwrite_callback
  <2>2. job \in Job /\ job.ix \in Nat /\ job.content \in Seq(Data) /\ Len(job.content) \in Nat
    BY <1>5, <2>1
  <2>3. job.ix + 1 \in 1 .. Len(job.content)
    BY <2>1, <2>2
  <2>4. Unit \in Data
    BY <2>2, <2>3, ElementOfSeq DEF Unit
  <2>5. <<Unit>> \in Seq(Data)
    BY <2>4
  <2>6. [job EXCEPT !.ix = @ + 1] \in Job /\ [job EXCEPT !.ix = @ + 1].at = job.at
    BY <2>2 DEF Job
  <2> QED BY <2>1, <2>2, <2>5, <2>6, PwriteInv
<1>7. CASE SkipHole
  <2>1. job # None /\ job' = [job EXCEPT !.ix = @ + 1] /\ UNCHANGED <<fs, ses, phase, failed, calls, last, used>>
    BY <1>7 DEF SkipHole
  <2>2. job \in Job /\ job.ix \in Nat
    BY <1>5, <2>1
  <2>3. job' \in Job /\ job'.at = job.at
    BY <2>1, <2>2 DEF Job
  <2>4. FatTypes' /\ JobSeen'
    BY <2>1, <2>3 DEF FInv, FatTypes, JobSeen
  <2> QED BY <1>0, <2>1, <2>4 DEF FInv
<1>8. CASE fat_write_final_hole_callback
  <2>1. job # None /\ Pwrite(job.ix, <<>>, None)
    BY <1>8 DEF fat_write_final_hole_callback
  <2>2. job.ix \in Nat /\ <<>> \in Seq(Data)
    BY <1>5, <2>1
  <2> QED BY <2>1, <2>2, PwriteInv
<1>9. CASE fat_write_done
  BY <1>0, <1>9 DEF fat_write_done, FInv, FatTypes, JobSeen
<1>10. CASE fat_write_fails
  BY <1>0, <1>10 DEF fat_write_fails, FInv, FatTypes, JobSeen
<1>11. CASE find_task
  BY <1>0, <1>11 DEF find_task, FInv, FatTypes, JobSeen
<1>12. CASE fatfs_closefs
  <2>1. /\ ses' = Fresh /\ failed' = FALSE /\ used' = [seen |-> {}, formatted |-> FALSE]
        /\ fs' = fs /\ job' = job /\ job = None /\ calls' = calls
    BY <1>12 DEF fatfs_closefs
  <2>2. IsFiniteSet({})
    BY FS_EmptySet
  <2>3. FatTypes' /\ JobSeen'
    BY <1>0, <2>1, <2>2 DEF FatTypes, JobSeen
  <2>4. Good(ses', fs', used'.seen, used'.formatted)
    BY <2>1, FreshGood
  <2> QED BY <2>3, <2>4 DEF FInv
<1>13. CASE Done \/ UNCHANGED vars
  BY <1>0, <1>13 DEF Done, vars, FInv, FatTypes, JobSeen
<1>14. ASSUME NEW o \in Offsets, OnFileSystem(o) PROVE FInv'
  BY <1>1, <1>2, <1>3, <1>4, <1>14 DEF OnFileSystem
<1> QED BY <1>6, <1>7, <1>8, <1>9, <1>10, <1>11, <1>12, <1>13, <1>14 DEF Next

\* Mounts, open file and used file systems fit together, however the functions
\* are called: what OpenFileLives needs from one call to the next.
THEOREM FatInvariant == Spec => []FInv
BY FInvInit, FInvNext, PTL DEF Spec

\* The open file that fatfs.c keeps is, as long as FatFs accepts it, the file of
\* its name on the file system of its slot, no file system has two slots, and a
\* refused file object means too many file systems or a format: for any number
\* of volumes, file systems, names and calls.
THEOREM OpenFileStaysValid == Spec => []OpenFileLives
<1>1. FInv => OpenFileLives
  BY DEF FInv, Good, OpenFileLives, OnceMounted, FileKnown, FileLives, Accepted
<1> QED BY <1>1, FatInvariant, PTL

----------------------------------------------------------------------------
(* The file that is being written                                          *)

\* A file that holds the first ix units of c but for the holes at its end.
Wanted(c, i) == IF c[i] = Hole THEN Zero ELSE c[i]
WrittenSoFar(d, c, ix) ==
  /\ Len(d) <= ix /\ \A i \in 1 .. Len(d) : d[i] = Wanted(c, i)
  /\ \A i \in 1 .. ix : i > Len(d) => c[i] = Hole

SelectQuiet == phase = "select" => ~failed /\ job = None
JobInv == job # None =>
  /\ ~failed /\ ses.cur = job.name /\ ses.fil.at = job.at
  /\ fs[job.at] # NoFS /\ IsFile(fs[job.at][job.name])
  /\ job.ix <= Len(job.content)
  /\ WrittenSoFar(fs[job.at][job.name].data, job.content, job.ix)
RInv == FInv /\ SelectQuiet /\ JobInv

LEMMA UnitWritten ==
  ASSUME NEW d \in Seq(Data), NEW c \in Seq(Data), NEW ix \in Nat, ix < Len(c), c[ix + 1] # Hole,
         WrittenSoFar(d, c, ix), NEW new, new = WithData(d, ix, <<c[ix + 1]>>)
  PROVE  WrittenSoFar(new, c, ix + 1)
<1> DEFINE u == <<c[ix + 1]>>
<1>1. Len(d) \in Nat /\ Len(c) \in Nat /\ ix + 1 \in 1 .. Len(c)
  BY LenProperties
<1>2. c[ix + 1] \in Data
  BY <1>1, ElementOfSeq
<1>3. u \in Seq(Data) /\ Len(u) = 1 /\ u[1] = c[ix + 1]
  BY <1>2
<1>30. new = WithData(d, ix, u)
  OBVIOUS
<1> HIDE DEF u
<1>4. Len(d) <= ix /\ (\A i \in 1 .. Len(d) : d[i] = Wanted(c, i))
      /\ (\A i \in 1 .. ix : i > Len(d) => c[i] = Hole)
  BY DEF WrittenSoFar
<1>50. new \in Seq(Data) /\ Overwritten(d, ix, u, new)
  BY <1>3, <1>30, WithDataSeq
<1>5. /\ Len(new) = IF ix + Len(u) > Len(d) THEN ix + Len(u) ELSE Len(d)
      /\ \A i \in 1 .. Len(new) :
           new[i] = IF i > ix /\ i <= ix + Len(u) THEN u[i - ix]
                    ELSE IF i <= Len(d) THEN d[i] ELSE Zero
  BY <1>50 DEF Overwritten
<1>6. Len(new) = ix + 1
  BY <1>1, <1>3, <1>4, <1>5
<1>7. ASSUME NEW i \in 1 .. ix + 1 PROVE new[i] = Wanted(c, i)
  <2>1. CASE i = ix + 1
    <3>1. i > ix /\ i <= ix + Len(u) /\ i - ix = 1 /\ i \in 1 .. Len(new)
      BY <1>3, <1>6, <2>1
    <3>2. new[i] = u[1]
      BY <1>5, <3>1
    <3> QED BY <1>3, <2>1, <3>2 DEF Wanted
  <2>2. CASE i # ix + 1
    <3>1. i \in 1 .. ix /\ i \in 1 .. Len(new) /\ ~(i > ix)
      BY <1>6, <2>2
    <3>2. new[i] = IF i <= Len(d) THEN d[i] ELSE Zero
      BY <1>5, <3>1
    <3>3. i <= Len(d) => i \in 1 .. Len(d)
      BY <1>1
    <3>4. ~(i <= Len(d)) => c[i] = Hole
      BY <1>1, <1>4, <3>1
    <3> QED BY <1>4, <3>2, <3>3, <3>4 DEF Wanted
  <2> QED BY <2>1, <2>2
<1> QED BY <1>6, <1>7 DEF WrittenSoFar

\* A hole is left out, and the last hole or the last unit completes the file.
LEMMA HoleSkipped ==
  ASSUME NEW d \in Seq(Data), NEW c \in Seq(Data), NEW ix \in Nat, c[ix + 1] = Hole, WrittenSoFar(d, c, ix)
  PROVE  WrittenSoFar(d, c, ix + 1)
<1>1. Len(d) \in Nat
  BY LenProperties
<1>2. \A i \in 1 .. ix + 1 : i = ix + 1 \/ i \in 1 .. ix
  OBVIOUS
<1>3. Len(d) <= ix + 1
  BY <1>1 DEF WrittenSoFar
<1> QED BY <1>2, <1>3 DEF WrittenSoFar

LEMMA AllWanted ==
  ASSUME NEW d \in Seq(Data), NEW c \in Seq(Data), Len(d) = Len(c),
         \A i \in 1 .. Len(d) : d[i] = Wanted(c, i)
  PROVE  d = Store!Filled(c)
<1> DEFINE w == Store!Filled(c)
<1>1. DOMAIN c = 1 .. Len(c) /\ DOMAIN d = 1 .. Len(d)
  BY LenProperties
<1>2. DOMAIN w = DOMAIN c /\ \A i \in DOMAIN c : w[i] = Wanted(c, i)
  BY DEF Store!Filled, Store!Zero, Zero, Wanted
<1>3. w = [i \in DOMAIN w |-> w[i]] /\ d = [i \in DOMAIN d |-> d[i]]
  BY DEF Store!Filled
<1> HIDE DEF w
<1>4. d = w
  BY <1>1, <1>2, <1>3
<1> QED BY <1>4 DEF w

LEMMA LastHoleWritten ==
  ASSUME NEW d \in Seq(Data), NEW c \in Seq(Data), WrittenSoFar(d, c, Len(c)), NEW new,
         new = WithData(d, Len(c), <<>>)
  PROVE  new = Store!Filled(c)
<1> DEFINE u == <<>>
<1>1. Len(d) \in Nat /\ Len(c) \in Nat /\ u \in Seq(Data) /\ Len(u) = 0
  BY LenProperties
<1>2. Len(d) <= Len(c) /\ (\A i \in 1 .. Len(d) : d[i] = Wanted(c, i))
      /\ (\A i \in 1 .. Len(c) : i > Len(d) => c[i] = Hole)
  BY DEF WrittenSoFar
<1>3. new = WithData(d, Len(c), u)
  OBVIOUS
<1> HIDE DEF u
<1>40. new \in Seq(Data) /\ Overwritten(d, Len(c), u, new)
  BY <1>1, <1>3, WithDataSeq
<1>4. /\ new \in Seq(Data)
      /\ Len(new) = IF Len(c) + Len(u) > Len(d) THEN Len(c) + Len(u) ELSE Len(d)
      /\ \A i \in 1 .. Len(new) :
           new[i] = IF i > Len(c) /\ i <= Len(c) + Len(u) THEN u[i - Len(c)]
                    ELSE IF i <= Len(d) THEN d[i] ELSE Zero
  BY <1>40 DEF Overwritten
<1>5. Len(new) = Len(c)
  BY <1>1, <1>2, <1>4
<1>6. ASSUME NEW i \in 1 .. Len(new) PROVE new[i] = Wanted(c, i)
  <2>1. ~(i > Len(c)) /\ (i <= Len(d) => i \in 1 .. Len(d)) /\ i \in 1 .. Len(c)
    BY <1>1, <1>5
  <2>2. new[i] = IF i <= Len(d) THEN d[i] ELSE Zero
    BY <1>4, <2>1
  <2>3. ~(i <= Len(d)) => c[i] = Hole
    BY <1>1, <1>2, <2>1
  <2> QED BY <1>2, <2>1, <2>2, <2>3 DEF Wanted
<1> QED BY <1>4, <1>5, <1>6, AllWanted

LEMMA LastUnitWritten ==
  ASSUME NEW d \in Seq(Data), NEW c \in Seq(Data), WrittenSoFar(d, c, Len(c)), ~EndsInHole(c)
  PROVE  d = Store!Filled(c)
<1>1. Len(d) \in Nat /\ Len(c) \in Nat
  BY LenProperties
<1>2. Len(d) <= Len(c) /\ (\A i \in 1 .. Len(d) : d[i] = Wanted(c, i))
      /\ (\A i \in 1 .. Len(c) : i > Len(d) => c[i] = Hole)
  BY DEF WrittenSoFar
<1>3. Len(d) = Len(c)
  <2> SUFFICES ASSUME Len(d) < Len(c) PROVE FALSE
    BY <1>1, <1>2
  <2>1. Len(c) \in 1 .. Len(c) /\ Len(c) > Len(d)
    BY <1>1
  <2>2. c[Len(c)] = Hole
    BY <1>2, <2>1
  <2>3. c # <<>>
    BY <1>1, <2>1
  <2> QED BY <2>2, <2>3 DEF EndsInHole
<1> QED BY <1>2, <1>3, AllWanted

----------------------------------------------------------------------------
(* The invariant of the refinement                                         *)

LEMMA MountKeeps ==
  ASSUME NEW s \in Session, NEW o \in Offsets
  PROVE  /\ maybe_mount(s, o).cur = s.cur /\ maybe_mount(s, o).fil.at = s.fil.at
         /\ maybe_mount(s, o).fil.name = s.fil.name
<1>1. CASE Mounted(s, o)
  BY <1>1 DEF maybe_mount
<1>2. CASE ~Mounted(s, o)
  BY <1>2, MountFields
<1> QED BY <1>1, <1>2

\* The file of the job, in a state of the invariant.
LEMMA JobFacts ==
  ASSUME RInv, job # None
  PROVE  /\ job \in Job /\ job.at \in Offsets /\ job.name \in Names /\ job.ix \in Nat
         /\ job.content \in Seq(Data) /\ Len(job.content) \in Nat /\ job.ix <= Len(job.content)
         /\ fs \in FileSystems /\ fs[job.at] # NoFS /\ fs[job.at][job.name] \in FileEntry
         /\ fs[job.at][job.name].data \in Seq(Data) /\ fs[job.at][job.name].ro \in BOOLEAN
         /\ WrittenSoFar(fs[job.at][job.name].data, job.content, job.ix)
         /\ failed = FALSE /\ ses.cur = job.name /\ ses.fil.at = job.at
         /\ ses \in Session /\ FileKnown(ses) /\ job.content \in Contents
<1>1. job \in Job /\ fs \in FileSystems /\ failed \in BOOLEAN
  BY DEF RInv, FInv, FatTypes
<1>2. /\ job.at \in Offsets /\ job.name \in Names /\ job.ix \in Nat /\ job.content \in Contents
  BY <1>1 DEF Job
<1>3. job.content \in Seq(Data) /\ Len(job.content) \in Nat
  BY <1>2, FatAssumption, LenProperties
<1>4. /\ ~failed /\ ses.cur = job.name /\ ses.fil.at = job.at
      /\ fs[job.at] # NoFS /\ IsFile(fs[job.at][job.name])
      /\ job.ix <= Len(job.content)
      /\ WrittenSoFar(fs[job.at][job.name].data, job.content, job.ix)
  BY DEF RInv, JobInv
<1>5. fs[job.at][job.name] \in FileEntry
  BY <1>1, <1>2, <1>4, Entries DEF FileSystems, FileSystem
<1>6. fs[job.at][job.name].data \in Seq(Data) /\ fs[job.at][job.name].ro \in BOOLEAN
  BY <1>5, Entries
<1>7. ses \in Session /\ FileKnown(ses)
  BY DEF RInv, FInv, Good
<1> QED BY <1>1, <1>2, <1>3, <1>4, <1>5, <1>6, <1>7

\* What a write does to the file of the job.
LEMMA PwriteEffect ==
  ASSUME RInv, job # None, NEW off \in Nat, NEW units \in Seq(Data), NEW next,
         Pwrite(off, units, next), FInv'
  PROVE  /\ failed' \in BOOLEAN /\ phase' = phase
         /\ failed' => job' = None /\ last' = last /\ KeepsOthers(fs', job.at, job.name)
         /\ ~failed' => /\ job' = next /\ ses'.cur = job.name /\ ses'.fil.at = job.at
                        /\ fs' = With(fs, job.at, job.name,
                                      File(WithData(fs[job.at][job.name].data, off, units),
                                           fs[job.at][job.name].ro))
                        /\ last' = IF next = None THEN <<"write", job.at, job.name>> ELSE last
<1> DEFINE at == job.at
           n == job.name
           s == Reuse(ses, at, n)
           f == s.fil
           new(old) == WithData(old, off, units)
           fits(old) == Len(new(old)) - Len(old) <= Room(fs[f.at])
           kept(old) == SubSeq(new(old), 1, Len(old) + Room(fs[f.at]))
           old0 == fs[f.at][f.name].data
           old1 == fs[at][n].data
<1>1. /\ ses' = [s EXCEPT !.fil.pos = IF f.valid /\ fits(old0) THEN off + Len(units) ELSE @]
      /\ fs' = IF ~f.valid THEN fs
               ELSE [fs EXCEPT ![f.at][f.name].data = IF fits(old0) THEN new(old0) ELSE kept(old0)]
      /\ failed' = ~(f.valid /\ fits(old0))
      /\ job' = IF f.valid /\ fits(old0) THEN next ELSE None
      /\ last' = IF f.valid /\ fits(old0) /\ next = None THEN <<"write", job.at, job.name>> ELSE last
      /\ phase' = phase
  BY DEF Pwrite
<1>2. /\ at \in Offsets /\ n \in Names /\ fs \in FileSystems /\ fs[at] # NoFS /\ fs[at][n] \in FileEntry
      /\ old1 \in Seq(Data) /\ ses.cur = n /\ ses.fil.at = at /\ ses \in Session /\ FileKnown(ses)
  BY JobFacts
<1>3. s = maybe_mount(ses, at)
  BY <1>2 DEF Reuse
<1>4. ses.fil.name = n
  BY <1>2, FatAssumption DEF FileKnown
<1> HIDE DEF s
<1>5. s.cur = n /\ f.at = at /\ f.name = n
  BY <1>2, <1>3, <1>4, MountKeeps
<1>6. old0 = old1
  BY <1>5
<1>7. s \in Session
  <2>1. Good(ses, fs, used.seen, used.formatted) /\ used.seen \in SUBSET Offsets
        /\ IsFiniteSet(used.seen) /\ used.formatted \in BOOLEAN
    BY DEF RInv, FInv, FatTypes
  <2> QED BY <1>2, <1>3, <2>1, MountGood DEF Good
<1>8. f.valid \in BOOLEAN /\ fits(old1) \in BOOLEAN
  BY <1>7 DEF Session, OpenFile
<1>9. ses'.cur = n /\ ses'.fil.at = at
  <2>1. \A pos : [s EXCEPT !.fil.pos = pos].cur = s.cur /\ [s EXCEPT !.fil.pos = pos].fil.at = s.fil.at
    BY <1>7 DEF Session, OpenFile
  <2>2. PICK pos : ses' = [s EXCEPT !.fil.pos = pos]
    <3>1. ses' = [s EXCEPT !.fil.pos = IF f.valid /\ fits(old0) THEN off + Len(units) ELSE s.fil.pos]
      BY <1>1
    <3> QED BY <3>1
  <2> QED BY <1>5, <2>1, <2>2
<1> HIDE DEF at, n, old0, old1
<1>10. ASSUME NEW data \in Seq(Data), fs' = [fs EXCEPT ![at][n].data = data]
       PROVE  fs' = With(fs, at, n, File(data, fs[at][n].ro)) /\ KeepsOthers(fs', at, n)
  <2> DEFINE e == File(data, fs[at][n].ro)
             g == WithFileData(fs, at, n, data)
  <2>0. g = With(fs, at, n, e) /\ e \in Entry
    BY <1>2, PutData
  <2> HIDE DEF g, e
  <2>1. fs' = With(fs, at, n, e) /\ e \in Entry
    BY <1>10, <2>0 DEF g, WithFileData
  <2>2. /\ With(fs, at, n, e) \in FileSystems /\ With(fs, at, n, e)[at] # NoFS
        /\ (\A p \in Offsets \ {at} : With(fs, at, n, e)[p] = fs[p])
        /\ (\A m \in Names \ {n} : With(fs, at, n, e)[at][m] = fs[at][m])
    BY <1>2, <2>1, PutFields
  <2>3. KeepsOthers(With(fs, at, n, e), at, n)
    BY <1>2, <2>2 DEF KeepsOthers
  <2> QED BY <2>1, <2>3 DEF e
<1>11. KeepsOthers(fs, at, n)
  BY <1>2 DEF KeepsOthers
<1>12. new(old1) \in Seq(Data) /\ Len(new(old1)) \in Nat /\ Len(old1) \in Nat
  BY <1>2, WithDataSeq, LenProperties
<1>13. CASE f.valid /\ fits(old1)
  <2>1. fs' = [fs EXCEPT ![at][n].data = new(old1)]
    BY <1>1, <1>5, <1>6, <1>13
  <2>2. fs' = With(fs, at, n, File(new(old1), fs[at][n].ro))
    BY <1>10, <1>12, <2>1
  <2>3. failed' = FALSE /\ job' = next /\ last' = IF next = None THEN <<"write", job.at, job.name>> ELSE last
    BY <1>1, <1>6, <1>13
  <2> QED BY <1>1, <1>9, <2>2, <2>3 DEF at, n, old1
<1>14. CASE f.valid /\ ~fits(old1)
  <2>1. fs' = [fs EXCEPT ![at][n].data = kept(old1)]
    BY <1>1, <1>5, <1>6, <1>14
  <2>2. kept(old1) \in Seq(Data)
    <3>1. Room(fs[f.at]) \in Nat
      BY RoomNat
    <3>2. Len(old1) + Room(fs[f.at]) \in Nat /\ Len(old1) + Room(fs[f.at]) <= Len(new(old1))
      BY <1>12, <1>14, <3>1
    <3> QED BY <1>12, <3>2, Prefix
  <2>3. KeepsOthers(fs', at, n)
    BY <1>10, <2>1, <2>2
  <2>4. failed' = TRUE /\ job' = None /\ last' = last
    BY <1>1, <1>6, <1>14
  <2> QED BY <1>1, <2>3, <2>4 DEF at, n
<1>15. CASE ~f.valid
  <2>1. fs' = fs /\ failed' = TRUE /\ job' = None /\ last' = last
    BY <1>1, <1>15
  <2> QED BY <1>1, <1>11, <2>1 DEF at, n
<1> QED BY <1>8, <1>13, <1>14, <1>15

\* fat_write empties the file it names.
LEMMA WriteRunEffect ==
  ASSUME RInv, Pitfalls = {}, NEW o \in Offsets, NEW n \in Names, NEW c \in Contents,
         fat_write_run(o, n, c)
  PROVE  /\ failed' \in BOOLEAN /\ phase' = phase /\ last' = last
         /\ failed' => job' = None /\ fs' = fs
         /\ ~failed' => /\ job' = [at |-> o, name |-> n, content |-> c, ix |-> 0]
                        /\ fs[o] # NoFS /\ ses'.cur = n /\ ses'.fil.at = o
                        /\ \E e \in FileEntry : e.data = <<>> /\ fs' = With(fs, o, n, e)
<1> DEFINE s == Reuse(ses, o, n)
           create == s.cur = None
           ok == IF create THEN fs[o] # NoFS /\ MayCreate(fs[o], n) ELSE s.fil.valid
<1>1. /\ ses' = IF ~ok THEN s ELSE IF create THEN Opened(s, o, n) ELSE [s EXCEPT !.fil.pos = 0]
      /\ fs' = IF ~ok THEN fs
               ELSE IF create THEN Put(o, n, File(<<>>, FALSE))
               ELSE [fs EXCEPT ![s.fil.at][s.fil.name].data = <<>>]
      /\ failed' = ~ok
      /\ job' = IF ok THEN [at |-> o, name |-> n, content |-> c, ix |-> 0] ELSE None
      /\ phase' = phase /\ last' = last
      /\ ~(ses.cur = n /\ ses.fil.at # o)
  BY DEF fat_write_run, Avoided
<1>2. /\ used.seen \in SUBSET Offsets /\ used.formatted \in BOOLEAN /\ IsFiniteSet(used.seen)
      /\ fs \in FileSystems /\ Good(ses, fs, used.seen, used.formatted)
  BY DEF RInv, FInv, FatTypes
<1>3. /\ Good(s, fs, used.seen \cup {o}, used.formatted) /\ Mounted(s, o) /\ s.cur \in {None, n}
  BY <1>2, ReuseGood
<1>4. /\ s \in Session /\ FileKnown(s) /\ FileLives(s, fs, used.seen \cup {o}, used.formatted)
      /\ ses \in Session
  BY <1>2, <1>3 DEF Good
<1>5. ok \in BOOLEAN
  <2>1. s.fil.valid \in BOOLEAN
    BY <1>4 DEF Session, OpenFile
  <2> QED BY <2>1
<1>6. CASE ~ok
  BY <1>1, <1>6
<1>7. CASE ok /\ create
  <2>1. ses' = Opened(s, o, n) /\ fs' = Put(o, n, File(<<>>, FALSE)) /\ fs[o] # NoFS /\ failed' = FALSE
        /\ job' = [at |-> o, name |-> n, content |-> c, ix |-> 0]
    BY <1>1, <1>7
  <2> HIDE DEF s
  <2>2. ses'.cur = n /\ ses'.fil.at = o
    <3> DEFINE f == [slot |-> SlotOf(s, o), at |-> o, name |-> n, pos |-> 0, valid |-> TRUE]
    <3>1. ses' = [s EXCEPT !.cur = n, !.fil = f] /\ f.at = o
      BY <2>1 DEF Opened
    <3> HIDE DEF f
    <3> QED BY <1>4, <3>1 DEF Session
  <2> DEFINE e == File(<<>>, FALSE)
  <2>3. fs' = With(fs, o, n, e) /\ e \in FileEntry /\ e.data = <<>>
    BY <2>1, EmptyFile DEF Put, With
  <2> HIDE DEF e
  <2> QED BY <1>1, <2>1, <2>2, <2>3
<1>8. CASE ok /\ ~create
  <2>1. /\ ses' = [s EXCEPT !.fil.pos = 0] /\ fs' = [fs EXCEPT ![s.fil.at][s.fil.name].data = <<>>]
        /\ failed' = FALSE /\ job' = [at |-> o, name |-> n, content |-> c, ix |-> 0]
        /\ s.fil.valid /\ s.cur = n
    BY <1>1, <1>3, <1>8
  <2>2. ~(ses.cur # None /\ ses.cur # n)
    <3> SUFFICES ASSUME ses.cur # None, ses.cur # n PROVE FALSE
      OBVIOUS
    <3>1. Good(close_open_files(ses), fs, used.seen, used.formatted) /\ close_open_files(ses).cur = None
      BY <1>2, CloseGood
    <3>2. s = maybe_mount(close_open_files(ses), o)
      BY DEF Reuse
    <3>3. s.cur = None
      BY <3>1, <3>2, MountKeeps DEF Good
    <3> QED BY <1>8, <3>3
  <2>3. s = maybe_mount(ses, o)
    BY <2>2 DEF Reuse
  <2>4. s.cur = ses.cur /\ s.fil.at = ses.fil.at
    BY <1>4, <2>3, MountKeeps
  <2>5. s.fil.at = o /\ s.fil.name = n
    BY <1>1, <1>4, <1>8, <2>1, <2>4 DEF FileKnown
  <2> HIDE DEF s
  <2>6. Accepted(s, fs)
    BY <1>4, <1>8, <2>1 DEF FileLives
  <2>7. fs[o] # NoFS /\ fs[o][n] \in FileEntry
    BY <1>2, <2>5, <2>6, Entries DEF Accepted, FileSystems, FileSystem
  <2>8. ses'.cur = n /\ ses'.fil.at = o
    BY <1>4, <2>1, <2>5 DEF Session, OpenFile
  <2> DEFINE e == File(<<>>, fs[o][n].ro)
  <2>9. fs' = WithFileData(fs, o, n, <<>>)
    BY <2>1, <2>5 DEF WithFileData
  <2>10. <<>> \in Seq(Data)
    OBVIOUS
  <2>11. fs' = With(fs, o, n, e) /\ e \in FileEntry /\ e.data = <<>>
    BY <1>2, <2>7, <2>9, <2>10, PutData
  <2> HIDE DEF e
  <2> QED BY <1>1, <2>1, <2>7, <2>8, <2>11
<1> QED BY <1>5, <1>6, <1>7, <1>8

LEMMA RInvInit == Init => RInv
BY FInvInit DEF Init, RInv, SelectQuiet, JobInv

\* A step that leaves no write under way, or the state of it alone.
LEMMA NoJob ==
  ASSUME FInv', job' = None, phase' = "select" => failed' = FALSE
  PROVE  RInv'
BY DEF RInv, SelectQuiet, JobInv
LEMMA SameJob ==
  ASSUME RInv, FInv', job # None, job' = job, failed' = FALSE, fs' = fs, phase' = phase,
         ses'.cur = ses.cur, ses'.fil.at = ses.fil.at
  PROVE  RInv'
BY DEF RInv, SelectQuiet, JobInv

\* The unit is written: the file of the job.
LEMMA UnitInv ==
  ASSUME RInv, FInv', fat_write_pwrite_callback
  PROVE  RInv'
<1>1. /\ job # None /\ job.ix < Len(job.content) /\ Unit # Hole
      /\ Pwrite(job.ix, <<Unit>>, [job EXCEPT !.ix = @ + 1])
  BY DEF fat_write_pwrite_callback
<1>2. /\ job \in Job /\ job.at \in Offsets /\ job.name \in Names /\ job.ix \in Nat
      /\ job.content \in Seq(Data) /\ Len(job.content) \in Nat
      /\ fs \in FileSystems /\ fs[job.at] # NoFS /\ fs[job.at][job.name] \in FileEntry
      /\ fs[job.at][job.name].data \in Seq(Data) /\ fs[job.at][job.name].ro \in BOOLEAN
      /\ WrittenSoFar(fs[job.at][job.name].data, job.content, job.ix)
  BY <1>1, JobFacts
<1>3. job.ix + 1 \in 1 .. Len(job.content) /\ phase # "select"
  BY <1>1, <1>2 DEF RInv, SelectQuiet
<1>4. <<Unit>> \in Seq(Data)
  <2>1. Unit \in Data
    BY <1>2, <1>3, ElementOfSeq DEF Unit
  <2> QED BY <2>1
<1> DEFINE old == fs[job.at][job.name].data
           new == WithData(old, job.ix, <<Unit>>)
           next == [job EXCEPT !.ix = @ + 1]
           e == File(new, fs[job.at][job.name].ro)
<1>5. /\ failed' \in BOOLEAN /\ phase' = phase
      /\ failed' => job' = None
      /\ ~failed' => /\ job' = next /\ ses'.cur = job.name /\ ses'.fil.at = job.at
                     /\ fs' = With(fs, job.at, job.name, e)
  BY <1>1, <1>2, <1>4, PwriteEffect
<1>6. CASE failed'
  BY <1>3, <1>5, <1>6, NoJob
<1>7. CASE ~failed'
  <2>1. next.at = job.at /\ next.name = job.name /\ next.content = job.content /\ next.ix = job.ix + 1
    BY <1>2 DEF Job
  <2>2. WrittenSoFar(new, job.content, job.ix + 1)
    BY <1>1, <1>2, UnitWritten DEF Unit
  <2>3. new \in Seq(Data)
    BY <1>2, <1>4, WithDataSeq
  <2> HIDE DEF new, next
  <2>4. e \in Entry /\ IsFile(e) /\ e.data = new
    BY <1>2, <2>3, Entries
  <2> HIDE DEF e
  <2>5. With(fs, job.at, job.name, e)[job.at] # NoFS /\ With(fs, job.at, job.name, e)[job.at][job.name] = e
    BY <1>2, <2>4, PutFields
  <2>6. fs'[job.at] # NoFS /\ fs'[job.at][job.name] = e
    BY <1>5, <1>7, <2>5
  <2>7. job.ix + 1 <= Len(job.content)
    BY <1>3
  <2>8. JobInv'
    BY <1>5, <1>7, <2>1, <2>2, <2>4, <2>6, <2>7 DEF JobInv
  <2> QED BY <1>3, <1>5, <2>8 DEF RInv, SelectQuiet
<1> QED BY <1>5, <1>6, <1>7

LEMMA CalledInv ==
  ASSUME FInv', MayCall, NEW f, NEW s, NEW r, Return(f, s, r)
  PROVE  RInv'
<1>1. job' = None /\ phase' # "select"
  BY DEF MayCall, Return
<1> QED BY <1>1, NoJob

LEMMA RInvNext ==
  ASSUME Pitfalls = {}, RInv, [Next]_vars
  PROVE  RInv'
<1>0. FInv'
  BY FInvNext DEF RInv
<1>1. ASSUME NEW o \in Offsets, OnFileSystem(o) PROVE RInv'
  <2>1. CASE fatfs_exists(o)
    <3>1. job' = job /\ phase = "select" /\ failed' = FALSE
      BY <2>1 DEF fatfs_exists, Return, Result
    <3>2. job' = None
      BY <3>1 DEF RInv, SelectQuiet
    <3> QED BY <1>0, <3>1, <3>2, NoJob
  <2>2. CASE fat_mkfs(o)
    BY <1>0, <2>2, CalledInv DEF fat_mkfs
  <2>3. CASE fat_setlabel(o)
    BY <1>0, <2>3, CalledInv DEF fat_setlabel
  <2>4. ASSUME NEW n \in Names, OnFile(o, n) PROVE RInv'
    <3>1. CASE fat_mkdir(o, n)
      BY <1>0, <3>1, CalledInv DEF fat_mkdir
    <3>2. CASE fat_touch(o, n)
      BY <1>0, <3>2, CalledInv DEF fat_touch
    <3>3. ASSUME NEW must \in BOOLEAN, fat_rm(o, n, must) PROVE RInv'
      BY <1>0, <3>3, CalledInv DEF fat_rm
    <3>4. ASSUME NEW m \in Names, NEW force \in BOOLEAN, fat_mv(o, n, m, force) PROVE RInv'
      BY <1>0, <3>4, CalledInv DEF fat_mv
    <3>5. ASSUME NEW p \in Offsets, NEW m \in Names, fat_cp(o, n, p, m) PROVE RInv'
      BY <1>0, <3>5, CalledInv DEF fat_cp
    <3>6. ASSUME NEW ro \in BOOLEAN, fat_attrib(o, n, ro) PROVE RInv'
      BY <1>0, <3>6, CalledInv DEF fat_attrib
    <3>7. ASSUME NEW c \in Contents, fat_write_run(o, n, c) PROVE RInv'
      <4>1. /\ failed' \in BOOLEAN /\ phase' = phase
            /\ failed' => job' = None
            /\ ~failed' => /\ job' = [at |-> o, name |-> n, content |-> c, ix |-> 0]
                           /\ fs[o] # NoFS /\ ses'.cur = n /\ ses'.fil.at = o
                           /\ \E e \in FileEntry : e.data = <<>> /\ fs' = With(fs, o, n, e)
        BY <3>7, WriteRunEffect
      <4>2. phase # "select"
        BY <3>7 DEF fat_write_run, MayCall
      <4>3. CASE failed'
        BY <1>0, <4>1, <4>2, <4>3, NoJob
      <4>4. CASE ~failed'
        <5>1. PICK e \in FileEntry : e.data = <<>> /\ fs' = With(fs, o, n, e)
          BY <4>1, <4>4
        <5>2. fs \in FileSystems /\ e \in Entry /\ IsFile(e)
          BY Entries DEF RInv, FInv, FatTypes
        <5>3. With(fs, o, n, e)[o] # NoFS /\ With(fs, o, n, e)[o][n] = e
          BY <4>1, <4>4, <5>2, PutFields
        <5>4. fs'[o] # NoFS /\ fs'[o][n] = e
          BY <5>1, <5>3
        <5>5. job'.at = o /\ job'.name = n /\ job'.content = c /\ job'.ix = 0
          BY <4>1, <4>4
        <5>6. WrittenSoFar(<<>>, c, 0) /\ 0 <= Len(c)
          BY FatAssumption, LenProperties DEF WrittenSoFar
        <5>7. JobInv'
          BY <4>1, <4>4, <5>1, <5>2, <5>4, <5>5, <5>6 DEF JobInv
        <5> QED BY <1>0, <4>1, <4>2, <5>7 DEF RInv, SelectQuiet
      <4> QED BY <4>1, <4>3, <4>4
    <3>8. CASE xdelta_read_fat_callback(o, n)
      <4>1. /\ ses' = maybe_mount(ses, o) /\ fs' = fs /\ phase' = phase /\ job # None
            /\ \/ failed' = TRUE /\ job' = None
               \/ failed' = FALSE /\ job' = job
        BY <3>8 DEF xdelta_read_fat_callback
      <4>2. phase # "select"
        BY <4>1 DEF RInv, SelectQuiet
      <4>3. CASE job' = None
        BY <1>0, <4>1, <4>2, <4>3, NoJob
      <4>4. CASE failed' = FALSE /\ job' = job
        <5>1. ses'.cur = ses.cur /\ ses'.fil.at = ses.fil.at
          BY <4>1, MountKeeps DEF RInv, FInv, Good
        <5> QED BY <1>0, <4>1, <4>4, <5>1, SameJob
      <4> QED BY <4>1, <4>3, <4>4
    <3> QED BY <2>4, <3>1, <3>2, <3>3, <3>4, <3>5, <3>6, <3>7, <3>8 DEF OnFile
  <2> QED BY <1>1, <2>1, <2>2, <2>3, <2>4 DEF OnFileSystem
<1>2. CASE fat_write_pwrite_callback
  BY <1>0, <1>2, UnitInv
<1>3. CASE SkipHole
  <2>1. /\ job # None /\ job.ix < Len(job.content) /\ job.content[job.ix + 1] = Hole
        /\ job' = [job EXCEPT !.ix = @ + 1] /\ fs' = fs /\ ses' = ses /\ phase' = phase /\ failed' = failed
    BY <1>3 DEF SkipHole, Unit
  <2>2. /\ job \in Job /\ job.ix \in Nat /\ job.content \in Seq(Data) /\ Len(job.content) \in Nat
        /\ fs[job.at][job.name].data \in Seq(Data)
        /\ WrittenSoFar(fs[job.at][job.name].data, job.content, job.ix)
    BY <2>1, JobFacts
  <2>3. job'.at = job.at /\ job'.name = job.name /\ job'.content = job.content /\ job'.ix = job.ix + 1
    BY <2>1, <2>2 DEF Job
  <2>4. WrittenSoFar(fs[job.at][job.name].data, job.content, job.ix + 1)
    BY <2>1, <2>2, HoleSkipped
  <2>5. job.ix + 1 <= Len(job.content)
    BY <2>1, <2>2
  <2>6. JobInv'
    BY <2>1, <2>3, <2>4, <2>5 DEF RInv, JobInv
  <2>7. SelectQuiet'
    BY <2>1 DEF RInv, SelectQuiet
  <2> QED BY <1>0, <2>6, <2>7 DEF RInv
<1>4. CASE fat_write_final_hole_callback
  <2>1. job # None /\ Pwrite(job.ix, <<>>, None)
    BY <1>4 DEF fat_write_final_hole_callback
  <2>2. phase # "select" /\ phase' = phase /\ job' = None
    BY <2>1 DEF RInv, SelectQuiet, Pwrite
  <2> QED BY <1>0, <2>2, NoJob
<1>5. CASE fat_write_done \/ fat_write_fails
  <2>1. job # None /\ job' = None /\ phase' = phase
    BY <1>5 DEF fat_write_done, fat_write_fails
  <2>2. phase # "select"
    BY <2>1 DEF RInv, SelectQuiet
  <2> QED BY <1>0, <2>1, <2>2, NoJob
<1>6. CASE find_task
  <2>1. phase = "select" /\ phase' = "run" /\ job' = job
    BY <1>6 DEF find_task
  <2>2. job' = None
    BY <2>1 DEF RInv, SelectQuiet
  <2> QED BY <1>0, <2>1, <2>2, NoJob
<1>7. CASE fatfs_closefs
  <2>1. job' = None /\ failed' = FALSE
    BY <1>7 DEF fatfs_closefs
  <2> QED BY <1>0, <2>1, NoJob
<1>8. CASE Done \/ UNCHANGED vars
  <2>1. UNCHANGED vars
    BY <1>8 DEF Done
  <2> QED BY <1>0, <2>1 DEF vars, RInv, SelectQuiet, JobInv
<1> QED BY <1>1, <1>2, <1>3, <1>4, <1>5, <1>6, <1>7, <1>8 DEF Next

----------------------------------------------------------------------------
(* Every step is a step of FatStore, or none                               *)

LEMMA WithTwice ==
  ASSUME NEW st \in FileSystems, NEW o \in Offsets, st[o] # NoFS, NEW n \in Names, NEW e, NEW e2
  PROVE  /\ With(With(st, o, n, e), o, n, e2) = With(st, o, n, e2)
         /\ With(st, o, n, st[o][n]) = st
<1>1. st[o] \in [Names -> Entry] /\ st \in [Offsets -> {NoFS} \cup FileSystem]
  BY DEF FileSystems, FileSystem
<1> DEFINE d == [st[o] EXCEPT ![n] = e]
           d2 == [st[o] EXCEPT ![n] = e2]
           x == [st EXCEPT ![o] = d]
<1>2. With(st, o, n, e) = x /\ With(st, o, n, e2) = [st EXCEPT ![o] = d2]
  BY DEF With
<1>3. [d EXCEPT ![n] = e2] = d2
  BY <1>1
<1>4. x[o] = d
  BY <1>1
<1>5. With(x, o, n, e2) = [x EXCEPT ![o] = [x[o] EXCEPT ![n] = e2]]
  BY DEF With
<1>6. With(x, o, n, e2) = [x EXCEPT ![o] = d2]
  BY <1>3, <1>4, <1>5
<1> HIDE DEF d, d2
<1>7. [x EXCEPT ![o] = d2] = [st EXCEPT ![o] = d2]
  BY <1>1
<1>8. [st[o] EXCEPT ![n] = st[o][n]] = st[o]
  BY <1>1
<1>9. [st EXCEPT ![o] = st[o]] = st
  BY <1>1
<1>10. With(st, o, n, st[o][n]) = [st EXCEPT ![o] = [st[o] EXCEPT ![n] = st[o][n]]]
  BY DEF With
<1> HIDE DEF x
<1> QED BY <1>2, <1>6, <1>7, <1>8, <1>9, <1>10

LEMMA TornFormatted ==
  ASSUME NEW st \in FileSystems, NEW o \in Offsets, st[o] # NoFS, NEW n \in Names
  PROVE  With(st, o, n, Torn)[o] # NoFS
<1>1. st[o] \in [Names -> Entry] /\ st \in [Offsets -> {NoFS} \cup FileSystem]
  BY DEF FileSystems, FileSystem
<1> DEFINE d == [st[o] EXCEPT ![n] = Torn]
<1>2. With(st, o, n, Torn) = [st EXCEPT ![o] = d]
  BY DEF With
<1>3. d \in [Names -> Entry \cup {Torn}]
  BY <1>1
<1> HIDE DEF d
<1>4. With(st, o, n, Torn)[o] = d
  BY <1>1, <1>2
<1> QED BY <1>3, <1>4, FatAssumption

\* The mapping: what FatStore sees of a state.
StoreNow == IF job = None \/ fs[job.at] = NoFS THEN fs ELSE Put(job.at, job.name, Torn)
WritingNow == IF job = None THEN None ELSE [at |-> job.at, name |-> job.name, content |-> job.content]

LEMMA Mapping ==
  /\ Store!storeVars = <<StoreNow, WritingNow, failed, last>>
  /\ job = None => StoreNow = fs /\ WritingNow = None
  /\ RInv /\ job # None =>
       /\ StoreNow = With(fs, job.at, job.name, Torn) /\ WritingNow # None
       /\ WritingNow = [at |-> job.at, name |-> job.name, content |-> job.content]
       /\ WritingNow.at = job.at /\ WritingNow.name = job.name /\ WritingNow.content = job.content
<1>1. Store!storeVars = <<StoreNow, WritingNow, failed, last>>
  BY DEF Store!storeVars, StoreNow, WritingNow
<1>2. job = None => StoreNow = fs /\ WritingNow = None
  BY DEF StoreNow, WritingNow
<1>3. ASSUME RInv, job # None
      PROVE  /\ StoreNow = With(fs, job.at, job.name, Torn) /\ WritingNow # None
             /\ WritingNow = [at |-> job.at, name |-> job.name, content |-> job.content]
             /\ WritingNow.at = job.at /\ WritingNow.name = job.name /\ WritingNow.content = job.content
  <2>1. fs[job.at] # NoFS /\ job.at \in Offsets /\ job.name \in Names /\ job.content \in Contents
    BY <1>3, JobFacts
  <2>2. StoreNow = Put(job.at, job.name, Torn)
    BY <1>3, <2>1 DEF StoreNow
  <2>3. WritingNow = [at |-> job.at, name |-> job.name, content |-> job.content]
    BY <1>3 DEF WritingNow
  <2>4. WritingNow # None
    <3>1. WritingNow \in [at : Offsets, name : Names, content : Contents]
      BY <2>1, <2>3
    <3> QED BY <3>1, FatAssumption
  <2> QED BY <2>2, <2>3, <2>4 DEF Put, With
<1> QED BY <1>1, <1>2, <1>3

LEMMA MappingNext ==
  RInv' /\ job' # None =>
    /\ StoreNow' = With(fs', job'.at, job'.name, Torn)
    /\ WritingNow' = [at |-> job'.at, name |-> job'.name, content |-> job'.content]
<1> SUFFICES ASSUME RInv', job' # None
             PROVE  /\ StoreNow' = With(fs', job'.at, job'.name, Torn)
                    /\ WritingNow' = [at |-> job'.at, name |-> job'.name, content |-> job'.content]
  OBVIOUS
<1>1. fs'[job'.at] # NoFS
  BY DEF RInv, JobInv
<1>2. StoreNow' = [fs' EXCEPT ![job'.at][job'.name] = Torn]
  BY <1>1 DEF StoreNow, Put
<1> QED BY <1>2 DEF With, WritingNow

\* A function that completes, and one that fails, between writes.
LEMMA CompletesStep ==
  ASSUME NEW f, NEW s, NEW r, MayCall \/ (phase = "select" /\ RInv), Return(f, s, r), r.ok = TRUE, FInv
  PROVE  Store!Completes(f, r.fs) /\ job = None /\ StoreNow = fs /\ WritingNow = None
<1>1. job = None /\ ~failed
  BY DEF MayCall, RInv, SelectQuiet
<1>2. job' = None /\ fs' = r.fs /\ failed' = FALSE /\ last' = f
  BY <1>1 DEF Return
<1> QED BY <1>1, <1>2 DEF Store!Completes, StoreNow, WritingNow

LEMMA FailsStep ==
  ASSUME MayCall, NEW f, NEW s, NEW r, Return(f, s, r), r.ok = FALSE,
         NEW o \in Offsets, NEW n \in Names, OnlyEntry(r, o, n)
  PROVE  Store!EndsBadly(o, n)
<1>1. job = None /\ ~failed
  BY DEF MayCall
<1>2. job' = None /\ fs' = r.fs /\ failed' = TRUE /\ last' = last
  BY <1>1 DEF Return
<1>3. /\ \A p \in Offsets \ {o} : fs'[p] = fs[p]
      /\ IF fs[o] # NoFS THEN \A m \in Names \ {n} : fs'[o][m] = fs[o][m] ELSE fs'[o] = fs[o]
  BY <1>2 DEF OnlyEntry, KeepsOthers
<1> QED BY <1>1, <1>2, <1>3 DEF Store!EndsBadly, Store!Formatted

LEMMA StepMkdir ==
  ASSUME RInv, NEW o \in Offsets, NEW n \in Names, fat_mkdir(o, n)
  PROVE  Store!OnFile(o, n)
<1> DEFINE r == fatfs_mkdir(o, n)
<1>1. MayCall /\ Return(<<"mkdir", o, n>>, CloseAndMount(ses, o), r) /\ FInv
  BY DEF fat_mkdir, RInv
<1>2. OnlyEntry(r, o, n)
  BY MkdirResult DEF RInv, FInv, FatTypes
<1>3. r.ok = TRUE => fs[o] # NoFS /\ fs[o][n] \in {None, Dir} /\ r.fs = Put(o, n, Dir)
  BY DEF fatfs_mkdir, Result
<1> HIDE DEF r
<1>4. CASE r.ok = TRUE
  <2>1. Store!Completes(<<"mkdir", o, n>>, r.fs) /\ job = None /\ StoreNow = fs /\ WritingNow = None
    BY <1>1, <1>4, CompletesStep
  <2>2. Store!Mkdir(o, n)
    BY <1>3, <1>4, <2>1 DEF Store!Mkdir, Store!Formatted, Store!Put, Put
  <2> QED BY <2>2 DEF Store!OnFile
<1>5. CASE r.ok = FALSE
  <2>1. Store!EndsBadly(o, n)
    BY <1>1, <1>2, <1>5, FailsStep
  <2> QED BY <2>1 DEF Store!OnFile
<1> QED BY <1>2, <1>4, <1>5 DEF OnlyEntry

LEMMA StepTouch ==
  ASSUME RInv, NEW o \in Offsets, NEW n \in Names, fat_touch(o, n)
  PROVE  Store!OnFile(o, n)
<1> DEFINE r == fatfs_touch(o, n)
<1>1. MayCall /\ Return(<<"touch", o, n>>, CloseAndMount(ses, o), r) /\ FInv
  BY DEF fat_touch, RInv
<1>2. OnlyEntry(r, o, n)
  BY TouchResult DEF RInv, FInv, FatTypes
<1>3. r.ok = TRUE => /\ fs[o] # NoFS
                     /\ \/ fs[o][n] = None /\ r.fs = Put(o, n, File(<<>>, FALSE))
                        \/ IsFile(fs[o][n]) /\ r.fs = fs
  BY FatAssumption DEF fatfs_touch, Result, MayCreate, IsFile
<1> HIDE DEF r
<1>4. CASE r.ok = TRUE
  <2>1. Store!Completes(<<"touch", o, n>>, r.fs) /\ job = None /\ StoreNow = fs /\ WritingNow = None
    BY <1>1, <1>4, CompletesStep
  <2>2. Store!Touch(o, n)
    BY <1>3, <1>4, <2>1
    DEF Store!Touch, Store!Formatted, Store!Put, Put, Store!IsFile, IsFile, Store!File, File
  <2> QED BY <2>2 DEF Store!OnFile
<1>5. CASE r.ok = FALSE
  <2>1. Store!EndsBadly(o, n)
    BY <1>1, <1>2, <1>5, FailsStep
  <2> QED BY <2>1 DEF Store!OnFile
<1> QED BY <1>2, <1>4, <1>5 DEF OnlyEntry

LEMMA StepRm ==
  ASSUME RInv, NEW o \in Offsets, NEW n \in Names, NEW must \in BOOLEAN, fat_rm(o, n, must)
  PROVE  Store!OnFile(o, n)
<1> DEFINE r == fatfs_rm(o, n, must)
<1>0. fs \in FileSystems
  BY DEF RInv, FInv, FatTypes
<1>1. MayCall /\ Return(<<"rm", o, n>>, CloseAndMount(ses, o), r) /\ FInv
  BY DEF fat_rm, RInv
<1>2. OnlyEntry(r, o, n)
  BY <1>0, RmResult
<1>3. r.ok = TRUE => fs[o] # NoFS /\ r.fs = Put(o, n, None)
  <2> DEFINE gone == fs[o] # NoFS /\ MayUnlink(fs[o], n)
             ok == gone \/ (fs[o] # NoFS /\ fs[o][n] = None /\ ~must)
  <2>1. r = Result(ok, IF gone THEN Put(o, n, None) ELSE fs)
    BY DEF fatfs_rm
  <2>2. r.ok = ok /\ r.fs = IF gone THEN Put(o, n, None) ELSE fs
    BY <2>1 DEF Result
  <2>3. fs[o] # NoFS /\ fs[o][n] = None => Put(o, n, None) = fs
    <3> SUFFICES ASSUME fs[o] # NoFS, fs[o][n] = None PROVE Put(o, n, None) = fs
      OBVIOUS
    <3>1. With(fs, o, n, fs[o][n]) = fs
      BY <1>0, WithTwice
    <3>2. With(fs, o, n, None) = fs
      BY <3>1
    <3> QED BY <3>2 DEF Put, With
  <2> HIDE DEF r
  <2> QED BY <2>2, <2>3
<1> HIDE DEF r
<1>4. CASE r.ok = TRUE
  <2>1. Store!Completes(<<"rm", o, n>>, r.fs) /\ job = None /\ StoreNow = fs /\ WritingNow = None
    BY <1>1, <1>4, CompletesStep
  <2>2. Store!Rm(o, n)
    BY <1>3, <1>4, <2>1 DEF Store!Rm, Store!Formatted, Store!Put, Put
  <2> QED BY <2>2 DEF Store!OnFile
<1>5. CASE r.ok = FALSE
  <2>1. Store!EndsBadly(o, n)
    BY <1>1, <1>2, <1>5, FailsStep
  <2> QED BY <2>1 DEF Store!OnFile
<1> QED BY <1>2, <1>4, <1>5 DEF OnlyEntry

LEMMA StepMv ==
  ASSUME RInv, NEW o \in Offsets, NEW a \in Names, NEW b \in Names, NEW force \in BOOLEAN,
         fat_mv(o, a, b, force)
  PROVE  Store!OnFile(o, a) \/ Store!OnFile(o, b)
<1> DEFINE r == fatfs_mv(o, a, b, force)
<1>1. MayCall /\ Return(<<"mv", o, a, b>>, CloseAndMount(ses, o), r) /\ FInv
  BY DEF fat_mv, RInv
<1>2. /\ r.ok \in BOOLEAN
      /\ ~r.ok => OnlyEntry(r, o, b)
      /\ r.ok => /\ fs[o] # NoFS /\ fs[o][a] # None
                 /\ r.fs = [fs EXCEPT ![o][a] = None, ![o][b] = fs[o][a]]
  BY MvResult DEF RInv, FInv, FatTypes
<1> HIDE DEF r
<1>4. CASE r.ok = TRUE
  <2>1. Store!Completes(<<"mv", o, a, b>>, r.fs) /\ job = None /\ StoreNow = fs /\ WritingNow = None
    BY <1>1, <1>4, CompletesStep
  <2>2. Store!Mv(o, a, b)
    BY <1>2, <1>4, <2>1 DEF Store!Mv, Store!Formatted
  <2> QED BY <2>2 DEF Store!OnFile
<1>5. CASE r.ok = FALSE
  <2>1. Store!EndsBadly(o, b)
    BY <1>1, <1>2, <1>5, FailsStep
  <2> QED BY <2>1 DEF Store!OnFile
<1> QED BY <1>2, <1>4, <1>5

LEMMA StepCp ==
  ASSUME RInv, Pitfalls = {}, NEW p \in Offsets, NEW a \in Names, NEW o \in Offsets, NEW b \in Names,
         fat_cp(p, a, o, b)
  PROVE  Store!OnFile(o, b)
<1> DEFINE s1 == CloseAndMount(ses, p)
           s2 == maybe_mount(s1, o)
           q == s2.mounted[SlotOf(s1, p)]
<1>1. PICK r \in fatfs_cp(q, a, o, b) : Return(<<"cp", p, a, o, b>>, s2, r)
  BY DEF fat_cp
<1>2. MayCall /\ q = p /\ FInv
  BY DEF fat_cp, Avoided, RInv
<1>3. r \in fatfs_cp(p, a, o, b)
  BY <1>1, <1>2
<1> HIDE DEF s1, s2, q
<1>4. /\ OnlyEntry(r, o, b)
      /\ r.ok => /\ fs[p] # NoFS /\ fs[o] # NoFS /\ IsFile(fs[p][a])
                 /\ r.fs = Put(o, b, File(fs[p][a].data, FALSE))
  BY <1>3, CpResult DEF RInv, FInv, FatTypes
<1>5. CASE r.ok = TRUE
  <2>1. Store!Completes(<<"cp", p, a, o, b>>, r.fs) /\ job = None /\ StoreNow = fs /\ WritingNow = None
    BY <1>1, <1>2, <1>5, CompletesStep
  <2>2. Store!Cp(p, a, o, b)
    BY <1>4, <1>5, <2>1 DEF Store!Cp, Store!Formatted, Store!Put, Put, Store!IsFile, IsFile, Store!File, File
  <2> QED BY <2>2 DEF Store!OnFile
<1>6. CASE r.ok = FALSE
  <2>1. Store!EndsBadly(o, b)
    BY <1>1, <1>2, <1>4, <1>6, FailsStep
  <2> QED BY <2>1 DEF Store!OnFile
<1> QED BY <1>4, <1>5, <1>6 DEF OnlyEntry

LEMMA StepAttrib ==
  ASSUME RInv, Pitfalls = {}, NEW o \in Offsets, NEW n \in Names, NEW ro \in BOOLEAN, fat_attrib(o, n, ro)
  PROVE  Store!OnFile(o, n)
<1> DEFINE r0 == fatfs_attrib(o, n, ro)
           r == [r0 EXCEPT !.ok = TRUE]
<1>1. MayCall /\ Return(<<"attrib", o, n, ro>>, maybe_mount(ses, o), r) /\ r0.ok /\ FInv
  BY DEF fat_attrib, Avoided, RInv
<1>2. /\ fs[o] # NoFS /\ IsFile(fs[o][n]) => r0.fs = Put(o, n, File(fs[o][n].data, ro))
      /\ ~(fs[o] # NoFS /\ IsFile(fs[o][n])) => r0.fs = fs
      /\ r0.ok = (fs[o] # NoFS /\ fs[o][n] # None)
  BY AttribResult DEF RInv, FInv, FatTypes
<1>3. r.fs = r0.fs /\ r.ok = TRUE
  BY DEF fatfs_attrib, Result
<1> HIDE DEF r, r0
<1>4. Store!Completes(<<"attrib", o, n, ro>>, r.fs) /\ job = None /\ StoreNow = fs /\ WritingNow = None
  BY <1>1, <1>3, CompletesStep
<1>5. fs[o] # NoFS /\ fs[o][n] # None
      /\ r.fs = IF fs[o][n] = Dir THEN fs ELSE Put(o, n, File(fs[o][n].data, ro))
  BY <1>1, <1>2, <1>3 DEF IsFile
<1>6. Store!Attrib(o, n, ro)
  BY <1>4, <1>5 DEF Store!Attrib, Store!Formatted, Store!Put, Put, Store!File, File
<1> QED BY <1>6 DEF Store!OnFile

LEMMA StepMkfs ==
  ASSUME RInv, NEW o \in Offsets, fat_mkfs(o)
  PROVE  Store!OnFileSystem(o)
<1> DEFINE m == maybe_mount(ses, o)
           s == [m EXCEPT !.fil = Invalidate(@, SlotOf(m, o))]
<1>1. PICK r \in fatfs_mkfs(o) : Return(<<"mkfs", o>>, s, r)
  BY DEF fat_mkfs
<1> HIDE DEF m, s
<1>2. MayCall /\ FInv /\ job = None /\ ~failed
  BY DEF fat_mkfs, RInv, MayCall
<1>3. /\ r.ok \in BOOLEAN
      /\ r.ok => r.fs = [fs EXCEPT ![o] = [n \in Names |-> None]]
      /\ ~r.ok => r.fs \in {fs, [fs EXCEPT ![o] = NoFS]}
  BY MkfsResult DEF RInv, FInv, FatTypes
<1>4. CASE r.ok = TRUE
  <2>1. Store!Completes(<<"mkfs", o>>, r.fs) /\ job = None /\ StoreNow = fs /\ WritingNow = None
    BY <1>1, <1>2, <1>4, CompletesStep
  <2>2. Store!Mkfs(o)
    BY <1>3, <1>4, <2>1 DEF Store!Mkfs
  <2> QED BY <2>2 DEF Store!OnFileSystem
<1>5. CASE r.ok = FALSE
  <2>1. job' = None /\ fs' = r.fs /\ failed' = TRUE /\ last' = last
    BY <1>1, <1>2, <1>5 DEF Return
  <2>2. Store!MkfsFails(o)
    BY <1>2, <1>3, <1>5, <2>1 DEF Store!MkfsFails
  <2> QED BY <2>2 DEF Store!OnFileSystem
<1> QED BY <1>3, <1>4, <1>5

LEMMA StepSetlabel ==
  ASSUME RInv, NEW o \in Offsets, fat_setlabel(o)
  PROVE  Store!OnFileSystem(o)
<1> DEFINE r == fatfs_setlabel(o)
<1>1. Return(<<"setlabel", o>>, CloseAndMount(ses, o), r) /\ MayCall /\ FInv /\ job = None /\ ~failed
  BY DEF fat_setlabel, RInv, MayCall
<1>2. r.ok = (fs[o] # NoFS) /\ r.fs = fs
  BY DEF fatfs_setlabel, Result
<1> HIDE DEF r
<1>3. CASE r.ok = TRUE
  <2>1. Store!Completes(<<"setlabel", o>>, r.fs) /\ job = None /\ StoreNow = fs /\ WritingNow = None
    BY <1>1, <1>3, CompletesStep
  <2>2. Store!Setlabel(o)
    BY <1>2, <1>3, <2>1 DEF Store!Setlabel, Store!Formatted
  <2> QED BY <2>2 DEF Store!OnFileSystem
<1>4. CASE r.ok = FALSE
  <2>1. job' = None /\ fs' = fs /\ failed' = TRUE /\ last' = last
    BY <1>1, <1>2, <1>4 DEF Return
  <2>2. Store!MkfsFails(o)
    BY <1>1, <2>1 DEF Store!MkfsFails
  <2> QED BY <2>2 DEF Store!OnFileSystem
<1> QED BY <1>2, <1>3, <1>4

LEMMA StepExists ==
  ASSUME RInv, NEW o \in Offsets, fatfs_exists(o)
  PROVE  Store!OnFileSystem(o)
<1> DEFINE r == Result(TRUE, fs)
<1>1. phase = "select" /\ RInv /\ FInv /\ Return(<<"exists", o>>, CloseAndMount(ses, o), r)
  BY DEF fatfs_exists, RInv
<1>2. r.ok = TRUE /\ r.fs = fs
  BY DEF Result
<1> HIDE DEF r
<1>3. Store!Completes(<<"exists", o>>, r.fs) /\ job = None /\ StoreNow = fs /\ WritingNow = None
  BY <1>1, <1>2, CompletesStep
<1>4. Store!Exists(o)
  BY <1>2, <1>3 DEF Store!Exists
<1> QED BY <1>4 DEF Store!OnFileSystem

\* The first step of fat_write.
LEMMA StepWriteRun ==
  ASSUME RInv, RInv', Pitfalls = {}, NEW o \in Offsets, NEW n \in Names, NEW c \in Contents,
         fat_write_run(o, n, c)
  PROVE  Store!OnFile(o, n)
<1>1. /\ failed' \in BOOLEAN /\ last' = last
      /\ failed' => job' = None /\ fs' = fs
      /\ ~failed' => /\ job' = [at |-> o, name |-> n, content |-> c, ix |-> 0]
                     /\ fs[o] # NoFS
                     /\ \E e \in FileEntry : e.data = <<>> /\ fs' = With(fs, o, n, e)
  BY WriteRunEffect
<1>2. job = None /\ ~failed /\ StoreNow = fs /\ WritingNow = None
  BY Mapping DEF fat_write_run, MayCall
<1>3. CASE failed'
  <2>1. Store!EndsBadly(o, n)
    BY <1>1, <1>2, <1>3 DEF Store!EndsBadly, Store!Formatted
  <2> QED BY <2>1 DEF Store!OnFile
<1>4. CASE ~failed'
  <2>1. PICK e \in FileEntry : fs' = With(fs, o, n, e)
    BY <1>1, <1>4
  <2>2. job'.at = o /\ job'.name = n /\ job'.content = c
    BY <1>1, <1>4
  <2>3. job' # None
    <3>1. [at |-> o, name |-> n, content |-> c, ix |-> 0] \in Job
      BY DEF Job
    <3> QED BY <1>1, <1>4, <3>1, FatAssumption
  <2>4. StoreNow' = With(fs', o, n, Torn)
    BY <2>2, <2>3, MappingNext
  <2>5. With(With(fs, o, n, e), o, n, Torn) = With(fs, o, n, Torn)
    BY <1>1, <1>4, WithTwice DEF RInv, FInv, FatTypes
  <2>6. StoreNow' = [fs EXCEPT ![o][n] = Torn]
    BY <2>1, <2>4, <2>5 DEF With
  <2>7. WritingNow' = [at |-> o, name |-> n, content |-> c]
    BY <2>2, <2>3, MappingNext
  <2>8. /\ WritingNow = None /\ ~failed /\ StoreNow[o] # NoFS
        /\ StoreNow' = [StoreNow EXCEPT ![o][n] = Torn]
        /\ WritingNow' = [at |-> o, name |-> n, content |-> c]
        /\ failed' = failed /\ last' = last
    BY <1>1, <1>2, <1>4, <2>6, <2>7 DEF RInv, FInv, FatTypes
  <2>9. Store!BeginWrite(o, n, c)
    BY <2>8 DEF Store!BeginWrite, Store!Formatted, Store!Put, StoreNow, WritingNow
  <2> QED BY <2>9 DEF Store!OnFile
<1> QED BY <1>1, <1>3, <1>4

\* A fat_write that ends badly.
LEMMA StepWriteFails ==
  ASSUME RInv, job # None, job' = None, failed' = TRUE, last' = last, KeepsOthers(fs', job.at, job.name)
  PROVE  Store!Next
<1> DEFINE o == job.at
           n == job.name
<1>1. o \in Offsets /\ n \in Names /\ fs \in FileSystems /\ fs[o] # NoFS /\ failed = FALSE
  BY JobFacts
<1>2. StoreNow = With(fs, o, n, Torn) /\ WritingNow.at = o /\ WritingNow.name = n
  BY Mapping
<1>3. StoreNow' = fs' /\ WritingNow' = None
  BY DEF StoreNow, WritingNow
<1> HIDE DEF o, n
<1>4. /\ \A p \in Offsets \ {o} : StoreNow[p] = fs[p]
      /\ \A m \in Names \ {n} : StoreNow[o][m] = fs[o][m]
      /\ StoreNow[o] # NoFS
  BY <1>1, <1>2, PutFields, TornFormatted
<1>5. /\ \A p \in Offsets \ {o} : fs'[p] = fs[p]
      /\ \A m \in Names \ {n} : fs'[o][m] = fs[o][m]
  BY <1>1 DEF KeepsOthers, o, n
<1>6. /\ WritingNow # None => WritingNow.at = o /\ WritingNow.name = n
      /\ ~failed /\ failed' /\ WritingNow' = None /\ last' = last
      /\ \A p \in Offsets \ {o} : StoreNow'[p] = StoreNow[p]
      /\ IF StoreNow[o] # NoFS THEN \A m \in Names \ {n} : StoreNow'[o][m] = StoreNow[o][m]
         ELSE StoreNow'[o] = StoreNow[o]
  BY <1>1, <1>2, <1>3, <1>4, <1>5
<1>7. Store!EndsBadly(o, n)
  BY <1>6 DEF Store!EndsBadly, Store!Formatted, StoreNow, WritingNow
<1> QED BY <1>1, <1>7 DEF Store!Next, Store!OnFileSystem, Store!OnFile

\* A fat_write that ends well.
LEMMA StepWriteEnds ==
  ASSUME RInv, job # None, job' = None, failed' = FALSE, last' = <<"write", job.at, job.name>>,
         NEW ro \in BOOLEAN, fs' = With(fs, job.at, job.name, File(Store!Filled(job.content), ro))
  PROVE  Store!EndWrite
<1> DEFINE o == job.at
           n == job.name
           e == File(Store!Filled(job.content), ro)
<1>1. o \in Offsets /\ n \in Names /\ fs \in FileSystems /\ fs[o] # NoFS /\ failed = FALSE
  BY JobFacts
<1>2. /\ StoreNow = With(fs, o, n, Torn) /\ WritingNow.at = o /\ WritingNow.name = n
      /\ WritingNow.content = job.content /\ WritingNow # None
  BY Mapping
<1>3. StoreNow' = fs' /\ WritingNow' = None
  BY DEF StoreNow, WritingNow
<1> HIDE DEF o, n, e
<1>4. With(StoreNow, o, n, e) = With(fs, o, n, e)
  BY <1>1, <1>2, WithTwice
<1>5. StoreNow' = [StoreNow EXCEPT ![o][n] = e]
  BY <1>3, <1>4 DEF With, o, n, e
<1>6. /\ WritingNow # None /\ ~failed /\ failed' = FALSE /\ WritingNow' = None
      /\ StoreNow' = [StoreNow EXCEPT ![WritingNow.at][WritingNow.name] = File(Store!Filled(WritingNow.content), ro)]
      /\ last' = <<"write", WritingNow.at, WritingNow.name>>
  BY <1>1, <1>2, <1>3, <1>5 DEF o, n, e
<1> QED BY <1>6 DEF Store!EndWrite, Store!Completes, Store!Put, Store!File, File, StoreNow, WritingNow

LEMMA RefInit == Init => Store!Init
<1> SUFFICES ASSUME Init PROVE Store!Init
  OBVIOUS
<1>1. job = None /\ failed = FALSE /\ last = None
  BY DEF Init
<1>2. DOMAIN fs = Offsets /\ \A o \in Offsets : fs[o] \in Before(o)
  BY DEF Init
<1>3. \A o \in Offsets : fs[o] \in Store!Before(o)
  BY <1>2 DEF Before, File, Store!Before, Store!File
<1> QED BY <1>1, <1>2, <1>3 DEF Store!Init

LEMMA StutterStep ==
  ASSUME StoreNow' = StoreNow, WritingNow' = WritingNow, failed' = failed, last' = last
  PROVE  UNCHANGED Store!storeVars
BY DEF Store!storeVars, StoreNow, WritingNow

LEMMA StepUnit ==
  ASSUME RInv, RInv', fat_write_pwrite_callback
  PROVE  [Store!Next]_Store!storeVars
<1> DEFINE o == job.at
           n == job.name
           next == [job EXCEPT !.ix = @ + 1]
           e == File(WithData(fs[o][n].data, job.ix, <<Unit>>), fs[o][n].ro)
<1>1. job # None /\ job.ix < Len(job.content) /\ Pwrite(job.ix, <<Unit>>, next)
  BY DEF fat_write_pwrite_callback
<1>2. /\ job \in Job /\ o \in Offsets /\ n \in Names /\ job.ix \in Nat
      /\ job.content \in Seq(Data) /\ Len(job.content) \in Nat
      /\ fs \in FileSystems /\ fs[o] # NoFS /\ failed = FALSE
  BY <1>1, JobFacts
<1>3. <<Unit>> \in Seq(Data)
  <2>1. job.ix + 1 \in 1 .. Len(job.content)
    BY <1>1, <1>2
  <2>2. Unit \in Data
    BY <1>2, <2>1, ElementOfSeq DEF Unit
  <2> QED BY <2>2
<1>4. next \in Job /\ next.at = o /\ next.name = n /\ next.content = job.content
  BY <1>2 DEF Job
<1>5. next # None
  BY <1>4, FatAssumption
<1>6. FInv'
  BY DEF RInv
<1>7. /\ failed' \in BOOLEAN
      /\ failed' => job' = None /\ last' = last /\ KeepsOthers(fs', o, n)
      /\ ~failed' => /\ job' = next /\ fs' = With(fs, o, n, e)
                     /\ last' = IF next = None THEN <<"write", o, n>> ELSE last
  BY <1>1, <1>2, <1>3, <1>6, PwriteEffect
<1>8. CASE failed'
  <2>1. failed' = TRUE
    BY <1>7, <1>8
  <2>2. Store!Next
    BY <1>1, <1>7, <1>8, <2>1, StepWriteFails
  <2> QED BY <2>2
<1>9. CASE ~failed'
  <2> HIDE DEF next, e
  <2>1. job' = next /\ job' # None /\ last' = last /\ failed' = failed /\ fs' = With(fs, o, n, e)
    BY <1>2, <1>5, <1>7, <1>9
  <2>2. job'.at = o /\ job'.name = n /\ job'.content = job.content
    BY <1>4, <2>1
  <2>3. StoreNow = With(fs, o, n, Torn) /\ WritingNow = [at |-> o, name |-> n, content |-> job.content]
    BY <1>1, Mapping
  <2>4. StoreNow' = With(fs', o, n, Torn) /\ WritingNow' = [at |-> o, name |-> n, content |-> job.content]
    BY <2>1, <2>2, MappingNext
  <2>5. With(With(fs, o, n, e), o, n, Torn) = With(fs, o, n, Torn)
    BY <1>2, WithTwice
  <2>6. StoreNow' = StoreNow /\ WritingNow' = WritingNow
    BY <2>1, <2>3, <2>4, <2>5
  <2>7. UNCHANGED Store!storeVars
    BY <2>1, <2>6, StutterStep
  <2> QED BY <2>7
<1> QED BY <1>7, <1>8, <1>9

LEMMA StepLastHole ==
  ASSUME RInv, RInv', fat_write_final_hole_callback
  PROVE  Store!Next
<1> DEFINE o == job.at
           n == job.name
           new == WithData(fs[o][n].data, job.ix, <<>>)
<1>1. job # None /\ job.ix = Len(job.content) /\ Pwrite(job.ix, <<>>, None)
  BY DEF fat_write_final_hole_callback
<1>2. /\ o \in Offsets /\ n \in Names /\ job.ix \in Nat /\ job.content \in Seq(Data)
      /\ fs \in FileSystems /\ fs[o] # NoFS /\ failed = FALSE
      /\ fs[o][n].data \in Seq(Data) /\ fs[o][n].ro \in BOOLEAN
      /\ WrittenSoFar(fs[o][n].data, job.content, Len(job.content))
  BY <1>1, JobFacts
<1>3. <<>> \in Seq(Data) /\ FInv'
  BY DEF RInv
<1>4. /\ failed' \in BOOLEAN
      /\ failed' => job' = None /\ last' = last /\ KeepsOthers(fs', o, n)
      /\ ~failed' => /\ job' = None /\ fs' = With(fs, o, n, File(new, fs[o][n].ro))
                     /\ last' = <<"write", o, n>>
  BY <1>1, <1>2, <1>3, PwriteEffect
<1>5. new = Store!Filled(job.content)
  BY <1>1, <1>2, LastHoleWritten
<1>6. CASE failed'
  <2>1. failed' = TRUE
    BY <1>4, <1>6
  <2> QED BY <1>1, <1>4, <1>6, <2>1, StepWriteFails
<1>7. CASE ~failed'
  <2> HIDE DEF new
  <2>1. /\ failed' = FALSE /\ job' = None /\ last' = <<"write", job.at, job.name>>
        /\ fs' = With(fs, job.at, job.name, File(Store!Filled(job.content), fs[o][n].ro))
    BY <1>4, <1>5, <1>7
  <2>2. Store!EndWrite
    BY <1>1, <1>2, <2>1, StepWriteEnds
  <2> QED BY <2>2 DEF Store!Next
<1> QED BY <1>4, <1>6, <1>7

LEMMA StepWriteDone ==
  ASSUME RInv, fat_write_done
  PROVE  Store!Next
<1> DEFINE o == job.at
           n == job.name
<1>1. /\ job # None /\ job.ix = Len(job.content) /\ ~EndsInHole(job.content)
      /\ job' = None /\ last' = <<"write", job.at, job.name>> /\ fs' = fs /\ failed' = failed
  BY DEF fat_write_done
<1>2. /\ o \in Offsets /\ n \in Names /\ job.content \in Seq(Data)
      /\ fs \in FileSystems /\ fs[o] # NoFS /\ failed = FALSE /\ fs[o][n] \in FileEntry
      /\ fs[o][n].data \in Seq(Data) /\ fs[o][n].ro \in BOOLEAN
      /\ WrittenSoFar(fs[o][n].data, job.content, Len(job.content))
  BY <1>1, JobFacts
<1>3. fs[o][n].data = Store!Filled(job.content)
  BY <1>1, <1>2, LastUnitWritten
<1>4. fs[o][n] = File(fs[o][n].data, fs[o][n].ro)
  BY <1>2, Entries
<1>5. With(fs, o, n, fs[o][n]) = fs
  BY <1>2, WithTwice
<1>6. fs' = With(fs, job.at, job.name, File(Store!Filled(job.content), fs[o][n].ro))
  BY <1>1, <1>3, <1>4, <1>5
<1>7. Store!EndWrite
  BY <1>1, <1>2, <1>6, StepWriteEnds
<1> QED BY <1>7 DEF Store!Next

LEMMA RefNext ==
  ASSUME Pitfalls = {}, RInv, [Next]_vars
  PROVE  [Store!Next]_Store!storeVars
<1>0. RInv'
  BY RInvNext
<1>1. ASSUME NEW o \in Offsets, OnFileSystem(o) PROVE [Store!Next]_Store!storeVars
  <2>1. CASE fatfs_exists(o) \/ fat_mkfs(o) \/ fat_setlabel(o)
    <3>1. Store!OnFileSystem(o)
      BY <2>1, StepExists, StepMkfs, StepSetlabel
    <3> QED BY <3>1 DEF Store!Next
  <2>2. ASSUME NEW n \in Names, OnFile(o, n) PROVE [Store!Next]_Store!storeVars
    <3> SUFFICES ASSUME ~xdelta_read_fat_callback(o, n)
                 PROVE  \E p \in Offsets, m \in Names : Store!OnFile(p, m)
      <4>1. CASE xdelta_read_fat_callback(o, n)
        <5>1. /\ ses' = maybe_mount(ses, o) /\ fs' = fs /\ job # None /\ last' = last
              /\ \/ failed' = TRUE /\ job' = None
                 \/ failed' = FALSE /\ job' = job
          BY <4>1 DEF xdelta_read_fat_callback
        <5>2. failed = FALSE /\ fs \in FileSystems /\ fs[job.at] # NoFS
          BY <5>1, JobFacts
        <5>3. CASE failed' = TRUE /\ job' = None
          <6>1. KeepsOthers(fs', job.at, job.name)
            BY <5>1, <5>2 DEF KeepsOthers
          <6>2. Store!Next
            BY <5>1, <5>3, <6>1, StepWriteFails
          <6> QED BY <6>2
        <5>4. CASE failed' = FALSE /\ job' = job
          <6>1. StoreNow' = StoreNow /\ WritingNow' = WritingNow
            BY <5>1, <5>4 DEF StoreNow, WritingNow, Put
          <6> QED BY <5>1, <5>2, <5>4, <6>1, StutterStep
        <5> QED BY <5>1, <5>3, <5>4
      <4>2. (\E p \in Offsets, m \in Names : Store!OnFile(p, m)) => Store!Next
        BY DEF Store!Next, Store!OnFileSystem
      <4> QED BY <4>1, <4>2
    <3>1. CASE fat_mkdir(o, n)
      BY <3>1, StepMkdir
    <3>2. CASE fat_touch(o, n)
      BY <3>2, StepTouch
    <3>3. ASSUME NEW must \in BOOLEAN, fat_rm(o, n, must)
          PROVE  \E p \in Offsets, m \in Names : Store!OnFile(p, m)
      BY <3>3, StepRm
    <3>4. ASSUME NEW b \in Names, NEW force \in BOOLEAN, fat_mv(o, n, b, force)
          PROVE  \E p \in Offsets, m \in Names : Store!OnFile(p, m)
      BY <3>4, StepMv
    <3>5. ASSUME NEW q \in Offsets, NEW b \in Names, fat_cp(o, n, q, b)
          PROVE  \E p \in Offsets, m \in Names : Store!OnFile(p, m)
      BY <3>5, StepCp
    <3>6. ASSUME NEW ro \in BOOLEAN, fat_attrib(o, n, ro)
          PROVE  \E p \in Offsets, m \in Names : Store!OnFile(p, m)
      BY <3>6, StepAttrib
    <3>7. ASSUME NEW c \in Contents, fat_write_run(o, n, c)
          PROVE  \E p \in Offsets, m \in Names : Store!OnFile(p, m)
      BY <1>0, <3>7, StepWriteRun
    <3> QED BY <2>2, <3>1, <3>2, <3>3, <3>4, <3>5, <3>6, <3>7 DEF OnFile
  <2> QED BY <1>1, <2>1, <2>2 DEF OnFileSystem
<1>2. CASE fat_write_pwrite_callback
  BY <1>0, <1>2, StepUnit
<1>3. CASE SkipHole
  <2>1. /\ job # None /\ job' = [job EXCEPT !.ix = @ + 1]
        /\ fs' = fs /\ failed' = failed /\ last' = last
    BY <1>3 DEF SkipHole
  <2>2. job \in Job
    BY <2>1, JobFacts
  <2>3. job' \in Job /\ job'.at = job.at /\ job'.name = job.name /\ job'.content = job.content
    BY <2>1, <2>2 DEF Job
  <2>4. job' # None
    BY <2>3, FatAssumption
  <2>5. StoreNow' = StoreNow /\ WritingNow' = WritingNow
    BY <2>1, <2>3, <2>4 DEF StoreNow, WritingNow, Put
  <2> QED BY <2>1, <2>5, StutterStep
<1>4. CASE fat_write_final_hole_callback
  BY <1>0, <1>4, StepLastHole
<1>5. CASE fat_write_done
  BY <1>5, StepWriteDone
<1>6. CASE fat_write_fails
  <2>1. job # None /\ job' = None /\ failed' = TRUE /\ last' = last /\ fs' = fs
    BY <1>6 DEF fat_write_fails
  <2>2. fs \in FileSystems /\ fs[job.at] # NoFS
    BY <2>1, JobFacts
  <2>3. KeepsOthers(fs', job.at, job.name)
    BY <2>1, <2>2 DEF KeepsOthers
  <2>4. Store!Next
    BY <2>1, <2>3, StepWriteFails
  <2> QED BY <2>4
<1>7. CASE find_task
  <2>1. fs' = fs /\ job' = job /\ failed' = failed /\ last' = last
    BY <1>7 DEF find_task
  <2>2. StoreNow' = StoreNow /\ WritingNow' = WritingNow
    BY <2>1 DEF StoreNow, WritingNow, Put
  <2> QED BY <2>1, <2>2, StutterStep
<1>8. CASE fatfs_closefs
  <2>1. fs' = fs /\ job' = job /\ failed' = FALSE /\ last' = last /\ failed \in BOOLEAN
    BY <1>8 DEF fatfs_closefs, RInv, FInv, FatTypes
  <2>2. StoreNow' = StoreNow /\ WritingNow' = WritingNow
    BY <2>1 DEF StoreNow, WritingNow, Put
  <2>3. CASE failed
    <3>1. Store!Recover
      BY <2>1, <2>2, <2>3 DEF Store!Recover, StoreNow, WritingNow
    <3> QED BY <3>1 DEF Store!Next
  <2>4. CASE ~failed
    <3>1. failed' = failed
      BY <2>1, <2>4
    <3> QED BY <2>1, <2>2, <3>1, StutterStep
  <2> QED BY <2>3, <2>4
<1>9. CASE Done \/ UNCHANGED vars
  <2>1. fs' = fs /\ job' = job /\ failed' = failed /\ last' = last
    BY <1>9 DEF Done, vars
  <2>2. StoreNow' = StoreNow /\ WritingNow' = WritingNow
    BY <2>1 DEF StoreNow, WritingNow, Put
  <2> QED BY <2>1, <2>2, StutterStep
<1> QED BY <1>1, <1>2, <1>3, <1>4, <1>5, <1>6, <1>7, <1>8, <1>9 DEF Next

\* The session of fatfs.c implements FatStore when the three traps of the code
\* are not stepped into: every fat_* function that succeeds has done what
\* README.md says to the file it names and nothing else, and one that fails has
\* touched at most that file, however many file systems share the four mounts.
THEOREM SessionImplementsStore ==
  ASSUME Pitfalls = {}
  PROVE  Spec => ImplementsStore
<1>1. Init => RInv /\ Store!Init
  BY RInvInit, RefInit
<1>2. RInv /\ [Next]_vars => RInv' /\ [Store!Next]_Store!storeVars
  BY RInvNext, RefNext
<1> QED BY <1>1, <1>2, PTL DEF Spec, ImplementsStore, Store!Spec
=============================================================================
