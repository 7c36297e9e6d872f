---------------------------- MODULE DeltaProofs ----------------------------
(***************************************************************************)
(* Proofs about delta updates, for any device, cache size, layout and      *)
(* patch: what xdelta_read returns is the new image, and what the device   *)
(* holds is the new image in its place and the old contents elsewhere.     *)
(***************************************************************************)
EXTENDS Delta, FiniteSetTheorems, NaturalsInduction, SequenceTheorems, TLAPS

----------------------------------------------------------------------------
(* What a cache holds                                                      *)

Kinds == {"noise", "old", "new", "other", "updated"}
Content == [lba : Int, v : [at : Int, of : Kinds]]
Disk == [Blocks -> Content]
SegNo == {SegOf(b) : b \in Blocks}
Segment == [at : SegNo, data : [InSegment -> Content], valid : SUBSET InSegment,
            dirty : SUBSET InSegment, streamed : BOOLEAN]
CacheState == [dev : Disk, segs : Seq(Segment)]

\* What the cache shows of block b of a device with contents D, if the
\* segments in enc are decrypted with base_offset src.
View(D, enc, src, b) == IF SegOf(b) \in enc THEN disk_crypto_decrypt(D[b], src, b) ELSE D[b]

\* A segment shows what it should.  Only blocks of R are dirty, and none of a
\* segment that was decrypted.
SegRight(seg, D, enc, src, R) ==
  /\ seg.dirty \subseteq seg.valid
  /\ \A i \in seg.dirty : Block(seg.at, i) \in R
  /\ seg.at \in enc => seg.dirty = {}
  /\ \A i \in seg.valid : seg.data[i] = View(D, enc, src, Block(seg.at, i))

\* Block b waits in the cache c to be written.
DirtyAt(c, b) == \E k \in DOMAIN c.segs : c.segs[k].at = SegOf(b) /\ (b % SegBlocks) \in c.segs[k].dirty

\* Cache and device together hold D.
Holds(c, D, enc, src, R) ==
  /\ c \in CacheState
  /\ \A j, k \in DOMAIN c.segs : c.segs[j].at = c.segs[k].at => j = k
  /\ \A k \in DOMAIN c.segs : SegRight(c.segs[k], D, enc, src, R)
  /\ \A b \in Blocks : c.dev[b] = D[b] \/ DirtyAt(c, b)

\* The segments in use.
InUse(c) == {c.segs[k].at : k \in DOMAIN c.segs}

----------------------------------------------------------------------------
(* Numbers and sequences                                                   *)

LEMMA Sizes == /\ SegBlocks \in Nat \ {0} /\ DevBlocks \in Nat \ {0}
               /\ ReadBlocks \in Nat \ {0} /\ MaxReturn \in Nat \ {0} /\ (DevBlocks % SegBlocks) = 0
BY DeltaAssumption

\* Division by the size of a segment.
LEMMA Division ==
  ASSUME NEW x \in Nat, NEW d \in Nat \ {0}
  PROVE  /\ x \div d \in Nat /\ (x % d) \in 0 .. d - 1
         /\ (x \div d) * d + (x % d) = x
OBVIOUS

LEMMA Recompose ==
  ASSUME NEW q \in Nat, NEW d \in Nat \ {0}, NEW r \in 0 .. d - 1
  PROVE  /\ q * d + r \in Nat
         /\ (q * d + r) \div d = q /\ ((q * d + r) % d) = r
OBVIOUS

\* A block is a segment and a place in it.
LEMMA Geometry ==
  /\ \A b \in Blocks : SegOf(b) \in SegNo /\ (b % SegBlocks) \in InSegment /\ Block(SegOf(b), (b % SegBlocks)) = b
  /\ \A s \in SegNo, i \in InSegment : /\ Block(s, i) \in Blocks /\ SegOf(Block(s, i)) = s
                                       /\ (Block(s, i) % SegBlocks) = i
<1>0. SegBlocks \in Nat \ {0} /\ DevBlocks \in Nat \ {0} /\ (DevBlocks % SegBlocks) = 0
  BY Sizes
<1>1. ASSUME NEW b \in Blocks
      PROVE  SegOf(b) \in SegNo /\ (b % SegBlocks) \in InSegment /\ Block(SegOf(b), (b % SegBlocks)) = b
  <2>1. b \in Nat
    BY <1>0 DEF Blocks
  <2> QED BY <1>0, <2>1, Division DEF SegNo, SegOf, InSegment, Block
<1>2. ASSUME NEW s \in SegNo, NEW i \in InSegment
      PROVE  Block(s, i) \in Blocks /\ SegOf(Block(s, i)) = s /\ (Block(s, i) % SegBlocks) = i
  <2>1. PICK b \in Blocks : s = SegOf(b)
    BY DEF SegNo
  <2>2. b \in Nat /\ b < DevBlocks
    BY <1>0 DEF Blocks
  <2>3. s \in Nat /\ s * SegBlocks + (b % SegBlocks) = b /\ (b % SegBlocks) \in 0 .. SegBlocks - 1
    BY <1>0, <2>1, <2>2, Division DEF SegOf
  <2>4. PICK q \in Nat : q = DevBlocks \div SegBlocks
    BY <1>0, Division
  <2>5. q * SegBlocks = DevBlocks
    <3>1. (DevBlocks \div SegBlocks) * SegBlocks + (DevBlocks % SegBlocks) = DevBlocks
      BY <1>0, Division
    <3> QED BY <1>0, <2>4, <3>1
  <2>6. s < q
    <3>1. s * SegBlocks < q * SegBlocks
      BY <1>0, <2>2, <2>3, <2>4, <2>5
    <3>2. \A x, y, d \in Nat : x >= y => x * d >= y * d
      OBVIOUS
    <3> QED BY <1>0, <2>3, <2>4, <3>1, <3>2
  <2>7. s * SegBlocks + SegBlocks <= q * SegBlocks
    <3>1. \A x, y, d \in Nat : x < y => x * d + d <= y * d
      OBVIOUS
    <3> QED BY <1>0, <2>3, <2>4, <2>6, <3>1
  <2>8. i \in 0 .. SegBlocks - 1
    BY DEF InSegment
  <2>9. Block(s, i) \in Nat /\ SegOf(Block(s, i)) = s /\ (Block(s, i) % SegBlocks) = i
    BY <1>0, <2>3, <2>8, Recompose DEF Block, SegOf
  <2>10. Block(s, i) < DevBlocks
    BY <1>0, <2>3, <2>5, <2>7, <2>8, <2>9 DEF Block
  <2> QED BY <1>0, <2>9, <2>10 DEF Blocks
<1> QED BY <1>1, <1>2

\* A set of numbers has a least one.
LEMMA LeastNumber ==
  ASSUME NEW S, S \subseteq Nat, S # {}
  PROVE  \E x \in S : \A y \in S : x <= y
<1> DEFINE R == OpToRel(<, Nat)
<1>1. IsWellFoundedOn(R, Nat)
  BY NatLessThanWellFounded
<1> HIDE DEF R
<1>2. PICK x \in S : \A y \in S : ~(<<y, x>> \in R)
  BY <1>1, WFMin
<1>3. \A y \in S : <<y, x>> \in R <=> y < x
  BY DEF R, OpToRel
<1>4. x \in Nat /\ \A y \in S : y \in Nat /\ ~(y < x)
  BY <1>2, <1>3
<1> QED BY <1>4

\* The element at k is moved to the end.
LEMMA MovedLast ==
  ASSUME NEW T, NEW s \in Seq(T), NEW k \in 1 .. Len(s)
  PROVE  LET t == RemoveAt(s, k) \o <<s[k]>>
         IN  /\ t \in Seq(T) /\ Len(t) = Len(s) /\ t[Len(s)] = s[k]
             /\ \A j \in 1 .. Len(s) - 1 : t[j] = IF j < k THEN s[j] ELSE s[j + 1]
<1> DEFINE n == Len(s)
           a == SubSeq(s, 1, k - 1)
           b == SubSeq(s, k + 1, n)
           t == (a \o b) \o <<s[k]>>
<1>0. n \in Nat /\ s[k] \in T
  BY ElementOfSeq, LenProperties
<1>1. a \in Seq(T) /\ Len(a) = k - 1 /\ \A j \in 1 .. k - 1 : a[j] = s[j]
  BY <1>0, SubSeqProperties
<1>2. b \in Seq(T) /\ Len(b) = n - k /\ \A j \in 1 .. n - k : b[j] = s[k + j]
  <2>1. CASE k = n
    BY <1>0, <2>1, SubSeqProperties
  <2>2. CASE k < n
    BY <1>0, <2>2, SubSeqProperties
  <2> QED BY <1>0, <2>1, <2>2
<1> HIDE DEF a, b
<1>3. a \o b \in Seq(T) /\ Len(a \o b) = n - 1
      /\ \A j \in 1 .. n - 1 : (a \o b)[j] = IF j <= k - 1 THEN a[j] ELSE b[j - (k - 1)]
  <2>1. /\ a \o b \in Seq(T) /\ Len(a \o b) = Len(a) + Len(b)
        /\ \A j \in 1 .. Len(a) + Len(b) : (a \o b)[j] = IF j <= Len(a) THEN a[j] ELSE b[j - Len(a)]
    BY <1>1, <1>2, ConcatProperties
  <2>2. Len(a) + Len(b) = n - 1
    BY <1>0, <1>1, <1>2
  <2> QED BY <1>1, <2>1, <2>2
<1>4. \A j \in 1 .. n - 1 : (a \o b)[j] = IF j < k THEN s[j] ELSE s[j + 1]
  <2> SUFFICES ASSUME NEW j \in 1 .. n - 1 PROVE (a \o b)[j] = IF j < k THEN s[j] ELSE s[j + 1]
    OBVIOUS
  <2>1. CASE j < k
    BY <1>0, <1>1, <1>3, <2>1
  <2>2. CASE ~(j < k)
    <3>1. j - (k - 1) \in 1 .. n - k /\ k + (j - (k - 1)) = j + 1
      BY <1>0, <2>2
    <3>2. b[j - (k - 1)] = s[j + 1]
      BY <1>2, <3>1
    <3> QED BY <1>0, <1>3, <2>2, <3>2
  <2> QED BY <2>1, <2>2
<1> DEFINE ab == a \o b
<1> HIDE DEF ab
<1>5. /\ ab \o <<s[k]>> \in Seq(T) /\ Len(ab \o <<s[k]>>) = n
      /\ (ab \o <<s[k]>>)[n] = s[k]
      /\ \A j \in 1 .. n - 1 : (ab \o <<s[k]>>)[j] = ab[j]
  <2>1. ab \in Seq(T) /\ Len(ab) = n - 1
    BY <1>3 DEF ab
  <2>2. <<s[k]>> \in Seq(T) /\ Len(<<s[k]>>) = 1 /\ <<s[k]>>[1] = s[k]
    BY <1>0
  <2>3. PICK e \in Seq(T) : e = <<s[k]>> /\ Len(e) = 1 /\ e[1] = s[k]
    BY <2>2
  <2>4. PICK u : u = ab \o e
    OBVIOUS
  <2>5. /\ u \in Seq(T) /\ Len(u) = Len(ab) + Len(e)
        /\ \A j \in 1 .. Len(ab) + Len(e) : u[j] = IF j <= Len(ab) THEN ab[j] ELSE e[j - Len(ab)]
    BY <2>1, <2>4, ConcatProperties
  <2>6. Len(u) = n /\ \A j \in 1 .. n : u[j] = IF j <= n - 1 THEN ab[j] ELSE e[j - (n - 1)]
    BY <1>0, <2>1, <2>3, <2>5
  <2>7. n \in 1 .. n /\ ~(n <= n - 1) /\ n - (n - 1) = 1
    BY <1>0
  <2>8. u[n] = s[k]
    BY <2>3, <2>6, <2>7
  <2>9. ASSUME NEW j \in 1 .. n - 1 PROVE u[j] = ab[j]
    <3>1. j \in 1 .. n /\ j <= n - 1
      BY <1>0, <2>9
    <3> QED BY <2>6, <3>1
  <2> QED BY <2>3, <2>4, <2>5, <2>6, <2>8, <2>9
<1> QED BY <1>4, <1>5 DEF RemoveAt, a, b, ab

----------------------------------------------------------------------------
(* The operations of the cache                                             *)

LEMMA NoiseTyped == Noise \in Content
<1>1. Off \in Int
  BY Sizes DEF Off
<1>2. [at |-> Off, of |-> "noise"] \in [at : Int, of : Kinds]
  BY <1>1 DEF Kinds
<1> HIDE DEF Off
<1> QED BY <1>1, <1>2 DEF Noise, Plain, Content

LEMMA CryptoTyped ==
  ASSUME NEW c \in Content, NEW base \in Int, NEW b \in Int
  PROVE  disk_crypto_decrypt(c, base, b) \in Content /\ disk_crypto_encrypt(c, base, b) \in Content
<1>1. Off \in Int /\ b - base \in Int
  BY Sizes DEF Off
<1>2. PICK v \in [at : Int, of : Kinds] : v = c.v
  BY DEF Content
<1>3. [lba |-> b - base, v |-> v] \in Content /\ [lba |-> Off, v |-> v] \in Content
  BY <1>1, <1>2 DEF Content
<1> QED BY <1>2, <1>3, NoiseTyped DEF disk_crypto_decrypt, disk_crypto_encrypt, Plain

\* The base_offset with which segment s is read.
KeyOf(s, enc, src) == IF s \in enc THEN src ELSE Off
HasKey(base, s, enc, src) == base = KeyOf(s, enc, src)

\* The fields of a segment, and of what the operations make of it.
LEMMA SegmentFields ==
  ASSUME NEW seg \in Segment
  PROVE  /\ seg.at \in SegNo /\ seg.data \in [InSegment -> Content] /\ seg.valid \subseteq InSegment
         /\ seg.dirty \subseteq InSegment /\ seg.streamed \in BOOLEAN
BY DEF Segment

LEMMA FreshSegment ==
  ASSUME NEW s \in SegNo
  PROVE  Fresh(s) \in Segment /\ Fresh(s).at = s /\ Fresh(s).valid = {} /\ Fresh(s).dirty = {}
BY NoiseTyped DEF Fresh, Segment

\* read_segment gives what the cache should show, where the device has it.
LEMMA ReadRight ==
  ASSUME NEW c \in CacheState, NEW s \in SegNo, NEW enc, NEW src \in Nat, NEW D \in Disk
  PROVE  LET loaded == read_segment(c, s, KeyOf(s, enc, src))
         IN  /\ loaded \in [InSegment -> Content]
             /\ \A i \in InSegment : c.dev[Block(s, i)] = D[Block(s, i)] =>
                                     loaded[i] = View(D, enc, src, Block(s, i))
<1> DEFINE base == KeyOf(s, enc, src)
           loaded == read_segment(c, s, base)
<1>0. src # Off /\ src \in Int /\ Off \in Int
  BY Sizes DEF Off
<1>1. ASSUME NEW i \in InSegment
      PROVE  /\ loaded[i] \in Content
             /\ c.dev[Block(s, i)] = D[Block(s, i)] => loaded[i] = View(D, enc, src, Block(s, i))
  <2>1. Block(s, i) \in Blocks /\ SegOf(Block(s, i)) = s
    BY Geometry
  <2>2. PICK b \in Blocks : b = Block(s, i)
    BY <2>1
  <2>3. b \in Int /\ c.dev[b] \in Content
    BY Sizes DEF CacheState, Disk, Blocks
  <2>4. loaded[i] = IF base = Off THEN c.dev[b] ELSE disk_crypto_decrypt(c.dev[b], base, b)
    BY <2>2 DEF read_segment
  <2>5. CASE s \in enc
    <3>1. base = src /\ loaded[i] = disk_crypto_decrypt(c.dev[b], src, b)
      BY <1>0, <2>4, <2>5 DEF KeyOf
    <3> QED BY <1>0, <2>1, <2>2, <2>3, <2>5, <3>1, CryptoTyped DEF View
  <2>6. CASE s \notin enc
    <3>1. base = Off /\ loaded[i] = c.dev[b]
      BY <1>0, <2>4, <2>6 DEF KeyOf
    <3> QED BY <2>1, <2>2, <2>3, <2>6, <3>1 DEF View
  <2> QED BY <2>5, <2>6
<1>2. loaded = [i \in InSegment |-> loaded[i]]
  BY DEF read_segment
<1> HIDE DEF loaded
<1>3. loaded \in [InSegment -> Content]
  BY <1>1, <1>2
<1> QED BY <1>1, <1>3 DEF loaded, base

\* make_segment_valid: the rest of a segment is loaded as it should be.
RestLoadable(c, seg, D) == \A i \in InSegment \ seg.valid : c.dev[Block(seg.at, i)] = D[Block(seg.at, i)]
LEMMA ValidRight ==
  ASSUME NEW c \in CacheState, NEW seg \in Segment, NEW enc, NEW src \in Nat, NEW D \in Disk, NEW R,
         NEW base, base = KeyOf(seg.at, enc, src) \/ seg.valid = InSegment,
         SegRight(seg, D, enc, src, R),
         RestLoadable(c, seg, D),
         NEW v, v = make_segment_valid(c, seg, base)
  PROVE  /\ v \in Segment /\ v.at = seg.at /\ v.valid = InSegment /\ v.dirty = seg.dirty
         /\ v.streamed = seg.streamed
         /\ SegRight(v, D, enc, src, R)
<1>0. /\ seg.at \in SegNo /\ seg.data \in [InSegment -> Content] /\ seg.valid \subseteq InSegment
      /\ seg.dirty \subseteq InSegment /\ seg.streamed \in BOOLEAN
  BY SegmentFields
<1>1. CASE seg.valid = InSegment
  BY <1>1 DEF make_segment_valid
<1>2. CASE seg.valid # InSegment
  <2> DEFINE loaded == read_segment(c, seg.at, base)
             data == [i \in InSegment |-> IF i \in seg.valid THEN seg.data[i] ELSE loaded[i]]
  <2>1. base = KeyOf(seg.at, enc, src)
    BY <1>2
  <2>2. /\ loaded \in [InSegment -> Content]
        /\ \A i \in InSegment : c.dev[Block(seg.at, i)] = D[Block(seg.at, i)] =>
                                loaded[i] = View(D, enc, src, Block(seg.at, i))
    BY <1>0, <2>1, ReadRight
  <2>3. v = [seg EXCEPT !.data = data, !.valid = InSegment]
    BY <1>2 DEF make_segment_valid
  <2> HIDE DEF loaded
  <2>4. data \in [InSegment -> Content]
    BY <1>0, <2>2
  <2>5. \A i \in InSegment : data[i] = View(D, enc, src, Block(seg.at, i))
    BY <1>0, <2>2 DEF SegRight, RestLoadable
  <2> HIDE DEF data
  <2>6. /\ v \in Segment /\ v.at = seg.at /\ v.valid = InSegment /\ v.dirty = seg.dirty
        /\ v.streamed = seg.streamed /\ v.data = data
    BY <2>3, <2>4 DEF Segment
  <2>7. SegRight(v, D, enc, src, R)
    BY <1>0, <2>5, <2>6 DEF SegRight
  <2> QED BY <2>6, <2>7
<1> QED BY <1>1, <1>2

LEMMA CacheFields ==
  ASSUME NEW c \in CacheState
  PROVE  /\ c.dev \in Disk /\ c.segs \in Seq(Segment) /\ Len(c.segs) \in Nat
         /\ DOMAIN c.segs = 1 .. Len(c.segs) /\ \A k \in DOMAIN c.segs : c.segs[k] \in Segment
         /\ c = [dev |-> c.dev, segs |-> c.segs]
<1>1. c.dev \in Disk /\ c.segs \in Seq(Segment) /\ c = [dev |-> c.dev, segs |-> c.segs]
  BY DEF CacheState
<1>2. Len(c.segs) \in Nat /\ DOMAIN c.segs = 1 .. Len(c.segs)
  BY <1>1, LenProperties
<1>3. \A k \in DOMAIN c.segs : c.segs[k] \in Segment
  BY <1>1, <1>2, ElementOfSeq
<1> QED BY <1>1, <1>2, <1>3

\* What a cached segment does not have is on the device.
LEMMA RestOnDevice ==
  ASSUME NEW c, NEW D, NEW enc, NEW src, NEW R, Holds(c, D, enc, src, R),
         NEW k \in DOMAIN c.segs, NEW i \in InSegment \ c.segs[k].dirty
  PROVE  c.dev[Block(c.segs[k].at, i)] = D[Block(c.segs[k].at, i)]
<1>1. c \in CacheState /\ c.segs[k] \in Segment
  BY CacheFields DEF Holds
<1>2. PICK b \in Blocks : b = Block(c.segs[k].at, i) /\ SegOf(b) = c.segs[k].at /\ (b % SegBlocks) = i
  BY <1>1, Geometry, SegmentFields
<1>3. c.dev[b] = D[b] \/ DirtyAt(c, b)
  BY DEF Holds
<1>4. ~DirtyAt(c, b)
  <2> SUFFICES ASSUME NEW j \in DOMAIN c.segs, c.segs[j].at = SegOf(b), (b % SegBlocks) \in c.segs[j].dirty
               PROVE  FALSE
    BY DEF DirtyAt
  <2>1. j = k
    BY <1>2 DEF Holds
  <2> QED BY <1>2, <2>1
<1> QED BY <1>2, <1>3, <1>4

\* A segment is replaced by another version of it, the device changes only
\* there, and the result holds D2.
ChangedIn(seg, device, device2, D, D2) ==
  \A b \in Blocks : IF SegOf(b) = seg.at THEN device2[b] = D2[b] \/ (b % SegBlocks) \in seg.dirty
                                         ELSE device2[b] = device[b] /\ D2[b] = D[b]
LEMMA Replaced ==
  ASSUME NEW c, NEW D, NEW enc, NEW src, NEW R, Holds(c, D, enc, src, R),
         NEW k \in DOMAIN c.segs, NEW seg \in Segment, seg.at = c.segs[k].at,
         NEW D2 \in Disk, NEW device \in Disk,
         SegRight(seg, D2, enc, src, R),
         ChangedIn(seg, c.dev, device, D, D2),
         NEW n, n = [dev |-> device, segs |-> [c.segs EXCEPT ![k] = seg]]
  PROVE  /\ Holds(n, D2, enc, src, R)
         /\ Len(n.segs) = Len(c.segs) /\ DOMAIN n.segs = DOMAIN c.segs
         /\ n.segs[k] = seg
         /\ \A j \in DOMAIN c.segs \ {k} : n.segs[j] = c.segs[j]
         /\ InUse(n) = InUse(c)
<1> USE DEF ChangedIn
<1> DEFINE t == [c.segs EXCEPT ![k] = seg]
<1>0. /\ c \in CacheState /\ c.segs \in Seq(Segment) /\ Len(c.segs) \in Nat
      /\ DOMAIN c.segs = 1 .. Len(c.segs) /\ \A j \in DOMAIN c.segs : c.segs[j] \in Segment
  BY CacheFields DEF Holds
<1>1. /\ t \in Seq(Segment) /\ Len(t) = Len(c.segs) /\ DOMAIN t = DOMAIN c.segs /\ t[k] = seg
      /\ \A j \in DOMAIN c.segs \ {k} : t[j] = c.segs[j]
  BY <1>0, ExceptSeq
<1>a. n = [dev |-> device, segs |-> t]
  OBVIOUS
<1> HIDE DEF t
<1>2. n \in CacheState /\ n.segs = t /\ n.dev = device
  <2>1. [dev |-> device, segs |-> t] \in CacheState
    BY <1>1 DEF CacheState
  <2> QED BY <1>a, <2>1
<1>3. \A j \in DOMAIN c.segs : t[j].at = c.segs[j].at
  BY <1>1
<1>4. InUse(n) = InUse(c)
  BY <1>1, <1>2, <1>3 DEF InUse
<1>5. \A i, j \in DOMAIN t : t[i].at = t[j].at => i = j
  BY <1>1, <1>3 DEF Holds
<1>6. ASSUME NEW j \in DOMAIN t PROVE SegRight(t[j], D2, enc, src, R)
  <2>1. CASE j = k
    BY <1>1, <2>1
  <2>2. CASE j # k
    <3>1. t[j] = c.segs[j] /\ SegRight(c.segs[j], D, enc, src, R) /\ c.segs[j] \in Segment /\ c.segs[j].at # seg.at
      BY <1>0, <1>1, <2>2 DEF Holds
    <3>2. ASSUME NEW i \in c.segs[j].valid
          PROVE  View(D2, enc, src, Block(c.segs[j].at, i)) = View(D, enc, src, Block(c.segs[j].at, i))
      <4>1. i \in InSegment /\ c.segs[j].at \in SegNo
        BY <3>1, SegmentFields
      <4>2. PICK b \in Blocks : b = Block(c.segs[j].at, i) /\ SegOf(b) = c.segs[j].at
        BY <4>1, Geometry
      <4>3. D2[b] = D[b]
        BY <3>1, <4>2
      <4> QED BY <4>2, <4>3 DEF View
    <3> QED BY <3>1, <3>2 DEF SegRight
  <2> QED BY <2>1, <2>2
<1>7. ASSUME NEW b \in Blocks PROVE device[b] = D2[b] \/ DirtyAt(n, b)
  <2>1. CASE SegOf(b) = seg.at
    BY <1>1, <1>2, <2>1 DEF DirtyAt
  <2>2. CASE SegOf(b) # seg.at
    <3>1. device[b] = c.dev[b] /\ D2[b] = D[b]
      BY <2>2
    <3>2. CASE DirtyAt(c, b)
      <4>1. PICK j \in DOMAIN c.segs : c.segs[j].at = SegOf(b) /\ (b % SegBlocks) \in c.segs[j].dirty
        BY <3>2 DEF DirtyAt
      <4>2. t[j] = c.segs[j]
        BY <1>1, <2>2, <4>1
      <4> QED BY <1>1, <1>2, <4>1, <4>2 DEF DirtyAt
    <3> QED BY <3>1, <3>2 DEF Holds
  <2> QED BY <2>1, <2>2
<1>8. Holds(n, D2, enc, src, R)
  BY <1>2, <1>5, <1>6, <1>7 DEF Holds
<1> QED BY <1>1, <1>2, <1>4, <1>8

\* Segments change their places, clean ones may go and a fresh one may come:
\* m says which segment is now where, 0 the fresh one.
Rearranges(c, s, t, m) ==
  /\ m \in [1 .. Len(t) -> 0 .. Len(c.segs)]
  /\ \A i, j \in 1 .. Len(t) : m[i] = m[j] => i = j
  /\ \A j \in 1 .. Len(t) : IF m[j] = 0 THEN t[j] = Fresh(s) /\ s \notin InUse(c) ELSE t[j] = c.segs[m[j]]
  /\ \A k \in DOMAIN c.segs : c.segs[k].dirty = {} \/ \E j \in 1 .. Len(t) : m[j] = k
LEMMA Rearranged ==
  ASSUME NEW c, NEW D, NEW enc, NEW src, NEW R, Holds(c, D, enc, src, R),
         NEW s \in SegNo, NEW t \in Seq(Segment), NEW m, Rearranges(c, s, t, m),
         NEW n, n = [dev |-> c.dev, segs |-> t]
  PROVE  Holds(n, D, enc, src, R) /\ InUse(n) \subseteq InUse(c) \cup {s}
<1> USE DEF Rearranges
<1>0. /\ c \in CacheState /\ c.segs \in Seq(Segment) /\ Len(c.segs) \in Nat /\ c.dev \in Disk
      /\ DOMAIN c.segs = 1 .. Len(c.segs) /\ \A j \in DOMAIN c.segs : c.segs[j] \in Segment
  BY CacheFields DEF Holds
<1>1. DOMAIN t = 1 .. Len(t) /\ Len(t) \in Nat
  BY LenProperties
<1>2. n \in CacheState /\ n.segs = t /\ n.dev = c.dev
  BY <1>0 DEF CacheState
<1>3. Fresh(s).at = s /\ Fresh(s).valid = {} /\ Fresh(s).dirty = {}
  BY FreshSegment
<1>4. ASSUME NEW j \in DOMAIN t
      PROVE  \/ m[j] = 0 /\ t[j] = Fresh(s) /\ t[j].at = s /\ s \notin InUse(c)
             \/ m[j] \in DOMAIN c.segs /\ t[j] = c.segs[m[j]] /\ t[j].at \in InUse(c)
  <2>1. m[j] \in 0 .. Len(c.segs)
    BY <1>1
  <2>2. CASE m[j] = 0
    BY <1>1, <1>3, <2>2
  <2>3. CASE m[j] # 0
    <3>1. m[j] \in DOMAIN c.segs
      BY <1>0, <2>1, <2>3
    <3> QED BY <1>1, <2>3, <3>1 DEF InUse
  <2> QED BY <2>2, <2>3
<1>5. InUse(n) \subseteq InUse(c) \cup {s}
  BY <1>2, <1>4 DEF InUse
<1>6. ASSUME NEW i \in DOMAIN t, NEW j \in DOMAIN t, t[i].at = t[j].at PROVE i = j
  <2>1. m[i] = m[j]
    BY <1>4, <1>6 DEF Holds
  <2> QED BY <1>1, <2>1
<1>7. ASSUME NEW j \in DOMAIN t PROVE SegRight(t[j], D, enc, src, R)
  <2>1. SegRight(Fresh(s), D, enc, src, R)
    BY <1>3 DEF SegRight
  <2> QED BY <1>4, <2>1 DEF Holds
<1>8. ASSUME NEW b \in Blocks PROVE c.dev[b] = D[b] \/ DirtyAt(n, b)
  <2>1. CASE DirtyAt(c, b)
    <3>1. PICK k \in DOMAIN c.segs : c.segs[k].at = SegOf(b) /\ (b % SegBlocks) \in c.segs[k].dirty
      BY <2>1 DEF DirtyAt
    <3>2. PICK j \in 1 .. Len(t) : m[j] = k
      BY <3>1
    <3>3. m[j] # 0
      BY <1>0, <3>2
    <3>4. t[j] = c.segs[k]
      BY <3>2, <3>3
    <3> QED BY <1>1, <1>2, <3>1, <3>4 DEF DirtyAt
  <2> QED BY <2>1 DEF Holds
<1>9. Holds(n, D, enc, src, R)
  BY <1>2, <1>6, <1>7, <1>8 DEF Holds
<1> QED BY <1>5, <1>9

\* A segment written to the device as a whole is on it.
LEMMA WrittenRight ==
  ASSUME NEW device \in Disk, NEW seg \in Segment
  PROVE  /\ Written(device, seg) \in Disk
         /\ \A b \in Blocks : Written(device, seg)[b] = IF SegOf(b) = seg.at THEN seg.data[b % SegBlocks]
                                                                              ELSE device[b]
<1>1. \A b \in Blocks : (b % SegBlocks) \in InSegment
  BY Geometry
<1>2. \A b \in Blocks : seg.data[b % SegBlocks] \in Content /\ device[b] \in Content
  BY <1>1, SegmentFields DEF Disk
<1> QED BY <1>2 DEF Written, Disk

\* In cache f segment k of c is clean; it is c otherwise.
Flushed(f, c, k) ==
  /\ Len(f.segs) = Len(c.segs) /\ DOMAIN f.segs = DOMAIN c.segs
  /\ f.segs[k].dirty = {}
  /\ \A j \in DOMAIN c.segs \ {k} : f.segs[j] = c.segs[j]
  /\ InUse(f) = InUse(c)

\* flush_segment without decryption.
LEMMA FlushRight ==
  ASSUME NEW c, NEW D \in Disk, NEW enc, NEW src \in Nat, NEW R, Holds(c, D, enc, src, R), NEW k \in DOMAIN c.segs,
         NEW f, f = flush_segment(c, k, Off)
  PROVE  Holds(f, D, enc, src, R) /\ Flushed(f, c, k)
<1> USE DEF Flushed
<1>0. c \in CacheState /\ c.segs[k] \in Segment /\ c.dev \in Disk /\ SegRight(c.segs[k], D, enc, src, R)
  BY CacheFields DEF Holds
<1>1. CASE c.segs[k].dirty = {}
  <2>1. flush_segment(c, k, Off) = c
    BY <1>1 DEF flush_segment
  <2> QED BY <1>1, <2>1
<1>2. CASE c.segs[k].dirty # {}
  <2> DEFINE old == c.segs[k]
             v == make_segment_valid(c, old, Off)
             w == [v EXCEPT !.dirty = {}]
             device == Written(c.dev, v)
             n == [dev |-> device, segs |-> [c.segs EXCEPT ![k] = w]]
  <2>1. old.at \notin enc /\ Off = KeyOf(old.at, enc, src)
    BY <1>0, <1>2 DEF SegRight, KeyOf
  <2>2. RestLoadable(c, old, D)
    BY <1>0, RestOnDevice DEF SegRight, RestLoadable
  <2>3. v \in Segment /\ v.at = old.at /\ v.valid = InSegment /\ SegRight(v, D, enc, src, R)
    BY <1>0, <2>1, <2>2, ValidRight
  <2>4. flush_segment(c, k, Off) = n
    BY <1>2 DEF flush_segment
  <2> HIDE DEF v
  <2>5. w \in Segment /\ w.at = old.at /\ w.valid = InSegment /\ w.dirty = {} /\ w.data = v.data
    BY <2>3 DEF Segment
  <2> HIDE DEF w
  <2>6. SegRight(w, D, enc, src, R)
    BY <2>3, <2>5 DEF SegRight
  <2>7. /\ device \in Disk
        /\ \A b \in Blocks : device[b] = IF SegOf(b) = v.at THEN v.data[b % SegBlocks] ELSE c.dev[b]
    BY <1>0, <2>3, WrittenRight
  <2> HIDE DEF device
  <2>8. ASSUME NEW b \in Blocks
        PROVE  IF SegOf(b) = w.at THEN device[b] = D[b] \/ (b % SegBlocks) \in w.dirty
                                  ELSE device[b] = c.dev[b] /\ D[b] = D[b]
    <3>1. CASE SegOf(b) = w.at
      <4>1. (b % SegBlocks) \in InSegment /\ Block(v.at, (b % SegBlocks)) = b
        BY <2>3, <2>5, <3>1, Geometry
      <4>2. v.data[b % SegBlocks] = View(D, enc, src, b)
        BY <2>3, <4>1 DEF SegRight
      <4>3. View(D, enc, src, b) = D[b]
        BY <2>1, <2>5, <3>1 DEF View
      <4> QED BY <2>3, <2>5, <2>7, <3>1, <4>2, <4>3
    <3>2. CASE SegOf(b) # w.at
      BY <2>3, <2>5, <2>7, <3>2
    <3> QED BY <3>1, <3>2
  <2>8a. ChangedIn(w, c.dev, device, D, D)
    BY <2>8 DEF ChangedIn
  <2>9. /\ Holds(n, D, enc, src, R)
        /\ Len(n.segs) = Len(c.segs) /\ DOMAIN n.segs = DOMAIN c.segs
        /\ n.segs[k] = w
        /\ \A j \in DOMAIN c.segs \ {k} : n.segs[j] = c.segs[j]
        /\ InUse(n) = InUse(c)
    BY <2>5, <2>6, <2>7, <2>8a, Replaced
  <2> QED BY <2>4, <2>5, <2>9
<1> QED BY <1>1, <1>2

\* get_segment never gives a segment back that would be decrypted.
Room(c, s, base) == base = Off \/ s \in InUse(c) \/ Len(c.segs) < slots

\* Segment s is the one used last.
EndsWith(c, s) == /\ Len(c.segs) \in Nat \ {0} /\ Len(c.segs) \in DOMAIN c.segs
                  /\ c.segs[Len(c.segs)].at = s

\* get_segment: a hit, a free slot, or the least recently used segment goes,
\* which must not be decrypted then.
LEMMA GetRight ==
  ASSUME NEW c, NEW D \in Disk, NEW enc, NEW src \in Nat, NEW R, Holds(c, D, enc, src, R),
         NEW s \in SegNo, NEW base, slots \in Nat \ {0},
         Room(c, s, base),
         NEW g, g = get_segment(c, s, base)
  PROVE  Holds(g, D, enc, src, R) /\ EndsWith(g, s) /\ InUse(g) \subseteq InUse(c) \cup {s}
<1> USE DEF Room, EndsWith
<1> DEFINE hit == {k \in DOMAIN c.segs : c.segs[k].at = s}
           n == Len(c.segs)
<1>0. /\ c \in CacheState /\ c.segs \in Seq(Segment) /\ n \in Nat /\ c.dev \in Disk
      /\ DOMAIN c.segs = 1 .. n /\ \A j \in DOMAIN c.segs : c.segs[j] \in Segment
      /\ c = [dev |-> c.dev, segs |-> c.segs]
  BY CacheFields DEF Holds
<1>1. Fresh(s) \in Segment /\ Fresh(s).at = s /\ Fresh(s).dirty = {}
  BY FreshSegment
<1>2. CASE hit # {}
  <2> DEFINE k == CHOOSE x \in hit : TRUE
             t == RemoveAt(c.segs, k) \o <<c.segs[k]>>
             m == [j \in 1 .. n |-> IF j = n THEN k ELSE IF j < k THEN j ELSE j + 1]
  <2>1. k \in 1 .. n /\ c.segs[k].at = s
    BY <1>0, <1>2
  <2>2. g = [c EXCEPT !.segs = t]
    BY <1>2 DEF get_segment
  <2> HIDE DEF k
  <2>3. /\ t \in Seq(Segment) /\ Len(t) = n /\ t[n] = c.segs[k]
        /\ \A j \in 1 .. n - 1 : t[j] = IF j < k THEN c.segs[j] ELSE c.segs[j + 1]
    BY <1>0, <2>1, MovedLast
  <2>4. g = [dev |-> c.dev, segs |-> t]
    BY <1>0, <2>2
  <2> HIDE DEF t
  <2>5. m \in [1 .. Len(t) -> 0 .. n] /\ \A i, j \in 1 .. Len(t) : m[i] = m[j] => i = j
    BY <1>0, <2>1, <2>3
  <2>6. ASSUME NEW j \in 1 .. Len(t)
        PROVE  IF m[j] = 0 THEN t[j] = Fresh(s) /\ s \notin InUse(c) ELSE t[j] = c.segs[m[j]]
    BY <1>0, <2>1, <2>3
  <2>7. ASSUME NEW j \in DOMAIN c.segs PROVE \E i \in 1 .. Len(t) : m[i] = j
    <3>1. CASE j = k
      <4>1. n \in 1 .. Len(t) /\ m[n] = j
        BY <1>0, <2>1, <2>3, <3>1
      <4> QED BY <4>1
    <3>2. CASE j < k
      <4>1. j \in 1 .. Len(t) /\ m[j] = j
        BY <1>0, <2>1, <2>3, <3>2
      <4> QED BY <4>1
    <3>3. CASE j > k
      <4>1. j - 1 \in 1 .. Len(t) /\ m[j - 1] = j
        BY <1>0, <2>1, <2>3, <3>3
      <4> QED BY <4>1
    <3>4. j = k \/ j < k \/ j > k
      BY <1>0, <2>1
    <3> QED BY <3>1, <3>2, <3>3, <3>4
  <2> HIDE DEF m
  <2>8. Holds(g, D, enc, src, R) /\ InUse(g) \subseteq InUse(c) \cup {s}
    <3>1. Rearranges(c, s, t, m)
      BY <2>5, <2>6, <2>7 DEF Rearranges
    <3> QED BY <2>3, <2>4, <3>1, Rearranged
  <2>9. g.segs = t /\ n \in Nat \ {0} /\ DOMAIN t = 1 .. n
    BY <1>0, <2>1, <2>3, <2>4, LenProperties
  <2> QED BY <2>1, <2>3, <2>8, <2>9
<1>3. CASE hit = {} /\ n < slots
  <2> DEFINE t == Append(c.segs, Fresh(s))
             m == [j \in 1 .. n + 1 |-> IF j = n + 1 THEN 0 ELSE j]
  <2>1. g = [dev |-> c.dev, segs |-> t]
    BY <1>0, <1>3 DEF get_segment
  <2>2. /\ t \in Seq(Segment) /\ Len(t) = n + 1 /\ t[n + 1] = Fresh(s)
        /\ \A j \in 1 .. n : t[j] = c.segs[j]
    BY <1>0, <1>1, AppendProperties
  <2>3. s \notin InUse(c)
    BY <1>3 DEF InUse
  <2> HIDE DEF t
  <2>4. m \in [1 .. Len(t) -> 0 .. n] /\ \A i, j \in 1 .. Len(t) : m[i] = m[j] => i = j
    BY <1>0, <2>2
  <2>5. ASSUME NEW j \in 1 .. Len(t)
        PROVE  IF m[j] = 0 THEN t[j] = Fresh(s) /\ s \notin InUse(c) ELSE t[j] = c.segs[m[j]]
    BY <1>0, <2>2, <2>3
  <2>6. ASSUME NEW j \in DOMAIN c.segs PROVE \E i \in 1 .. Len(t) : m[i] = j
    <3>1. j \in 1 .. Len(t) /\ m[j] = j
      BY <1>0, <2>2
    <3> QED BY <3>1
  <2> HIDE DEF m
  <2>7. Holds(g, D, enc, src, R) /\ InUse(g) \subseteq InUse(c) \cup {s}
    <3>1. Rearranges(c, s, t, m)
      BY <2>4, <2>5, <2>6 DEF Rearranges
    <3> QED BY <2>1, <2>2, <3>1, Rearranged
  <2>8. g.segs = t /\ n + 1 \in Nat \ {0} /\ DOMAIN t = 1 .. n + 1
    BY <1>0, <2>1, <2>2, LenProperties
  <2> QED BY <1>0, <1>1, <2>2, <2>7, <2>8
<1>4. CASE hit = {} /\ ~(n < slots)
  <2>0. base = Off /\ n >= 1 /\ 1 \in DOMAIN c.segs
    BY <1>0, <1>4 DEF InUse
  <2> DEFINE f == flush_segment(c, 1, Off)
             t == Append(Tail(f.segs), Fresh(s))
             m == [j \in 1 .. n |-> IF j = n THEN 0 ELSE j + 1]
  <2>1. /\ Holds(f, D, enc, src, R) /\ Len(f.segs) = n /\ DOMAIN f.segs = 1 .. n
        /\ f.segs[1].dirty = {} /\ InUse(f) = InUse(c)
    <3>1. PICK h : h = f
      OBVIOUS
    <3>2. Holds(h, D, enc, src, R) /\ Flushed(h, c, 1)
      BY <2>0, <3>1, FlushRight
    <3> HIDE DEF f
    <3> QED BY <1>0, <3>1, <3>2 DEF Flushed
  <2>2. g = [f EXCEPT !.segs = t]
    BY <1>4, <2>0 DEF get_segment
  <2> HIDE DEF f
  <2>3. f \in CacheState /\ f.segs \in Seq(Segment) /\ f.segs # <<>> /\ f = [dev |-> f.dev, segs |-> f.segs]
    <3>1. f \in CacheState /\ f.segs \in Seq(Segment) /\ f = [dev |-> f.dev, segs |-> f.segs]
      BY <2>1, CacheFields DEF Holds
    <3> QED BY <2>0, <2>1, <3>1, EmptySeq
  <2>4. Tail(f.segs) \in Seq(Segment) /\ Len(Tail(f.segs)) = n - 1
        /\ \A j \in 1 .. n - 1 : Tail(f.segs)[j] = f.segs[j + 1]
    BY <2>1, <2>3, HeadTailProperties
  <2>5. /\ t \in Seq(Segment) /\ Len(t) = n /\ t[n] = Fresh(s)
        /\ \A j \in 1 .. n - 1 : t[j] = f.segs[j + 1]
    BY <1>0, <1>1, <2>0, <2>4, AppendProperties
  <2>6. s \notin InUse(f) /\ g = [dev |-> f.dev, segs |-> t]
    BY <1>4, <2>1, <2>2, <2>3 DEF InUse
  <2> HIDE DEF t
  <2>7. m \in [1 .. Len(t) -> 0 .. Len(f.segs)] /\ \A i, j \in 1 .. Len(t) : m[i] = m[j] => i = j
    BY <1>0, <2>0, <2>1, <2>5
  <2>8. ASSUME NEW j \in 1 .. Len(t)
        PROVE  IF m[j] = 0 THEN t[j] = Fresh(s) /\ s \notin InUse(f) ELSE t[j] = f.segs[m[j]]
    <3>1. j \in 1 .. n
      BY <2>5
    <3>2. CASE j = n
      BY <2>5, <2>6, <3>1, <3>2
    <3>3. CASE j # n
      BY <1>0, <2>5, <3>1, <3>3
    <3> QED BY <3>2, <3>3
  <2>9. ASSUME NEW j \in DOMAIN f.segs PROVE f.segs[j].dirty = {} \/ \E i \in 1 .. Len(t) : m[i] = j
    <3>1. CASE j = 1
      BY <2>1, <3>1
    <3>2. CASE j # 1
      <4>1. j - 1 \in 1 .. Len(t) /\ m[j - 1] = j
        BY <1>0, <2>1, <2>5, <3>2
      <4> QED BY <4>1
    <3> QED BY <3>1, <3>2
  <2> HIDE DEF m
  <2>10. Holds(g, D, enc, src, R) /\ InUse(g) \subseteq InUse(c) \cup {s}
    <3>1. Rearranges(f, s, t, m)
      BY <2>7, <2>8, <2>9 DEF Rearranges
    <3> QED BY <2>1, <2>5, <2>6, <3>1, Rearranged
  <2>11. g.segs = t /\ n \in Nat \ {0} /\ DOMAIN t = 1 .. n
    BY <1>0, <2>0, <2>5, <2>6, LenProperties
  <2> QED BY <1>0, <1>1, <2>5, <2>10, <2>11
<1> QED BY <1>2, <1>3, <1>4

\* The segment used last is s, completely loaded.
Shows(c, s, D, enc, src) == \A i \in InSegment : Last(c.segs).data[i] = View(D, enc, src, Block(s, i))

\* One segment of block_cache_pread.
LEMMA LoadedRight ==
  ASSUME NEW c, NEW D \in Disk, NEW enc, NEW src \in Nat, NEW R, Holds(c, D, enc, src, R),
         NEW s \in SegNo, NEW base, HasKey(base, s, enc, src), slots \in Nat \ {0}, Room(c, s, base),
         NEW l, l = Loaded(c, s, base)
  PROVE  /\ Holds(l, D, enc, src, R)
         /\ Shows(l, s, D, enc, src)
         /\ InUse(l) \subseteq InUse(c) \cup {s}
<1>0. PICK g : g = get_segment(c, s, base)
  OBVIOUS
<1> DEFINE k == Len(g.segs)
           old == g.segs[k]
           v == make_segment_valid(g, old, base)
<1>1. /\ Holds(g, D, enc, src, R) /\ k \in Nat \ {0} /\ k \in DOMAIN g.segs /\ old.at = s
      /\ InUse(g) \subseteq InUse(c) \cup {s}
  <2>1. Holds(g, D, enc, src, R) /\ EndsWith(g, s) /\ InUse(g) \subseteq InUse(c) \cup {s}
    BY <1>0, GetRight
  <2> QED BY <2>1 DEF EndsWith
<1>2. l = [g EXCEPT !.segs[k] = v]
  BY <1>0 DEF Loaded
<1> HIDE DEF k
<1>3. /\ g \in CacheState /\ old \in Segment /\ g.dev \in Disk /\ SegRight(old, D, enc, src, R)
      /\ g = [dev |-> g.dev, segs |-> g.segs]
  BY <1>1, CacheFields DEF Holds
<1>4. RestLoadable(g, old, D)
  BY <1>1, <1>3, RestOnDevice DEF SegRight, RestLoadable
<1>5. /\ v \in Segment /\ v.at = s /\ v.valid = InSegment /\ v.dirty = old.dirty /\ SegRight(v, D, enc, src, R)
  BY <1>1, <1>3, <1>4, ValidRight DEF HasKey
<1> HIDE DEF v
<1> DEFINE n == [dev |-> g.dev, segs |-> [g.segs EXCEPT ![k] = v]]
<1>6. l = n
  BY <1>2, <1>3
<1>7. ASSUME NEW b \in Blocks
      PROVE  IF SegOf(b) = v.at THEN g.dev[b] = D[b] \/ (b % SegBlocks) \in v.dirty
                                ELSE g.dev[b] = g.dev[b] /\ D[b] = D[b]
  <2> SUFFICES ASSUME SegOf(b) = s, (b % SegBlocks) \notin v.dirty PROVE g.dev[b] = D[b]
    BY <1>5
  <2>1. (b % SegBlocks) \in InSegment \ old.dirty /\ Block(old.at, (b % SegBlocks)) = b
    BY <1>1, <1>5, Geometry
  <2> QED BY <1>1, <2>1, RestOnDevice
<1>7a. ChangedIn(v, g.dev, g.dev, D, D)
  BY <1>7 DEF ChangedIn
<1>8. /\ Holds(n, D, enc, src, R) /\ n.segs[k] = v /\ Len(n.segs) = k /\ InUse(n) = InUse(g)
  BY <1>1, <1>3, <1>5, <1>7a, Replaced DEF k
<1>9. \A i \in InSegment : v.data[i] = View(D, enc, src, Block(s, i))
  BY <1>5 DEF SegRight
<1>10. Last(n.segs) = v
  BY <1>8 DEF Last
<1> HIDE DEF n
<1> QED BY <1>1, <1>6, <1>8, <1>9, <1>10 DEF Shows

Writable(c, b, enc, R, base) == b \in R /\ SegOf(b) \notin enc /\ Room(c, SegOf(b), base)
Overwrite(D, b, content) == [D EXCEPT ![b] = content]

\* block_cache_pwrite.  A segment that was completely written in order goes to
\* the device at once.
LEMMA PwriteRight ==
  ASSUME NEW c, NEW D \in Disk, NEW enc, NEW src \in Nat, NEW R, Holds(c, D, enc, src, R),
         NEW b \in Blocks, NEW content \in Content, NEW streamed, NEW base, slots \in Nat \ {0},
         Writable(c, b, enc, R, base),
         NEW D2, D2 = Overwrite(D, b, content),
         NEW w, w = block_cache_pwrite(c, b, content, streamed, base)
  PROVE  /\ D2 \in Disk /\ Holds(w, D2, enc, src, R) /\ InUse(w) \subseteq InUse(c) \cup {SegOf(b)}
<1> USE DEF Writable
<1> DEFINE s == SegOf(b)
           x == b % SegBlocks
<1>g. PICK g : g = get_segment(c, s, base)
  OBVIOUS
<1> DEFINE k == Len(g.segs)
           old == g.segs[k]
           seg == [old EXCEPT !.data[x] = content, !.valid = @ \cup {x},
                              !.dirty = @ \cup {x}, !.streamed = @ /\ streamed]
<1>0. s \in SegNo /\ x \in InSegment /\ Block(s, x) = b
  BY Geometry
<1>1. /\ Holds(g, D, enc, src, R) /\ k \in Nat \ {0} /\ k \in DOMAIN g.segs /\ old.at = s
      /\ InUse(g) \subseteq InUse(c) \cup {s}
  <2>1. Holds(g, D, enc, src, R) /\ EndsWith(g, s) /\ InUse(g) \subseteq InUse(c) \cup {s}
    BY <1>0, <1>g, GetRight
  <2> QED BY <2>1 DEF EndsWith
<1>2. D2 \in Disk /\ D2[b] = content /\ \A y \in Blocks \ {b} : D2[y] = D[y]
  BY DEF Disk, Overwrite
<1>3. w = IF streamed /\ old.streamed /\ seg.dirty = InSegment
          THEN [dev |-> Written(g.dev, seg), segs |-> [g.segs EXCEPT ![k] = [seg EXCEPT !.dirty = {}]]]
          ELSE [g EXCEPT !.segs[k] = seg]
  BY <1>g DEF block_cache_pwrite
<1> HIDE DEF k, s, x
<1>4. /\ g \in CacheState /\ old \in Segment /\ g.dev \in Disk /\ SegRight(old, D, enc, src, R)
      /\ g = [dev |-> g.dev, segs |-> g.segs]
  BY <1>1, CacheFields DEF Holds
<1>5. /\ seg \in Segment /\ seg.at = s /\ seg.valid = old.valid \cup {x} /\ seg.dirty = old.dirty \cup {x}
      /\ seg.data[x] = content /\ \A i \in InSegment \ {x} : seg.data[i] = old.data[i]
  <2>1. /\ old.at \in SegNo /\ old.data \in [InSegment -> Content] /\ old.valid \subseteq InSegment
        /\ old.dirty \subseteq InSegment /\ old.streamed \in BOOLEAN
    BY <1>4, SegmentFields
  <2>2. (old.streamed /\ streamed) \in BOOLEAN
    OBVIOUS
  <2>3. [old.data EXCEPT ![x] = content] \in [InSegment -> Content]
    BY <1>0, <2>1
  <2> QED BY <1>0, <1>1, <1>4, <2>1, <2>2, <2>3 DEF Segment
<1> HIDE DEF seg
<1>6. \A i \in InSegment \ {x} : D2[Block(s, i)] = D[Block(s, i)] /\ Block(s, i) \in Blocks
  <2> SUFFICES ASSUME NEW i \in InSegment \ {x} PROVE D2[Block(s, i)] = D[Block(s, i)] /\ Block(s, i) \in Blocks
    OBVIOUS
  <2>1. Block(s, i) \in Blocks /\ (Block(s, i) % SegBlocks) = i
    BY <1>0, Geometry
  <2>2. Block(s, i) # b
    BY <2>1 DEF x
  <2> QED BY <1>2, <2>1, <2>2
<1>7. \A i \in InSegment : View(D2, enc, src, Block(s, i)) = D2[Block(s, i)]
                           /\ View(D, enc, src, Block(s, i)) = D[Block(s, i)]
  BY <1>0, Geometry DEF View, s
<1>8. SegRight(seg, D2, enc, src, R)
  <2>1. old.dirty \subseteq old.valid /\ old.valid \subseteq InSegment
        /\ (\A i \in old.dirty : Block(s, i) \in R)
        /\ \A i \in old.valid : old.data[i] = View(D, enc, src, Block(s, i))
    BY <1>1, <1>4, SegmentFields DEF SegRight
  <2>2. \A i \in seg.dirty : Block(s, i) \in R
    BY <1>0, <1>5, <2>1
  <2>3. ASSUME NEW i \in seg.valid PROVE seg.data[i] = View(D2, enc, src, Block(s, i))
    <3>1. CASE i = x
      BY <1>0, <1>2, <1>5, <1>7, <3>1
    <3>2. CASE i # x
      <4>1. i \in old.valid /\ i \in InSegment \ {x}
        BY <1>5, <2>1, <3>2
      <4>2. seg.data[i] = old.data[i] /\ old.data[i] = D[Block(s, i)]
        BY <1>5, <1>7, <2>1, <4>1
      <4> QED BY <1>6, <1>7, <4>1, <4>2
    <3> QED BY <3>1, <3>2
  <2> QED BY <1>5, <2>1, <2>2, <2>3 DEF SegRight, s
<1>9. \A y \in Blocks : SegOf(y) # s => D2[y] = D[y]
  BY <1>2 DEF s
<1>10. CASE streamed /\ old.streamed /\ seg.dirty = InSegment
  <2> DEFINE device == Written(g.dev, seg)
             q == [seg EXCEPT !.dirty = {}]
             n == [dev |-> device, segs |-> [g.segs EXCEPT ![k] = q]]
  <2>1. w = n
    BY <1>3, <1>10
  <2>2. q \in Segment /\ q.at = s /\ q.valid = seg.valid /\ q.dirty = {} /\ q.data = seg.data
    BY <1>5 DEF Segment
  <2> HIDE DEF q
  <2>3. SegRight(q, D2, enc, src, R)
    BY <1>5, <1>8, <2>2 DEF SegRight
  <2>4. device \in Disk /\ \A y \in Blocks : device[y] = IF SegOf(y) = seg.at THEN seg.data[y % SegBlocks] ELSE g.dev[y]
    BY <1>4, <1>5, WrittenRight
  <2> HIDE DEF device
  <2>5. ASSUME NEW y \in Blocks
        PROVE  IF SegOf(y) = q.at THEN device[y] = D2[y] \/ (y % SegBlocks) \in q.dirty
                                  ELSE device[y] = g.dev[y] /\ D2[y] = D[y]
    <3>1. CASE SegOf(y) = s
      <4>1. (y % SegBlocks) \in InSegment /\ Block(s, (y % SegBlocks)) = y
        BY <3>1, Geometry
      <4>2. (y % SegBlocks) \in seg.valid
        BY <1>8, <1>10, <4>1 DEF SegRight
      <4>3. seg.data[y % SegBlocks] = View(D2, enc, src, y)
        BY <1>5, <1>8, <4>1, <4>2 DEF SegRight
      <4>4. View(D2, enc, src, y) = D2[y]
        BY <1>7, <4>1
      <4> QED BY <1>5, <2>2, <2>4, <3>1, <4>3, <4>4
    <3>2. CASE SegOf(y) # s
      BY <1>5, <1>9, <2>2, <2>4, <3>2
    <3> QED BY <3>1, <3>2
  <2>6. Holds(n, D2, enc, src, R) /\ InUse(n) = InUse(g)
    <3>1. ChangedIn(q, g.dev, device, D, D2)
      BY <2>5 DEF ChangedIn
    <3> QED BY <1>1, <1>2, <2>2, <2>3, <2>4, <3>1, Replaced
  <2> QED BY <1>1, <1>2, <2>1, <2>6 DEF s
<1>11. CASE ~(streamed /\ old.streamed /\ seg.dirty = InSegment)
  <2> DEFINE n == [dev |-> g.dev, segs |-> [g.segs EXCEPT ![k] = seg]]
  <2>1. w = n
    BY <1>3, <1>4, <1>11
  <2>2. ASSUME NEW y \in Blocks
        PROVE  IF SegOf(y) = seg.at THEN g.dev[y] = D2[y] \/ (y % SegBlocks) \in seg.dirty
                                    ELSE g.dev[y] = g.dev[y] /\ D2[y] = D[y]
    <3>1. CASE SegOf(y) = s /\ (y % SegBlocks) \notin seg.dirty
      <4>1. (y % SegBlocks) \in InSegment \ old.dirty /\ (y % SegBlocks) # x /\ Block(s, (y % SegBlocks)) = y
        BY <1>5, <3>1, Geometry
      <4>2. g.dev[y] = D[y]
        BY <1>1, <4>1, RestOnDevice
      <4>3. D2[y] = D[y]
        BY <1>6, <4>1
      <4> QED BY <1>5, <3>1, <4>2, <4>3
    <3>2. CASE SegOf(y) # s
      BY <1>5, <1>9, <3>2
    <3> QED BY <1>5, <3>1, <3>2
  <2>3. Holds(n, D2, enc, src, R) /\ InUse(n) = InUse(g)
    <3>1. ChangedIn(seg, g.dev, g.dev, D, D2)
      BY <2>2 DEF ChangedIn
    <3> QED BY <1>1, <1>2, <1>4, <1>5, <1>8, <3>1, Replaced
  <2> QED BY <1>1, <1>2, <2>1, <2>3 DEF s
<1> QED BY <1>10, <1>11

\* block_cache_pread goes from block to block.
Reads(read, c, b, n, base) ==
  /\ read[0] = [c |-> c, data |-> <<>>]
  /\ \A i \in 1 .. n : LET l == Loaded(read[i - 1].c, SegOf(b + i - 1), base)
                       IN  read[i] = [c |-> l, data |-> Append(read[i - 1].data,
                                                         Last(l.segs).data[(b + i - 1) % SegBlocks])]
  /\ block_cache_pread(c, b, n, base) = read[n]
LEMMA PreadSteps ==
  ASSUME NEW c, NEW b \in Nat, NEW n \in Nat, NEW base
  PROVE  \E read : Reads(read, c, b, n, base)
<1> USE DEF Reads
<1> DEFINE step(r, i) == LET l == Loaded(r.c, SegOf(b + i - 1), base)
                         IN  [c |-> l, data |-> Append(r.data, Last(l.segs).data[(b + i - 1) % SegBlocks])]
           first == [c |-> c, data |-> <<>>]
           F(f, m) == [i \in 0 .. m |-> IF i = 0 THEN first ELSE step(f[i - 1], i)]
           read == CHOOSE f : f = F(f, n)
<1>1. block_cache_pread(c, b, n, base) = read[n]
  BY DEF block_cache_pread
<1> HIDE DEF step, first
<1> DEFINE Missing == {m \in 0 .. n : ~\E f : f = F(f, m)}
<1>2. Missing = {}
  <2> SUFFICES ASSUME Missing # {} PROVE FALSE
    OBVIOUS
  <2>0. Missing \subseteq Nat
    OBVIOUS
  <2> HIDE DEF Missing
  <2>1. PICK m \in Missing : \A x \in Missing : m <= x
    BY <2>0, LeastNumber
  <2>2. m # 0
    <3>1. F([i \in 0 .. 0 |-> first], 0) = [i \in 0 .. 0 |-> first]
      OBVIOUS
    <3> QED BY <2>1, <3>1 DEF Missing
  <2>3. m \in 0 .. n /\ m - 1 \in 0 .. n /\ m - 1 \notin Missing
    <3>1. m \in 0 .. n
      BY <2>1 DEF Missing
    <3>2. m - 1 \in 0 .. n /\ ~(m <= m - 1)
      BY <2>2, <3>1
    <3> QED BY <2>1, <3>1, <3>2
  <2>4. PICK f : f = F(f, m - 1)
    BY <2>3 DEF Missing
  <2> DEFINE g == [i \in 0 .. m |-> IF i = m THEN step(f[m - 1], m) ELSE f[i]]
  <2>5. g = F(g, m)
    BY <2>2, <2>3, <2>4
  <2> QED BY <2>1, <2>5 DEF Missing
<1>3. read = F(read, n)
  <2>1. n \in 0 .. n /\ n \notin Missing
    BY <1>2
  <2>2. \E f : f = F(f, n)
    BY <2>1
  <2> HIDE DEF F
  <2> QED BY <2>2
<1> HIDE DEF read
<1>4. read[0] = first /\ \A i \in 1 .. n : read[i] = step(read[i - 1], i)
  BY <1>3
<1> QED BY <1>1, <1>4 DEF first, step

\* While there is decryption, the cache has room for all segments in T.
Ready(T, base) == base = Off \/ (IsFiniteSet(T) /\ Cardinality(T) <= slots)

LEMMA ReadyHasRoom ==
  ASSUME NEW c, NEW D, NEW enc, NEW src, NEW R, Holds(c, D, enc, src, R),
         NEW T, NEW base, slots \in Nat \ {0}, Ready(T, base), InUse(c) \subseteq T, NEW s \in T
  PROVE  Room(c, s, base)
<1> SUFFICES ASSUME base # Off, s \notin InUse(c), ~(Len(c.segs) < slots) PROVE FALSE
  BY DEF Room
<1> DEFINE n == Len(c.segs)
           f == [j \in 1 .. n + 1 |-> IF j = n + 1 THEN s ELSE c.segs[j].at]
<1>1. n \in Nat /\ DOMAIN c.segs = 1 .. n
  BY CacheFields DEF Holds
<1>2. IsFiniteSet(T) /\ Cardinality(T) <= slots /\ Cardinality(T) \in Nat
  BY FS_CardinalityType DEF Ready
<1>3. IsFiniteSet(1 .. n + 1) /\ Cardinality(1 .. n + 1) = n + 1
  <2>1. 1 \in Int /\ n + 1 \in Int /\ ~(1 > n + 1) /\ (n + 1) - 1 + 1 = n + 1
    BY <1>1
  <2> HIDE DEF n
  <2>2. PICK a \in Int, b \in Int : a = 1 /\ b = n + 1
    BY <2>1
  <2>3. IsFiniteSet(a .. b) /\ Cardinality(a .. b) = IF a > b THEN 0 ELSE b - a + 1
    BY FS_Interval
  <2> QED BY <2>1, <2>2, <2>3
<1>4. f \in [1 .. n + 1 -> T]
  BY <1>1 DEF InUse
<1>5. Cardinality(T) < Cardinality(1 .. n + 1)
  BY <1>1, <1>2, <1>3
<1> HIDE DEF n, f
<1>6. PICK x, y \in 1 .. n + 1 : x # y /\ f[x] = f[y]
  <2> DEFINE S == 1 .. n + 1
  <2>1. IsFiniteSet(S) /\ Cardinality(T) < Cardinality(S) /\ f \in [S -> T]
    BY <1>3, <1>4, <1>5
  <2> HIDE DEF S
  <2>2. \E x, y \in S : x # y /\ f[x] = f[y]
    BY <1>2, <2>1, FS_PigeonHole
  <2> QED BY <2>2 DEF S
<1>7. \A j \in 1 .. n : f[j] = c.segs[j].at /\ c.segs[j].at \in InUse(c)
  BY <1>1 DEF f, InUse
<1>8. f[n + 1] = s
  BY <1>1 DEF f
<1>9. x \in 1 .. n /\ y \in 1 .. n
  BY <1>1, <1>6, <1>7, <1>8
<1> QED BY <1>1, <1>6, <1>7, <1>9 DEF Holds

LEMMA ViewTyped ==
  ASSUME NEW D \in Disk, NEW enc, NEW src \in Nat, NEW b \in Blocks
  PROVE  View(D, enc, src, b) \in Content
<1>1. D[b] \in Content /\ b \in Int
  BY Sizes DEF Disk, Blocks
<1> QED BY <1>1, CryptoTyped DEF View

\* Blocks b .. b + n - 1 can be read with base_offset base, and data is what
\* the cache should show of them.
Readable(b, n, T, base, enc, src) ==
  \A x \in b .. b + n - 1 : x \in Blocks /\ SegOf(x) \in T /\ HasKey(base, SegOf(x), enc, src)
IsRead(data, b, n, D, enc, src) ==
  /\ data \in Seq(Content) /\ Len(data) = n
  /\ \A j \in 1 .. n : data[j] = View(D, enc, src, b + j - 1)

\* block_cache_pread returns what the cache should show, and changes nothing
\* of what it holds.
LEMMA PreadRight ==
  ASSUME NEW c, NEW D \in Disk, NEW enc, NEW src \in Nat, NEW R, Holds(c, D, enc, src, R),
         NEW b \in Nat, NEW n \in Nat, NEW base, slots \in Nat \ {0},
         NEW T, Ready(T, base), InUse(c) \subseteq T, Readable(b, n, T, base, enc, src),
         NEW r, r = block_cache_pread(c, b, n, base)
  PROVE  /\ Holds(r.c, D, enc, src, R) /\ InUse(r.c) \subseteq T /\ IsRead(r.data, b, n, D, enc, src)
<1>0. \A x \in b .. b + n - 1 : x \in Blocks /\ SegOf(x) \in T /\ HasKey(base, SegOf(x), enc, src)
  BY DEF Readable
<1> DEFINE step(q, i) == LET l == Loaded(q.c, SegOf(b + i - 1), base)
                         IN  [c |-> l, data |-> Append(q.data, Last(l.segs).data[(b + i - 1) % SegBlocks])]
<1>1. PICK read : /\ read[0] = [c |-> c, data |-> <<>>]
                  /\ \A i \in 1 .. n : read[i] = step(read[i - 1], i)
                  /\ r = read[n]
  <2>1. \E read : Reads(read, c, b, n, base)
    BY PreadSteps
  <2> QED BY <2>1, Zenon DEF Reads
<1> DEFINE Right(i) == /\ Holds(read[i].c, D, enc, src, R) /\ InUse(read[i].c) \subseteq T
                       /\ read[i].data \in Seq(Content) /\ Len(read[i].data) = i
                       /\ \A j \in 1 .. i : read[i].data[j] = View(D, enc, src, b + j - 1)
           Wrong == {i \in 0 .. n : ~Right(i)}
<1>2. Wrong = {}
  <2> SUFFICES ASSUME Wrong # {} PROVE FALSE
    OBVIOUS
  <2>0. Wrong \subseteq Nat
    OBVIOUS
  <2> HIDE DEF Wrong
  <2>1. PICK i \in Wrong : \A x \in Wrong : i <= x
    BY <2>0, LeastNumber
  <2>2. Right(0)
    BY <1>1
  <2> HIDE DEF Right
  <2>3. i \in 1 .. n /\ i - 1 \in 0 .. n /\ Right(i - 1)
    BY <2>1, <2>2 DEF Wrong
  <2> DEFINE q == read[i - 1]
             y == b + i - 1
  <2>a. PICK l : l = Loaded(q.c, SegOf(y), base)
    OBVIOUS
  <2> DEFINE d == Last(l.segs).data[y % SegBlocks]
  <2>4. y \in b .. b + n - 1 /\ y \in Blocks
    BY <1>0, <2>3
  <2>5. SegOf(y) \in T /\ HasKey(base, SegOf(y), enc, src)
    BY <1>0, <2>4
  <2>6. SegOf(y) \in SegNo /\ (y % SegBlocks) \in InSegment /\ Block(SegOf(y), (y % SegBlocks)) = y
    BY <2>4, Geometry
  <2>7. read[i] = [c |-> l, data |-> Append(q.data, d)]
    BY <1>1, <2>3, <2>a
  <2> HIDE DEF y, q
  <2>8. Holds(q.c, D, enc, src, R) /\ InUse(q.c) \subseteq T /\ q.data \in Seq(Content) /\ Len(q.data) = i - 1
        /\ \A j \in 1 .. i - 1 : q.data[j] = View(D, enc, src, b + j - 1)
    BY <2>3 DEF q, Right
  <2>9. Room(q.c, SegOf(y), base)
    BY <2>5, <2>8, ReadyHasRoom
  <2>10. /\ Holds(l, D, enc, src, R) /\ InUse(l) \subseteq InUse(q.c) \cup {SegOf(y)}
         /\ Shows(l, SegOf(y), D, enc, src)
    <3>1. PICK k : k = q.c
      OBVIOUS
    <3>2. PICK s \in SegNo : s = SegOf(y)
      BY <2>6
    <3>3. /\ Holds(k, D, enc, src, R) /\ HasKey(base, s, enc, src) /\ Room(k, s, base)
          /\ l = Loaded(k, s, base)
      BY <2>5, <2>8, <2>9, <2>a, <3>1, <3>2
    <3>4. Holds(l, D, enc, src, R) /\ Shows(l, s, D, enc, src) /\ InUse(l) \subseteq InUse(k) \cup {s}
      BY <3>3, LoadedRight
    <3> QED BY <3>1, <3>2, <3>4
  <2>11. d = View(D, enc, src, y) /\ d \in Content
    BY <2>4, <2>6, <2>10, ViewTyped DEF Shows
  <2> HIDE DEF d
  <2>12. /\ Append(q.data, d) \in Seq(Content) /\ Len(Append(q.data, d)) = i
         /\ Append(q.data, d)[i] = d
         /\ \A j \in 1 .. i - 1 : Append(q.data, d)[j] = q.data[j]
    BY <2>3, <2>8, <2>11, AppendProperties
  <2>13. \A j \in 1 .. i : Append(q.data, d)[j] = View(D, enc, src, b + j - 1)
    <3> SUFFICES ASSUME NEW j \in 1 .. i PROVE Append(q.data, d)[j] = View(D, enc, src, b + j - 1)
      OBVIOUS
    <3>1. CASE j = i
      BY <2>11, <2>12, <3>1 DEF y
    <3>2. CASE j # i
      BY <2>3, <2>8, <2>12, <3>2
    <3> QED BY <3>1, <3>2
  <2>14. Right(i)
    BY <2>5, <2>7, <2>8, <2>10, <2>12, <2>13 DEF Right
  <2> QED BY <2>1, <2>14 DEF Wrong
<1>3. Right(n)
  BY <1>2
<1> QED BY <1>1, <1>3 DEF IsRead

\* block_cache_flush goes from segment to segment.
Flushes(flushed, c, base) ==
  /\ flushed[0] = c
  /\ \A k \in 1 .. Len(c.segs) : flushed[k] = flush_segment(flushed[k - 1], k, base)
  /\ block_cache_flush(c, base) = flushed[Len(c.segs)]
LEMMA FlushSteps ==
  ASSUME NEW c, Len(c.segs) \in Nat, NEW base
  PROVE  \E flushed : Flushes(flushed, c, base)
<1> USE DEF Flushes
<1> DEFINE n == Len(c.segs)
           step(r, k) == flush_segment(r, k, base)
           F(f, m) == [k \in 0 .. m |-> IF k = 0 THEN c ELSE step(f[k - 1], k)]
           flushed == CHOOSE f : f = F(f, n)
<1>1. block_cache_flush(c, base) = flushed[n]
  BY DEF block_cache_flush
<1> HIDE DEF step, n
<1> DEFINE Missing == {m \in 0 .. n : ~\E f : f = F(f, m)}
<1>0. n \in Nat
  BY DEF n
<1>2. Missing = {}
  <2> SUFFICES ASSUME Missing # {} PROVE FALSE
    OBVIOUS
  <2>0. Missing \subseteq Nat
    BY <1>0
  <2> HIDE DEF Missing
  <2>1. PICK m \in Missing : \A x \in Missing : m <= x
    BY <2>0, LeastNumber
  <2>2. m # 0
    <3>1. F([i \in 0 .. 0 |-> c], 0) = [i \in 0 .. 0 |-> c]
      OBVIOUS
    <3> QED BY <2>1, <3>1 DEF Missing
  <2>3. m \in 0 .. n /\ m - 1 \in 0 .. n /\ m - 1 \notin Missing
    <3>1. m \in 0 .. n
      BY <2>1 DEF Missing
    <3>2. m - 1 \in 0 .. n /\ ~(m <= m - 1)
      BY <1>0, <2>2, <3>1
    <3> QED BY <2>1, <3>1, <3>2
  <2>4. PICK f : f = F(f, m - 1)
    BY <2>3 DEF Missing
  <2> DEFINE g == [i \in 0 .. m |-> IF i = m THEN step(f[m - 1], m) ELSE f[i]]
  <2>5. g = F(g, m)
    BY <1>0, <2>2, <2>3, <2>4
  <2> QED BY <2>1, <2>5 DEF Missing
<1>3. flushed = F(flushed, n)
  <2>1. n \in 0 .. n /\ n \notin Missing
    BY <1>0, <1>2
  <2>2. \E f : f = F(f, n)
    BY <2>1
  <2> HIDE DEF F
  <2> QED BY <2>2
<1> HIDE DEF flushed
<1>4. flushed[0] = c /\ \A k \in 1 .. n : flushed[k] = step(flushed[k - 1], k)
  BY <1>0, <1>3
<1> QED BY <1>1, <1>4 DEF n, step

\* After block_cache_flush everything is on the device.
LEMMA FlushAllRight ==
  ASSUME NEW c, NEW D \in Disk, NEW enc, NEW src \in Nat, NEW R, Holds(c, D, enc, src, R)
  PROVE  block_cache_flush(c, Off).dev = D
<1> DEFINE n == Len(c.segs)
<1>0. n \in Nat /\ DOMAIN c.segs = 1 .. n
  BY CacheFields DEF Holds
<1>1. PICK flushed : /\ flushed[0] = c
                     /\ \A k \in 1 .. n : flushed[k] = flush_segment(flushed[k - 1], k, Off)
                     /\ block_cache_flush(c, Off) = flushed[n]
  <2>1. \E flushed : Flushes(flushed, c, Off)
    BY <1>0, FlushSteps
  <2> QED BY <2>1, Zenon DEF Flushes
<1> HIDE DEF n
<1> DEFINE Right(k) == /\ Holds(flushed[k], D, enc, src, R) /\ DOMAIN flushed[k].segs = 1 .. n
                       /\ \A j \in 1 .. k : flushed[k].segs[j].dirty = {}
           Wrong == {k \in 0 .. n : ~Right(k)}
<1>2. Wrong = {}
  <2> SUFFICES ASSUME Wrong # {} PROVE FALSE
    OBVIOUS
  <2>0. Wrong \subseteq Nat
    BY <1>0
  <2> HIDE DEF Wrong
  <2>1. PICK k \in Wrong : \A x \in Wrong : k <= x
    BY <2>0, LeastNumber
  <2>2. Right(0)
    BY <1>0, <1>1
  <2> HIDE DEF Right
  <2>3. k \in 1 .. n /\ k - 1 \in 0 .. n /\ Right(k - 1)
    BY <1>0, <2>1, <2>2 DEF Wrong
  <2>4. PICK q : q = flushed[k - 1]
    OBVIOUS
  <2>5. PICK f : f = flush_segment(q, k, Off)
    OBVIOUS
  <2>6. /\ Holds(q, D, enc, src, R) /\ DOMAIN q.segs = 1 .. n /\ flushed[k] = f
        /\ \A j \in 1 .. k - 1 : q.segs[j].dirty = {}
    BY <1>1, <2>3, <2>4, <2>5 DEF Right
  <2>7. /\ Holds(f, D, enc, src, R) /\ DOMAIN f.segs = DOMAIN q.segs /\ f.segs[k].dirty = {}
        /\ \A j \in DOMAIN q.segs \ {k} : f.segs[j] = q.segs[j]
    <3>1. Holds(f, D, enc, src, R) /\ Flushed(f, q, k)
      BY <2>3, <2>5, <2>6, FlushRight
    <3> QED BY <3>1 DEF Flushed
  <2>8. \A j \in 1 .. k : f.segs[j].dirty = {}
    <3> SUFFICES ASSUME NEW j \in 1 .. k PROVE f.segs[j].dirty = {}
      OBVIOUS
    <3>1. CASE j # k
      <4>1. j \in 1 .. k - 1 /\ j \in DOMAIN q.segs \ {k}
        BY <1>0, <2>3, <2>6, <3>1
      <4> QED BY <2>6, <2>7, <4>1
    <3> QED BY <2>7, <3>1
  <2>9. Right(k)
    BY <2>6, <2>7, <2>8 DEF Right
  <2> QED BY <2>1, <2>9 DEF Wrong
<1>3. PICK f : f = block_cache_flush(c, Off)
  OBVIOUS
<1>4. Holds(f, D, enc, src, R) /\ DOMAIN f.segs = 1 .. n /\ \A j \in 1 .. n : f.segs[j].dirty = {}
  <2>1. Right(n)
    BY <1>0, <1>2
  <2> HIDE DEF Right
  <2> QED BY <1>1, <1>3, <2>1 DEF Right
<1>5. \A b \in Blocks : f.dev[b] = D[b]
  BY <1>4 DEF Holds, DirtyAt
<1>6. f.dev \in Disk
  BY <1>4, CacheFields DEF Holds
<1> QED BY <1>3, <1>5, <1>6 DEF Disk

\* raw_write goes from block to block.
Puts(put, c, first, blocks, base) ==
  /\ put[0] = c
  /\ \A i \in 1 .. Len(blocks) :
       put[i] = block_cache_pwrite(put[i - 1], first + i - 1, Stored(blocks[i], first + i - 1), TRUE, base)
  /\ raw_write(c, first, blocks, base) = put[Len(blocks)]
LEMMA WriteSteps ==
  ASSUME NEW c, NEW first \in Nat, NEW blocks, Len(blocks) \in Nat, NEW base
  PROVE  \E put : Puts(put, c, first, blocks, base)
<1> USE DEF Puts
<1> DEFINE n == Len(blocks)
           step(r, i) == block_cache_pwrite(r, first + i - 1, Stored(blocks[i], first + i - 1), TRUE, base)
           F(f, m) == [i \in 0 .. m |-> IF i = 0 THEN c ELSE step(f[i - 1], i)]
           put == CHOOSE f : f = F(f, n)
<1>1. raw_write(c, first, blocks, base) = put[n]
  BY DEF raw_write
<1> HIDE DEF step, n
<1> DEFINE Missing == {m \in 0 .. n : ~\E f : f = F(f, m)}
<1>0. n \in Nat
  BY DEF n
<1>2. Missing = {}
  <2> SUFFICES ASSUME Missing # {} PROVE FALSE
    OBVIOUS
  <2>0. Missing \subseteq Nat
    BY <1>0
  <2> HIDE DEF Missing
  <2>1. PICK m \in Missing : \A x \in Missing : m <= x
    BY <2>0, LeastNumber
  <2>2. m # 0
    <3>1. F([i \in 0 .. 0 |-> c], 0) = [i \in 0 .. 0 |-> c]
      OBVIOUS
    <3> QED BY <2>1, <3>1 DEF Missing
  <2>3. m \in 0 .. n /\ m - 1 \in 0 .. n /\ m - 1 \notin Missing
    <3>1. m \in 0 .. n
      BY <2>1 DEF Missing
    <3>2. m - 1 \in 0 .. n /\ ~(m <= m - 1)
      BY <1>0, <2>2, <3>1
    <3> QED BY <2>1, <3>1, <3>2
  <2>4. PICK f : f = F(f, m - 1)
    BY <2>3 DEF Missing
  <2> DEFINE g == [i \in 0 .. m |-> IF i = m THEN step(f[m - 1], m) ELSE f[i]]
  <2>5. g = F(g, m)
    BY <1>0, <2>2, <2>3, <2>4
  <2> QED BY <2>1, <2>5 DEF Missing
<1>3. put = F(put, n)
  <2>1. n \in 0 .. n /\ n \notin Missing
    BY <1>0, <1>2
  <2>2. \E f : f = F(f, n)
    BY <2>1
  <2> HIDE DEF F
  <2> QED BY <2>2
<1> HIDE DEF put
<1>4. put[0] = c /\ \A i \in 1 .. n : put[i] = step(put[i - 1], i)
  BY <1>0, <1>3
<1> QED BY <1>1, <1>4 DEF n, step

\* A device with contents D, after the first i of blocks were written from
\* block first on.
Put(D, first, blocks, i) ==
  [b \in Blocks |-> IF b \in first .. first + i - 1 THEN Stored(blocks[b - first + 1], b) ELSE D[b]]

LEMMA PutNext ==
  ASSUME NEW D \in Disk, NEW first \in Nat, NEW blocks \in Seq(Content), NEW i \in 1 .. Len(blocks),
         first + i - 1 \in Blocks
  PROVE  Put(D, first, blocks, i) = Overwrite(Put(D, first, blocks, i - 1), first + i - 1,
                                              Stored(blocks[i], first + i - 1))
<1> DEFINE y == first + i - 1
<1>0. Len(blocks) \in Nat /\ DevBlocks \in Nat
  BY LenProperties, Sizes
<1>1. ASSUME NEW b \in Blocks
      PROVE  b \in first .. first + i - 1 <=> b = y \/ b \in first .. first + (i - 1) - 1
  BY <1>0 DEF Blocks
<1>2. y \notin first .. first + (i - 1) - 1 /\ y - first + 1 = i
  BY <1>0
<1> HIDE DEF y
<1>3. ASSUME NEW b \in Blocks
      PROVE  (IF b \in first .. first + i - 1 THEN Stored(blocks[b - first + 1], b) ELSE D[b])
             = IF b = y THEN Stored(blocks[i], y)
               ELSE IF b \in first .. first + (i - 1) - 1 THEN Stored(blocks[b - first + 1], b) ELSE D[b]
  BY <1>1, <1>2
<1> QED BY <1>3 DEF Put, y, Overwrite

LEMMA StoredTyped ==
  ASSUME layout.dst \in Nat, NEW content \in Content, NEW b \in Int
  PROVE  Stored(content, b) \in Content
BY CryptoTyped DEF Stored

\* raw_write puts the blocks where they belong.
MayWrite(first, n, R, T, enc) ==
  \A x \in first .. first + n - 1 : x \in Blocks /\ x \in R /\ SegOf(x) \in T \ enc
Writes(w, E, c, D, first, blocks, base) ==
  w = raw_write(c, first, blocks, base) /\ E = Put(D, first, blocks, Len(blocks))
LEMMA WriteRight ==
  ASSUME NEW c, NEW D \in Disk, NEW enc, NEW src \in Nat, NEW R, Holds(c, D, enc, src, R),
         NEW first \in Nat, NEW blocks \in Seq(Content), NEW base, slots \in Nat \ {0}, layout.dst \in Nat,
         NEW T, Ready(T, base), InUse(c) \subseteq T,
         MayWrite(first, Len(blocks), R, T, enc),
         NEW w, NEW E, Writes(w, E, c, D, first, blocks, base)
  PROVE  E \in Disk /\ Holds(w, E, enc, src, R) /\ InUse(w) \subseteq T
<1> DEFINE n == Len(blocks)
           to(i) == Put(D, first, blocks, i)
<1>0. n \in Nat /\ \A i \in 1 .. n : blocks[i] \in Content
  BY LenProperties, ElementOfSeq
<1>1. PICK put : /\ put[0] = c
                 /\ \A i \in 1 .. n : put[i] = block_cache_pwrite(put[i - 1], first + i - 1,
                                                 Stored(blocks[i], first + i - 1), TRUE, base)
                 /\ w = put[n]
  <2>1. \E put : Puts(put, c, first, blocks, base)
    BY <1>0, WriteSteps
  <2> QED BY <2>1, Zenon DEF Puts, Writes
<1>2. to(0) = D
  BY DEF Put, Disk
<1>a. \A x \in first .. first + n - 1 : x \in Blocks /\ x \in R /\ SegOf(x) \in T \ enc
  BY DEF MayWrite
<1>3. ASSUME NEW i \in 1 .. n
      PROVE  /\ first + i - 1 \in first .. first + n - 1 /\ first + i - 1 \in Blocks
             /\ to(i) = Overwrite(to(i - 1), first + i - 1, Stored(blocks[i], first + i - 1))
  <2>1. first + i - 1 \in first .. first + n - 1
    BY <1>0
  <2>2. first + i - 1 \in Blocks
    BY <1>a, <2>1
  <2> QED BY <2>1, <2>2, PutNext
<1> HIDE DEF n, to
<1> DEFINE Right(i) == to(i) \in Disk /\ Holds(put[i], to(i), enc, src, R) /\ InUse(put[i]) \subseteq T
           Wrong == {i \in 0 .. n : ~Right(i)}
<1>4. Wrong = {}
  <2> SUFFICES ASSUME Wrong # {} PROVE FALSE
    OBVIOUS
  <2>0. Wrong \subseteq Nat
    BY <1>0
  <2> HIDE DEF Wrong
  <2>1. PICK i \in Wrong : \A x \in Wrong : i <= x
    BY <2>0, LeastNumber
  <2>2. Right(0)
    BY <1>1, <1>2
  <2> HIDE DEF Right
  <2>3. i \in 1 .. n /\ i - 1 \in 0 .. n /\ Right(i - 1)
    BY <1>0, <2>1, <2>2 DEF Wrong
  <2>4. PICK q : q = put[i - 1]
    OBVIOUS
  <2>5. PICK y \in Blocks : y = first + i - 1
    BY <1>3, <2>3
  <2>6. y \in R /\ SegOf(y) \in T /\ SegOf(y) \notin enc /\ y \in Int
    <3>1. y \in first .. first + n - 1
      BY <1>3, <2>3, <2>5
    <3>2. y \in Int
      BY Sizes DEF Blocks
    <3> QED BY <1>a, <3>1, <3>2
  <2>7. PICK content \in Content : content = Stored(blocks[i], y)
    BY <1>0, <2>3, <2>6, StoredTyped
  <2>8. PICK before \in Disk : before = to(i - 1)
    BY <2>3 DEF Right
  <2>9. PICK after : after = to(i)
    OBVIOUS
  <2>10. PICK p : p = put[i]
    OBVIOUS
  <2>11. Holds(q, before, enc, src, R) /\ InUse(q) \subseteq T
    BY <2>3, <2>4, <2>8 DEF Right
  <2>12. after = Overwrite(before, y, content) /\ p = block_cache_pwrite(q, y, content, TRUE, base)
    BY <1>1, <1>3, <2>3, <2>4, <2>5, <2>7, <2>8, <2>9, <2>10
  <2>13. Room(q, SegOf(y), base)
    BY <2>6, <2>11, ReadyHasRoom
  <2>14. after \in Disk /\ Holds(p, after, enc, src, R) /\ InUse(p) \subseteq InUse(q) \cup {SegOf(y)}
    <3>1. PICK streamed \in BOOLEAN : streamed = TRUE
      OBVIOUS
    <3>2. p = block_cache_pwrite(q, y, content, streamed, base)
      BY <2>12, <3>1
    <3>3. Writable(q, y, enc, R, base)
      BY <2>6, <2>13 DEF Writable
    <3>4. after = Overwrite(before, y, content)
      BY <2>12
    <3>5. Holds(q, before, enc, src, R)
      BY <2>11
    <3>6. after \in Disk
      BY <3>4 DEF Overwrite, Disk
    <3>7. Holds(p, after, enc, src, R)
      BY <3>2, <3>3, <3>4, <3>5, PwriteRight, ZenonT(60)
    <3>8. InUse(p) \subseteq InUse(q) \cup {SegOf(y)}
      BY <3>2, <3>3, <3>4, <3>5, <3>7, PwriteRight
    <3> QED BY <3>6, <3>7, <3>8
  <2>15. Right(i)
    BY <2>6, <2>9, <2>10, <2>11, <2>14 DEF Right
  <2> QED BY <2>1, <2>15 DEF Wrong
<1>5. Right(n)
  BY <1>0, <1>4
<1> QED BY <1>1, <1>5 DEF to, n, Writes

----------------------------------------------------------------------------
(* The inductive invariant, in parts                                       *)

\* The segments that are decrypted, the key, and the blocks that are written.
Enc == IF layout.src_key THEN Segments(layout.src, layout.count) ELSE {}
Key == IF layout.src_key THEN layout.src ELSE Off
Region == Destination \cup {layout.last}

\* The device before the update, and after n blocks of the new image.
Original == [b \in Blocks |-> Before(b)]
Progress(n) == Put(Original, layout.dst, Target, n)

\* What is applied, as Init chooses it.
Inputs ==
  /\ layout \in Layouts /\ patch \in Patches /\ slots \in CacheSizes /\ damage \in {"none", "short"}
  /\ \A i \in DOMAIN Image : Image[i] < layout.count
  /\ Source \cup Destination \cup {layout.last} \subseteq Blocks
  /\ Source \cap Destination = {} /\ layout.last \notin Source \cup Destination

\* What a sequence is, whatever its elements are.
IsSequence(s) == Len(s) \in Nat /\ s = [i \in 1 .. Len(s) |-> s[i]]

XdType ==
  /\ xd = [received |-> xd.received, header |-> xd.header, win |-> xd.win, ip |-> xd.ip, busy |-> xd.busy,
           out |-> xd.out, bytes_already_reported |-> xd.bytes_already_reported, blk |-> xd.blk,
           cur |-> xd.cur, end_of_patch |-> xd.end_of_patch]
  /\ {xd.received, xd.win, xd.ip, xd.bytes_already_reported} \subseteq Nat
  /\ {xd.header, xd.busy, xd.end_of_patch} \subseteq BOOLEAN
  /\ IsSequence(xd.out)

\* Where the window that is decoded starts.
WindowStart == IF xd.win = 1 THEN 0 ELSE patch.ends[xd.win - 1]

\* The decoder is inside of its window, and out is what it decoded of it.  Of a
\* window something is always left to be reported when it ends.
Decoding ==
  /\ xd.win <= xd.received /\ xd.received <= Available
  /\ xd.end_of_patch => xd.received = Available
  /\ xd.busy => /\ xd.win >= 1 /\ xd.ip >= WindowStart /\ xd.ip <= WindowEnd
                /\ Len(xd.out) = xd.ip - WindowStart
                /\ xd.bytes_already_reported = 0 \/ xd.bytes_already_reported < Len(xd.out)
  /\ ~xd.busy => /\ xd.out = <<>> /\ xd.bytes_already_reported = 0
                 /\ xd.ip = IF xd.win = 0 THEN 0 ELSE patch.ends[xd.win]

\* The callback is set from the start of the resource to its end.
Callback ==
  /\ pc \in {"resource", "read", "error", "finish", "done", "failed"}
  /\ decrypt = IF pc \in {"read", "error", "failed"} THEN Key ELSE Off

\* out and got are parts of the new image that follow each other.
Stream ==
  /\ xd.out = SubSeq(Target, xd.ip - Len(xd.out) + 1, xd.ip)
  /\ got = SubSeq(Target, 1, xd.ip - Len(xd.out) + xd.bytes_already_reported)
  /\ pc \in {"finish", "done"} => got = Target

\* The decoder holds a block of the old image, or none yet.
Holding ==
  \/ xd.blk = Off /\ xd.cur = <<>>
  \/ /\ xd.blk \in Nat /\ xd.blk * ReadBlocks <= layout.count
     /\ xd.cur = [i \in 1 .. SourceCount(xd.blk * ReadBlocks) |-> Plain(OldBlock(xd.blk * ReadBlocks + i - 1))]

\* Cache and device hold what was written so far, and the old contents.
Contents ==
  /\ pc \in {"resource", "read", "error", "finish"} =>
       /\ Holds(Cache, Progress(Len(got)), Enc, layout.src, Region)
       /\ InUse(Cache) \subseteq Touched
  /\ pc = "done" => dev = Overwrite(Progress(Len(Target)), layout.last, Updated)
  /\ pc = "failed" /\ ~layout.src_key => \A b \in Blocks \ Region : dev[b] = Before(b)

Steady == Inputs /\ XdType /\ Decoding /\ Callback
DInv == Steady /\ (Separate => Stream /\ Holding /\ Contents)

----------------------------------------------------------------------------
(* Layout, patch and the new image                                         *)

LEMMA InputTypes ==
  ASSUME Inputs
  PROVE  /\ layout.src \in Nat /\ layout.count \in Nat /\ layout.dst \in Nat /\ layout.last \in Nat
         /\ layout.src_key \in BOOLEAN /\ layout.dst_key \in BOOLEAN
         /\ slots \in Nat \ {0}
         /\ Image \in Seq(Nat \cup {New}) /\ Len(Image) \in Nat /\ DOMAIN Image = 1 .. Len(Image)
         /\ \A i \in 1 .. Len(Image) : Image[i] \in Nat \cup {New} /\ Image[i] < layout.count
<1>1. layout \in Layouts /\ patch \in Patches /\ slots \in CacheSizes
  BY DEF Inputs
<1>2. layout \in [src : Nat, count : Nat, dst : Nat, last : Nat, src_key : BOOLEAN, dst_key : BOOLEAN]
  BY <1>1, DeltaAssumption
<1>3. patch \in [ops : Seq(Nat \cup {New}), ends : Seq(Nat)] /\ slots \in Nat \ {0}
  BY <1>1, DeltaAssumption
<1>4. Image \in Seq(Nat \cup {New})
  BY <1>3 DEF Image
<1>5. Len(Image) \in Nat /\ DOMAIN Image = 1 .. Len(Image)
  BY <1>4, LenProperties
<1>6. \A i \in 1 .. Len(Image) : Image[i] \in Nat \cup {New}
  BY <1>4, ElementOfSeq
<1> QED BY <1>2, <1>3, <1>4, <1>5, <1>6 DEF Inputs

\* Windows are not empty, follow each other and end with the image.
LEMMA Windows ==
  ASSUME Inputs
  PROVE  /\ Len(patch.ends) \in Nat \ {0} /\ patch.ends[Len(patch.ends)] = Len(Image)
         /\ \A w \in 1 .. Len(patch.ends) : patch.ends[w] \in Nat /\ patch.ends[w] > 0 /\ patch.ends[w] <= Len(Image)
         /\ \A w \in 2 .. Len(patch.ends) : patch.ends[w - 1] < patch.ends[w]
<1>1. patch \in Patches /\ patch \in [ops : Seq(Nat \cup {New}), ends : Seq(Nat)]
  BY DeltaAssumption DEF Inputs
<1> DEFINE e == patch.ends
           n == Len(e)
<1>2. e \in Seq(Nat) /\ e # <<>> /\ Last(e) = Len(Image)
  BY <1>1, DeltaAssumption DEF Image
<1>3. \A i \in DOMAIN e : e[i] > 0 /\ \A j \in 1 .. i - 1 : e[j] < e[i]
  BY <1>1, DeltaAssumption
<1> HIDE DEF e
<1>4. n \in Nat \ {0} /\ DOMAIN e = 1 .. n /\ \A w \in 1 .. n : e[w] \in Nat
  BY <1>2, EmptySeq, LenProperties, ElementOfSeq
<1>5. e[n] = Len(Image)
  BY <1>2 DEF Last
<1> HIDE DEF n
<1>6. \A w \in 1 .. n : e[w] > 0 /\ e[w] <= e[n]
  <2> SUFFICES ASSUME NEW w \in 1 .. n PROVE e[w] > 0 /\ e[w] <= e[n]
    OBVIOUS
  <2>1. e[w] > 0 /\ e[w] \in Nat /\ e[n] \in Nat
    BY <1>3, <1>4
  <2>2. CASE w = n
    BY <2>1, <2>2
  <2>3. CASE w # n
    <3>1. w \in 1 .. n - 1 /\ n \in DOMAIN e
      BY <1>4, <2>3
    <3>2. e[w] < e[n]
      BY <1>3, <3>1
    <3> QED BY <2>1, <3>2
  <2> QED BY <2>2, <2>3
<1>7. \A w \in 2 .. n : e[w - 1] < e[w]
  <2> SUFFICES ASSUME NEW w \in 2 .. n PROVE e[w - 1] < e[w]
    OBVIOUS
  <2>1. w \in DOMAIN e /\ w - 1 \in 1 .. w - 1
    BY <1>4
  <2> QED BY <1>3, <2>1
<1> QED BY <1>4, <1>5, <1>6, <1>7 DEF e, n

LEMMA PlainTyped ==
  ASSUME NEW a \in Int, NEW k \in Kinds
  PROVE  Plain([at |-> a, of |-> k]) \in Content
<1>1. Off \in Int
  BY Sizes DEF Off
<1>2. [at |-> a, of |-> k] \in [at : Int, of : Kinds]
  OBVIOUS
<1> HIDE DEF Off
<1> QED BY <1>1, <1>2 DEF Plain, Content

LEMMA TargetType ==
  ASSUME Inputs
  PROVE  /\ Target \in Seq(Content) /\ Len(Target) = Len(Image) /\ DOMAIN Target = 1 .. Len(Image)
         /\ \A i \in 1 .. Len(Image) : Target[i] = Plain(NewBlock(i))
<1>1. Len(Image) \in Nat /\ DOMAIN Image = 1 .. Len(Image) /\ \A i \in 1 .. Len(Image) : Image[i] \in Int
  BY InputTypes DEF New
<1>2. ASSUME NEW i \in 1 .. Len(Image) PROVE Plain(NewBlock(i)) \in Content
  <2>1. i \in Int /\ Image[i] \in Int /\ "new" \in Kinds /\ "old" \in Kinds
    BY <1>1 DEF Kinds
  <2> QED BY <2>1, PlainTyped DEF NewBlock, OldBlock
<1>3. Target = [i \in 1 .. Len(Image) |-> Plain(NewBlock(i))]
  BY <1>1 DEF Target
<1> DEFINE n == Len(Image)
           t(i) == Plain(NewBlock(i))
<1> HIDE DEF n, t
<1>4. [i \in 1 .. n |-> t(i)] \in Seq(Content) /\ Len([i \in 1 .. n |-> t(i)]) = n
  BY <1>1, <1>2 DEF n, t
<1> QED BY <1>1, <1>3, <1>4 DEF n, t

LEMMA BeforeTyped ==
  ASSUME Inputs
  PROVE  /\ Original \in Disk
         /\ \A b \in Source : layout.src_key => Before(b).lba = b - layout.src
         /\ \A b \in Source : Plain(Before(b).v) = Plain(OldBlock(b - layout.src))
         /\ \A b \in Source : ~layout.src_key => Before(b) = Plain(OldBlock(b - layout.src))
<1>0. layout.src \in Nat /\ layout.src_key \in BOOLEAN
  BY InputTypes
<1>1. ASSUME NEW b \in Blocks PROVE Before(b) \in Content
  <2>1. b \in Int /\ b - layout.src \in Int /\ layout.src \in Int /\ "old" \in Kinds /\ "other" \in Kinds
    BY <1>0, Sizes DEF Blocks, Kinds
  <2>2. Plain(OldBlock(b - layout.src)) \in Content /\ Other(b) \in Content
    BY <2>1, PlainTyped DEF OldBlock, Other
  <2>3. disk_crypto_encrypt(Plain(OldBlock(b - layout.src)), layout.src, b) \in Content
    BY <2>1, <2>2, CryptoTyped
  <2> QED BY <2>2, <2>3 DEF Before
<1>2. Original \in Disk
  BY <1>1 DEF Original, Disk
<1> QED BY <1>0, <1>2 DEF Before, disk_crypto_encrypt, Plain

\* The blocks of the source, of the new image and the last one.
LEMMA Places ==
  ASSUME Inputs
  PROVE  /\ Source \subseteq Blocks /\ Region \subseteq Blocks /\ Source \cap Region = {}
         /\ layout.last \in Region /\ layout.last \in Blocks /\ layout.last \notin Destination
         /\ \A i \in 1 .. Len(Image) : layout.dst + i - 1 \in Destination
<1>1. layout.dst \in Nat /\ Len(Image) \in Nat
  BY InputTypes
<1> QED BY <1>1 DEF Inputs, Region, Destination

LEMMA TouchedFinite ==
  ASSUME Inputs
  PROVE  IsFiniteSet(Touched)
<1>1. ASSUME NEW b \in Blocks PROVE SegOf(b) \in Blocks
  <2>1. b \in Nat /\ SegBlocks \in Nat \ {0} /\ DevBlocks \in Nat \ {0} /\ b < DevBlocks
    BY Sizes DEF Blocks
  <2>2. b \div SegBlocks \in Nat /\ b \div SegBlocks <= b
    <3>1. PICK q \in Nat : q = b \div SegBlocks
      BY <2>1, Division
    <3>2. q * SegBlocks + (b % SegBlocks) = b /\ (b % SegBlocks) \in 0 .. SegBlocks - 1
      BY <2>1, <3>1, Division
    <3>3. q * SegBlocks >= q
      BY <2>1
    <3> QED BY <2>1, <3>1, <3>2, <3>3
  <2> QED BY <2>1, <2>2 DEF SegOf, Blocks
<1>2. Touched \subseteq Blocks
  <2>1. Source \subseteq Blocks /\ Destination \subseteq Blocks /\ layout.last \in Blocks
    BY Places DEF Region
  <2> QED BY <1>1, <2>1 DEF Touched, Segments, Source, Destination
<1>3. IsFiniteSet(Blocks)
  <2>1. PICK a \in Int, z \in Int : a = 0 /\ z = DevBlocks - 1
    BY Sizes
  <2>2. IsFiniteSet(a .. z)
    BY FS_Interval
  <2> QED BY <2>1, <2>2 DEF Blocks
<1> QED BY <1>2, <1>3, FS_Subset

\* Only the segments of the source are decrypted, and they keep their place in
\* the cache while there is decryption.
LEMMA Separated ==
  ASSUME Inputs, Separate
  PROVE  /\ \A x \in Source : SegOf(x) \in Touched /\ HasKey(Key, SegOf(x), Enc, layout.src)
         /\ \A x \in Region : SegOf(x) \in Touched \ Enc /\ HasKey(Off, SegOf(x), Enc, layout.src)
         /\ Ready(Touched, Key)
<1>0. layout.src_key \in BOOLEAN
  BY InputTypes
<1>1. ASSUME NEW x \in Source PROVE SegOf(x) \in Touched /\ HasKey(Key, SegOf(x), Enc, layout.src)
  <2>1. SegOf(x) \in Segments(layout.src, layout.count)
    BY DEF Source, Segments
  <2> QED BY <1>0, <2>1 DEF Touched, HasKey, KeyOf, Key, Enc
<1>2. ASSUME NEW x \in Region PROVE SegOf(x) \in Touched \ Enc /\ HasKey(Off, SegOf(x), Enc, layout.src)
  <2>1. SegOf(x) \in Segments(layout.dst, Len(Image)) \cup {SegOf(layout.last)}
    BY DEF Region, Destination, Segments
  <2>2. SegOf(x) \notin Enc
    BY <1>0, <2>1 DEF Enc, Separate
  <2> QED BY <2>1, <2>2 DEF Touched, HasKey, KeyOf
<1>3. Ready(Touched, Key)
  <2>1. slots \in Nat /\ IsFiniteSet(Touched) /\ Cardinality(Touched) \in Nat
    BY InputTypes, TouchedFinite, FS_CardinalityType
  <2> QED BY <1>0, <2>1 DEF Ready, Key, Separate
<1> QED BY <1>1, <1>2, <1>3

\* The device after n blocks of the new image.
LEMMA ProgressRight ==
  ASSUME Inputs, NEW n \in 0 .. Len(Image)
  PROVE  /\ Progress(n) \in Disk
         /\ \A b \in Blocks \ Destination : Progress(n)[b] = Before(b)
         /\ \A i \in 1 .. n : Progress(n)[layout.dst + i - 1] = Stored(Target[i], layout.dst + i - 1)
<1>0. /\ layout.dst \in Nat /\ Len(Image) \in Nat /\ DevBlocks \in Nat
      /\ Target \in Seq(Content) /\ Len(Target) = Len(Image) /\ Original \in Disk
  BY InputTypes, TargetType, BeforeTyped, Sizes
<1>1. \A i \in 1 .. Len(Image) : Target[i] \in Content
  BY <1>0, ElementOfSeq
<1>2. ASSUME NEW b \in Blocks
      PROVE  /\ Progress(n)[b] \in Content
             /\ b \notin Destination => Progress(n)[b] = Before(b)
  <2>1. Progress(n)[b] = IF b \in layout.dst .. layout.dst + n - 1 THEN Stored(Target[b - layout.dst + 1], b)
                                                                 ELSE Original[b]
    BY DEF Progress, Put
  <2>2. b \in Int /\ Original[b] = Before(b) /\ Original[b] \in Content
    BY <1>0 DEF Blocks, Original, Disk
  <2>3. CASE b \in layout.dst .. layout.dst + n - 1
    <3>1. b - layout.dst + 1 \in 1 .. Len(Image) /\ b \in Destination
      BY <1>0, <2>2, <2>3 DEF Destination
    <3>2. Stored(Target[b - layout.dst + 1], b) \in Content
      BY <1>0, <1>1, <2>2, <3>1, StoredTyped
    <3> QED BY <2>1, <2>3, <3>1, <3>2
  <2>4. CASE b \notin layout.dst .. layout.dst + n - 1
    BY <2>1, <2>2, <2>4
  <2> QED BY <2>3, <2>4
<1>3. Progress(n) \in Disk
  BY <1>2 DEF Progress, Put, Disk
<1>4. ASSUME NEW i \in 1 .. n
      PROVE  Progress(n)[layout.dst + i - 1] = Stored(Target[i], layout.dst + i - 1)
  <2>1. PICK b \in Blocks : b = layout.dst + i - 1
    <3>1. i \in 1 .. Len(Image)
      BY <1>0
    <3> QED BY <3>1, Places DEF Region
  <2>2. b \in layout.dst .. layout.dst + n - 1 /\ b - layout.dst + 1 = i
    BY <1>0, <2>1
  <2> QED BY <2>1, <2>2 DEF Progress, Put
<1> QED BY <1>2, <1>3, <1>4

\* What the cache shows of the source is the old image.
LEMMA SourceView ==
  ASSUME Inputs, Separate, NEW n \in 0 .. Len(Image), NEW x \in Source
  PROVE  View(Progress(n), Enc, layout.src, x) = Plain(OldBlock(x - layout.src))
<1>0. layout.src_key \in BOOLEAN /\ x \in Blocks /\ x \notin Destination
  BY InputTypes, Places DEF Region
<1>1. Progress(n)[x] = Before(x)
  BY <1>0, ProgressRight
<1>2. CASE layout.src_key
  <2>1. SegOf(x) \in Enc
    BY <1>2 DEF Enc, Source, Segments
  <2>2. disk_crypto_decrypt(Before(x), layout.src, x) = Plain(Before(x).v)
    BY <1>2, BeforeTyped DEF disk_crypto_decrypt
  <2> QED BY <1>1, <2>1, <2>2, BeforeTyped DEF View
<1>3. CASE ~layout.src_key
  BY <1>1, <1>3, BeforeTyped DEF View, Enc
<1> QED BY <1>0, <1>2, <1>3

----------------------------------------------------------------------------
(* The calls of the decoder, of process_resource and of the update's end   *)

\* Reading the source stays inside of it.
LEMMA SourceCountRight ==
  ASSUME Inputs, NEW off \in Nat, off <= layout.count
  PROVE  SourceCount(off) \in Nat /\ off + SourceCount(off) <= layout.count
<1>1. layout.count \in Nat /\ ReadBlocks \in Nat
  BY InputTypes, Sizes
<1> QED BY <1>1 DEF SourceCount

\* xdelta_read_source_callback returns the old image.
LEMMA ReadSource ==
  ASSUME Inputs, Separate, NEW c, NEW n \in 0 .. Len(Image),
         Holds(c, Progress(n), Enc, layout.src, Region), InUse(c) \subseteq Touched,
         NEW off \in Nat, off <= layout.count,
         NEW r, r = block_cache_pread(c, layout.src + off, SourceCount(off), Key)
  PROVE  /\ Holds(r.c, Progress(n), Enc, layout.src, Region) /\ InUse(r.c) \subseteq Touched
         /\ r.data = [i \in 1 .. SourceCount(off) |-> Plain(OldBlock(off + i - 1))]
<1>1. PICK m \in Nat : m = SourceCount(off) /\ off + m <= layout.count
  BY SourceCountRight
<1>2. PICK src \in Nat : src = layout.src
  BY InputTypes
<1>3. PICK b \in Nat : b = src + off
  OBVIOUS
<1>4. PICK base, enc, R, T : base = Key /\ enc = Enc /\ R = Region /\ T = Touched
  OBVIOUS
<1>5. PICK D \in Disk : D = Progress(n)
  BY ProgressRight
<1>6. ASSUME NEW x \in b .. b + m - 1 PROVE x \in Source
  <2>1. PICK count \in Nat : count = layout.count
    BY InputTypes
  <2>2. off + m <= count
    BY <1>1, <2>1
  <2>3. x \in src .. src + count - 1
    BY <1>3, <2>2
  <2> QED BY <1>2, <2>1, <2>3 DEF Source
<1>8. Readable(b, m, T, base, enc, src)
  <2>1. ASSUME NEW x \in b .. b + m - 1 PROVE x \in Blocks /\ SegOf(x) \in T /\ HasKey(base, SegOf(x), enc, src)
    <3>1. x \in Source
      BY <1>6
    <3> QED BY <1>2, <1>4, <3>1, Separated, Places
  <2> QED BY <2>1 DEF Readable
<1>9. /\ Ready(T, base) /\ InUse(c) \subseteq T /\ Holds(c, D, enc, src, R) /\ slots \in Nat \ {0}
      /\ r = block_cache_pread(c, b, m, base)
  BY <1>1, <1>2, <1>3, <1>4, <1>5, Separated, InputTypes
<1>10. /\ Holds(r.c, D, enc, src, R) /\ InUse(r.c) \subseteq T
       /\ r.data \in Seq(Content) /\ Len(r.data) = m
       /\ \A j \in 1 .. m : r.data[j] = View(D, enc, src, b + j - 1)
  <2>1. Holds(r.c, D, enc, src, R)
    BY <1>8, <1>9, PreadRight
  <2>2. InUse(r.c) \subseteq T /\ IsRead(r.data, b, m, D, enc, src)
    BY <1>8, <1>9, <2>1, PreadRight
  <2> QED BY <2>1, <2>2 DEF IsRead
<1>11. ASSUME NEW j \in 1 .. m PROVE r.data[j] = Plain(OldBlock(off + j - 1))
  <2>1. PICK x \in b .. b + m - 1 : x = b + j - 1
    BY <1>1, <1>3
  <2>2. View(D, enc, src, x) = Plain(OldBlock(x - src))
    BY <1>2, <1>4, <1>5, <1>6, SourceView
  <2>3. x - src = off + j - 1
    BY <1>3, <2>1
  <2> QED BY <1>10, <2>1, <2>2, <2>3
<1>12. r.data = [i \in 1 .. m |-> Plain(OldBlock(off + i - 1))]
  <2>1. r.data = [i \in 1 .. m |-> r.data[i]]
    BY <1>10, LenProperties
  <2> QED BY <1>11, <2>1
<1> QED BY <1>1, <1>2, <1>4, <1>5, <1>10, <1>12

\* Parts of the new image are written one after the other.
LEMMA ProgressNext ==
  ASSUME Inputs, NEW m \in 0 .. Len(Image), NEW k \in 0 .. Len(Image) - m, NEW piece,
         \A i \in 1 .. k : piece[i] = Target[m + i]
  PROVE  Progress(m + k) = Put(Progress(m), layout.dst + m, piece, k)
<1>0. layout.dst \in Nat /\ Len(Image) \in Nat /\ DevBlocks \in Nat
  BY InputTypes, Sizes
<1> DEFINE d == layout.dst
<1>1. ASSUME NEW b \in Blocks
      PROVE  Progress(m + k)[b] = Put(Progress(m), d + m, piece, k)[b]
  <2>0. b \in Int /\ d \in Nat
    BY <1>0 DEF Blocks
  <2>1. Progress(m + k)[b] = IF b \in d .. d + (m + k) - 1 THEN Stored(Target[b - d + 1], b) ELSE Original[b]
    BY DEF Progress, Put
  <2>2. Progress(m)[b] = IF b \in d .. d + m - 1 THEN Stored(Target[b - d + 1], b) ELSE Original[b]
    BY DEF Progress, Put
  <2>3. Put(Progress(m), d + m, piece, k)[b]
          = IF b \in d + m .. d + m + k - 1 THEN Stored(piece[b - (d + m) + 1], b) ELSE Progress(m)[b]
    BY DEF Put
  <2> HIDE DEF d
  <2>4. CASE b \in d + m .. d + m + k - 1
    <3>1. b - (d + m) + 1 \in 1 .. k /\ m + (b - (d + m) + 1) = b - d + 1 /\ b \in d .. d + (m + k) - 1
      BY <1>0, <2>0, <2>4
    <3>2. piece[b - (d + m) + 1] = Target[b - d + 1]
      BY <3>1
    <3> QED BY <2>1, <2>3, <2>4, <3>1, <3>2
  <2>5. CASE b \notin d + m .. d + m + k - 1
    <3>1. b \in d .. d + m - 1 <=> b \in d .. d + (m + k) - 1
      BY <1>0, <2>0, <2>5
    <3> QED BY <2>1, <2>2, <2>3, <2>5, <3>1
  <2> QED BY <2>4, <2>5
<1>2. Progress(m + k) = [b \in Blocks |-> Progress(m + k)[b]]
  BY DEF Progress, Put
<1>3. Put(Progress(m), d + m, piece, k) = [b \in Blocks |-> Put(Progress(m), d + m, piece, k)[b]]
  BY DEF Put
<1> QED BY <1>1, <1>2, <1>3

\* process_resource writes the next part of the new image.
LEMMA WritePiece ==
  ASSUME Inputs, Separate, NEW c, NEW m \in 0 .. Len(Image), NEW k \in 0 .. Len(Image) - m,
         Holds(c, Progress(m), Enc, layout.src, Region), InUse(c) \subseteq Touched,
         NEW piece \in Seq(Content), Len(piece) = k, \A i \in 1 .. k : piece[i] = Target[m + i],
         NEW w, w = raw_write(c, layout.dst + m, piece, Key)
  PROVE  Holds(w, Progress(m + k), Enc, layout.src, Region) /\ InUse(w) \subseteq Touched
<1>0. layout.dst \in Nat /\ Len(Image) \in Nat /\ slots \in Nat \ {0}
  BY InputTypes
<1>1. PICK src \in Nat : src = layout.src
  BY InputTypes
<1>2. PICK first \in Nat : first = layout.dst + m
  BY <1>0
<1>3. PICK base, enc, R, T : base = Key /\ enc = Enc /\ R = Region /\ T = Touched
  OBVIOUS
<1>4. PICK D \in Disk : D = Progress(m)
  BY ProgressRight
<1>5. ASSUME NEW x \in first .. first + Len(piece) - 1
      PROVE  x \in Blocks /\ x \in R /\ SegOf(x) \in T \ enc
  <2>a. PICK d \in Nat : d = layout.dst
    BY <1>0
  <2>b. PICK l \in Nat : l = Len(Image)
    BY <1>0
  <2>c. first = d + m /\ m + k <= l /\ x \in first .. first + k - 1
    BY <1>2, <2>a, <2>b
  <2>d. x \in d .. d + l - 1
    BY <2>c
  <2>1. x \in Destination
    BY <2>a, <2>b, <2>d DEF Destination
  <2> QED BY <1>3, <2>1, Places, Separated DEF Region
<1>6. PICK E : E = Put(D, first, piece, Len(piece))
  OBVIOUS
<1>7. /\ Ready(T, base) /\ InUse(c) \subseteq T /\ Holds(c, D, enc, src, R)
      /\ w = raw_write(c, first, piece, base)
  BY <1>1, <1>2, <1>3, <1>4, Separated
<1>8. Holds(w, E, enc, src, R) /\ InUse(w) \subseteq T
  <2>1. MayWrite(first, Len(piece), R, T, enc)
    BY <1>5 DEF MayWrite
  <2>2. Writes(w, E, c, D, first, piece, base)
    BY <1>6, <1>7 DEF Writes
  <2>3. Holds(w, E, enc, src, R)
    BY <1>0, <1>7, <2>1, <2>2, WriteRight
  <2> QED BY <1>0, <1>7, <2>1, <2>2, <2>3, WriteRight
<1>9. E = Progress(m + k)
  BY <1>2, <1>4, <1>6, ProgressNext
<1> QED BY <1>1, <1>3, <1>8, <1>9

\* The function after the resource changes one block and nothing else, if
\* there is no decryption any more.
LEMMA UpdateRight ==
  ASSUME NEW c, NEW D \in Disk, NEW enc, NEW src \in Nat, NEW R, Holds(c, D, enc, src, R),
         slots \in Nat \ {0}, decrypt = Off, layout.last \in Blocks, layout.last \in R,
         SegOf(layout.last) \notin enc
  PROVE  Update(c).dev = Overwrite(D, layout.last, Updated)
<1>1. PICK b \in Blocks : b = layout.last
  OBVIOUS
<1>2. b \in Nat /\ b .. b + 1 - 1 = {b}
  BY Sizes DEF Blocks
<1>3. PICK base : base = Off
  OBVIOUS
<1>4. PICK T : T = InUse(c) \cup {SegOf(b)}
  OBVIOUS
<1>5. Ready(T, base) /\ HasKey(base, SegOf(b), enc, src)
  BY <1>1, <1>3 DEF Ready, HasKey, KeyOf
<1>a. PICK n \in Nat : n = 1
  OBVIOUS
<1>6. PICK r : r = block_cache_pread(c, b, n, base)
  OBVIOUS
<1>7. Holds(r.c, D, enc, src, R)
  <2>1. Readable(b, n, T, base, enc, src)
    BY <1>2, <1>4, <1>5, <1>a DEF Readable
  <2>2. InUse(c) \subseteq T
    BY <1>4
  <2> QED BY <1>2, <1>5, <1>6, <2>1, <2>2, PreadRight
<1>8. PICK content \in Content : content = Updated
  <2>1. layout.last \in Int /\ "updated" \in Kinds
    BY Sizes DEF Blocks, Kinds
  <2> QED BY <2>1, PlainTyped DEF Updated
<1>9. PICK q, streamed : q = r.c /\ streamed = FALSE
  OBVIOUS
<1>10. PICK w : w = block_cache_pwrite(q, b, content, streamed, base)
  OBVIOUS
<1>11. PICK E \in Disk : E = Overwrite(D, b, content)
  BY DEF Overwrite, Disk
<1>12. Holds(w, E, enc, src, R)
  <2>1. Writable(q, b, enc, R, base)
    BY <1>1, <1>3 DEF Writable, Room
  <2>2. Holds(q, D, enc, src, R)
    BY <1>7, <1>9
  <2> QED BY <1>10, <1>11, <2>1, <2>2, PwriteRight
<1>13. block_cache_flush(w, Off).dev = E
  BY <1>12, FlushAllRight
<1>14. Update(c) = block_cache_flush(w, Off)
  BY <1>1, <1>3, <1>6, <1>8, <1>9, <1>10, <1>a DEF Update
<1> QED BY <1>1, <1>8, <1>11, <1>13, <1>14

----------------------------------------------------------------------------
(* What does not change                                                    *)

\* Everything that follows from layout, patch, slots and damage stays.
LEMMA InputsKept ==
  ASSUME Inputs, UNCHANGED input
  PROVE  /\ layout' = layout /\ patch' = patch /\ slots' = slots /\ damage' = damage
         /\ Inputs' /\ Image' = Image /\ Enc' = Enc /\ Key' = Key /\ Region' = Region /\ Touched' = Touched
         /\ Separate' = Separate /\ Target' = Target /\ Available' = Available /\ Updated' = Updated
<1>1. layout' = layout /\ patch' = patch /\ slots' = slots /\ damage' = damage
  BY DEF input
<1>2. Image' = Image
  BY <1>1 DEF Image
<1>3. Inputs'
  BY <1>1, <1>2 DEF Inputs, Source, Destination
<1>4. Enc' = Enc /\ Key' = Key
  BY <1>1, Zenon DEF Enc, Key, Segments, SegOf
<1>5. Region' = Region /\ Available' = Available /\ Updated' = Updated
  BY <1>1, <1>2 DEF Region, Available, Updated, Destination, Plain
<1>6. Touched' = Touched
  BY <1>1, <1>2, Zenon DEF Touched, Segments, SegOf
<1>7. Separate' = Separate
  BY <1>1, <1>2, <1>6, Zenon DEF Separate, Segments, SegOf
<1>8. Target' = Target
  BY <1>1, <1>2, Zenon DEF Target, NewBlock, Plain, OldBlock, Image
<1> QED BY <1>1, <1>2, <1>3, <1>4, <1>5, <1>6, <1>7, <1>8

LEMMA ProgressKept ==
  ASSUME Inputs, UNCHANGED input
  PROVE  Progress(Len(got))' = Progress(Len(got')) /\ Progress(Len(Target))' = Progress(Len(Target))
         /\ \A b \in Blocks : Before(b)' = Before(b)
<1>1. layout' = layout /\ patch' = patch /\ Target' = Target
  BY InputsKept
<1>2. \A b \in Blocks : Before(b)' = Before(b)
  BY <1>1 DEF Before, Source, Other, OldBlock, Plain, disk_crypto_encrypt
<1>3. Original' = Original
  BY <1>2, Zenon DEF Original
<1>4. Progress(Len(got))' = Progress(Len(got'))
  BY <1>1, <1>3, Zenon DEF Progress, Put, Stored
<1>5. Progress(Len(Target))' = Progress(Len(Target))
  BY <1>1, <1>3, Zenon DEF Progress, Put, Stored
<1> QED BY <1>2, <1>4, <1>5

----------------------------------------------------------------------------
(* Sequences, whatever their elements are                                  *)

LEMMA SequenceOf ==
  ASSUME NEW s, IsSequence(s)
  PROVE  s \in Seq({s[i] : i \in 1 .. Len(s)}) /\ Len(s) \in Nat
<1> DEFINE n == Len(s)
           S == {s[i] : i \in 1 .. n}
           t == [i \in 1 .. n |-> s[i]]
<1>1. n \in Nat /\ s = t
  BY DEF IsSequence
<1> HIDE DEF n
<1>2. t \in Seq(S)
  BY <1>1
<1> QED BY <1>1, <1>2 DEF n

LEMMA SequenceIn ==
  ASSUME NEW S, NEW s, IsSequence(s), \A i \in 1 .. Len(s) : s[i] \in S
  PROVE  s \in Seq(S)
<1> DEFINE A == {s[i] : i \in 1 .. Len(s)}
<1>1. s \in Seq(A)
  BY SequenceOf
<1>2. A \subseteq S
  OBVIOUS
<1> HIDE DEF A
<1> QED BY <1>1, <1>2, SeqMonotonic

LEMMA Typed ==
  ASSUME NEW S, NEW s \in Seq(S)
  PROVE  IsSequence(s)
<1>1. Len(s) \in Nat /\ DOMAIN s = 1 .. Len(s) /\ s \in [1 .. Len(s) -> S]
  BY LenProperties
<1> QED BY <1>1 DEF IsSequence

LEMMA Enumerated ==
  ASSUME NEW n \in Nat, NEW f, f = [i \in 1 .. n |-> f[i]]
  PROVE  IsSequence(f) /\ Len(f) = n
<1> DEFINE S == {f[i] : i \in 1 .. n}
           t == [i \in 1 .. n |-> f[i]]
<1>1. t \in Seq(S) /\ Len(t) = n
  OBVIOUS
<1>2. f = t
  OBVIOUS
<1> HIDE DEF t
<1> QED BY <1>1, <1>2, Typed

\* u is s and then t.
IsJoin(u, s, t) ==
  /\ IsSequence(u) /\ Len(u) = Len(s) + Len(t)
  /\ \A i \in 1 .. Len(s) : u[i] = s[i]
  /\ \A i \in 1 .. Len(t) : u[Len(s) + i] = t[i]
LEMMA Joined ==
  ASSUME NEW s, IsSequence(s), NEW t, IsSequence(t), NEW u, u = s \o t
  PROVE  IsJoin(u, s, t)
<1> DEFINE A == {s[i] : i \in 1 .. Len(s)}
           B == {t[i] : i \in 1 .. Len(t)}
           S == A \cup B
<1>1. s \in Seq(A) /\ t \in Seq(B) /\ Len(s) \in Nat /\ Len(t) \in Nat
  BY SequenceOf
<1> HIDE DEF A, B
<1>2. s \in Seq(S) /\ t \in Seq(S)
  BY <1>1, SeqMonotonic
<1> HIDE DEF S
<1>3. /\ u \in Seq(S) /\ Len(u) = Len(s) + Len(t)
      /\ \A i \in 1 .. Len(s) + Len(t) : u[i] = IF i <= Len(s) THEN s[i] ELSE t[i - Len(s)]
  BY <1>2, ConcatProperties
<1>4. \A i \in 1 .. Len(s) : u[i] = s[i]
  BY <1>1, <1>3
<1>5. ASSUME NEW i \in 1 .. Len(t) PROVE u[Len(s) + i] = t[i]
  <2>1. Len(s) + i \in 1 .. Len(s) + Len(t) /\ ~(Len(s) + i <= Len(s)) /\ Len(s) + i - Len(s) = i
    BY <1>1
  <2> QED BY <1>3, <2>1
<1> QED BY <1>3, <1>4, <1>5, Typed DEF IsJoin

\* u is what s has from a to n.
IsCut(u, s, a, n) ==
  /\ IsSequence(u) /\ Len(u) = n - a + 1
  /\ \A i \in 1 .. n - a + 1 : u[i] = s[a - 1 + i]
LEMMA Cut ==
  ASSUME NEW s, IsSequence(s), NEW a \in Nat \ {0}, NEW n \in Nat, a <= n + 1, n <= Len(s),
         NEW u, u = SubSeq(s, a, n)
  PROVE  IsCut(u, s, a, n)
<1>1. Len(s) \in Nat
  BY DEF IsSequence
<1>2. PICK k \in Nat : k = n - a + 1
  OBVIOUS
<1>3. u = [i \in 1 .. k |-> s[a - 1 + i]]
  <2>1. u = [i \in 1 .. n - a + 1 |-> s[i + a - 1]]
    BY DEF SubSeq
  <2>2. \A i \in 1 .. k : i + a - 1 = a - 1 + i
    OBVIOUS
  <2> QED BY <1>2, <2>1, <2>2
<1>4. \A i \in 1 .. k : u[i] = s[a - 1 + i]
  BY <1>3
<1>5. u = [i \in 1 .. k |-> u[i]]
  BY <1>3, <1>4
<1>6. IsSequence(u) /\ Len(u) = k
  BY <1>5, Enumerated
<1> QED BY <1>2, <1>4, <1>6 DEF IsCut

\* Sequences with the same elements are the same.
LEMMA SameSequence ==
  ASSUME NEW s, IsSequence(s), NEW t, IsSequence(t), Len(s) = Len(t), \A i \in 1 .. Len(s) : s[i] = t[i]
  PROVE  s = t
BY DEF IsSequence

----------------------------------------------------------------------------
(* What the invariant says of the decoder                                  *)

LEMMA DecodingSizes ==
  ASSUME Steady
  PROVE  /\ Len(xd.out) \in Nat /\ xd.bytes_already_reported \in Nat /\ xd.ip \in Nat /\ Len(Image) \in Nat
         /\ xd.win \in Nat /\ xd.received \in Nat
         /\ xd.bytes_already_reported <= Len(xd.out) /\ Len(xd.out) <= xd.ip /\ xd.ip <= Len(Image)
         /\ Available \in Nat /\ Available <= Len(patch.ends) /\ Len(patch.ends) \in Nat
         /\ xd.busy => /\ xd.win \in 1 .. Len(patch.ends) /\ WindowStart \in Nat /\ WindowEnd \in Nat
                       /\ WindowStart < WindowEnd /\ WindowEnd <= Len(Image)
<1> DEFINE e == patch.ends
           r == xd.bytes_already_reported
<1>1. /\ r \in Nat /\ xd.ip \in Nat /\ xd.win \in Nat /\ xd.received \in Nat /\ xd.busy \in BOOLEAN
      /\ Len(xd.out) \in Nat /\ IsSequence(xd.out)
  BY DEF Steady, XdType, IsSequence
<1>2. /\ Len(e) \in Nat \ {0} /\ e[Len(e)] = Len(Image)
      /\ \A w \in 1 .. Len(e) : e[w] \in Nat /\ e[w] > 0 /\ e[w] <= Len(Image)
      /\ \A w \in 2 .. Len(e) : e[w - 1] < e[w]
  BY Windows DEF Steady
<1>3. Len(Image) \in Nat
  BY InputTypes DEF Steady
<1>4. Available \in Nat /\ Available <= Len(e)
  <2>1. PICK n \in Nat \ {0} : n = Len(patch.ends)
    BY <1>2
  <2>2. Available = n - (IF damage = "short" THEN 1 ELSE 0)
    BY <2>1 DEF Available
  <2>3. CASE damage = "short"
    BY <2>1, <2>2, <2>3
  <2>4. CASE damage # "short"
    BY <2>1, <2>2, <2>4
  <2> QED BY <2>3, <2>4
<1>5. xd.win <= xd.received /\ xd.received <= Available /\ xd.win <= Len(e)
  <2>1. xd.win <= xd.received /\ xd.received <= Available
    BY DEF Steady, Decoding
  <2> QED BY <1>1, <1>2, <1>4, <2>1
<1>6. ASSUME xd.busy
      PROVE  /\ xd.win \in 1 .. Len(e) /\ WindowStart \in Nat /\ WindowEnd \in Nat
             /\ WindowStart < WindowEnd /\ WindowEnd <= Len(Image)
             /\ r <= Len(xd.out) /\ Len(xd.out) <= xd.ip /\ xd.ip <= Len(Image)
  <2>1. /\ xd.win >= 1 /\ xd.ip >= WindowStart /\ xd.ip <= WindowEnd /\ Len(xd.out) = xd.ip - WindowStart
        /\ r = 0 \/ r < Len(xd.out)
    BY <1>6 DEF Steady, Decoding
  <2>2. xd.win \in 1 .. Len(e)
    BY <1>1, <1>2, <1>5, <2>1
  <2>3. WindowEnd \in Nat /\ WindowEnd > 0 /\ WindowEnd <= Len(Image)
    BY <1>2, <2>2 DEF WindowEnd
  <2>4. WindowStart \in Nat /\ WindowStart < WindowEnd
    <3>1. CASE xd.win = 1
      BY <2>3, <3>1 DEF WindowStart
    <3>2. CASE xd.win # 1
      <4>1. xd.win \in 2 .. Len(e) /\ xd.win - 1 \in 1 .. Len(e)
        BY <1>2, <2>2, <3>2
      <4> QED BY <1>2, <3>2, <4>1 DEF WindowStart, WindowEnd
    <3> QED BY <3>1, <3>2
  <2> QED BY <1>1, <1>3, <2>1, <2>2, <2>3, <2>4
<1>7. ASSUME ~xd.busy
      PROVE  r <= Len(xd.out) /\ Len(xd.out) <= xd.ip /\ xd.ip <= Len(Image)
  <2>1. xd.out = <<>> /\ r = 0 /\ xd.ip = IF xd.win = 0 THEN 0 ELSE e[xd.win]
    BY <1>7 DEF Steady, Decoding
  <2>2. Len(xd.out) = 0
    BY <2>1
  <2>3. xd.ip <= Len(Image)
    <3>1. CASE xd.win = 0
      BY <1>3, <2>1, <3>1
    <3>2. CASE xd.win # 0
      <4>1. xd.win \in 1 .. Len(e)
        BY <1>1, <1>2, <1>5, <3>2
      <4> QED BY <1>2, <2>1, <3>2, <4>1
    <3> QED BY <3>1, <3>2
  <2> QED BY <1>1, <2>1, <2>2, <2>3
<1> QED BY <1>1, <1>2, <1>3, <1>4, <1>6, <1>7

\* How much was reported.
Reported == xd.ip - Len(xd.out) + xd.bytes_already_reported

LEMMA StreamSizes ==
  ASSUME Steady, Stream
  PROVE  /\ Reported \in 0 .. Len(Image) /\ Len(got) = Reported
         /\ Reported + (Len(xd.out) - xd.bytes_already_reported) = xd.ip
         /\ IsSequence(got) /\ \A i \in 1 .. Reported : got[i] = Target[i]
         /\ \A i \in 1 .. Len(xd.out) : xd.out[i] = Target[xd.ip - Len(xd.out) + i]
<1>1. /\ Len(xd.out) \in Nat /\ xd.bytes_already_reported \in Nat /\ xd.ip \in Nat /\ Len(Image) \in Nat
      /\ xd.bytes_already_reported <= Len(xd.out) /\ Len(xd.out) <= xd.ip /\ xd.ip <= Len(Image)
  BY DecodingSizes
<1>2. IsSequence(Target) /\ Len(Target) = Len(Image)
  BY TargetType, Typed DEF Steady
<1>3. PICK t : t = Target
  OBVIOUS
<1>4. PICK m \in Nat : m = Reported
  BY <1>1 DEF Reported
<1>5. m <= Len(t) /\ Reported \in 0 .. Len(Image)
  BY <1>1, <1>2, <1>3, <1>4 DEF Reported
<1>6. PICK one \in Nat \ {0} : one = 1
  OBVIOUS
<1>a. PICK g : g = got
  OBVIOUS
<1>7. g = SubSeq(t, one, m) /\ one <= m + 1 /\ IsSequence(t)
  BY <1>2, <1>3, <1>4, <1>6, <1>a DEF Stream, Reported
<1>8. IsSequence(g) /\ Len(g) = m - one + 1 /\ \A i \in 1 .. m - one + 1 : g[i] = t[one - 1 + i]
  <2>1. IsCut(g, t, one, m)
    BY <1>5, <1>7, Cut
  <2> QED BY <2>1 DEF IsCut
<1>9. IsSequence(got) /\ Len(got) = Reported /\ \A i \in 1 .. Reported : got[i] = Target[i]
  BY <1>3, <1>4, <1>6, <1>8, <1>a
<1>10. PICK a \in Nat \ {0} : a = xd.ip - Len(xd.out) + 1
  <2>1. xd.ip - Len(xd.out) + 1 \in Nat \ {0}
    BY <1>1
  <2> QED BY <2>1
<1>11. PICK n \in Nat : n = xd.ip
  BY <1>1
<1>d. PICK out : out = xd.out
  OBVIOUS
<1>12. out = SubSeq(t, a, n)
  BY <1>3, <1>10, <1>11, <1>d DEF Stream
<1>b. Len(out) \in Nat /\ a <= n + 1 /\ n <= Len(t) /\ n - a + 1 = Len(out) /\ a - 1 = xd.ip - Len(xd.out)
  <2>1. PICK o \in Nat : o = Len(out)
    BY <1>1, <1>d
  <2>2. a = n - o + 1 /\ o <= n /\ n <= Len(Image) /\ Len(t) = Len(Image) /\ Len(Image) \in Nat
    BY <1>1, <1>2, <1>3, <1>10, <1>11, <1>d, <2>1
  <2>3. a <= n + 1 /\ n <= Len(t) /\ n - a + 1 = o /\ a - 1 = n - o
    BY <2>2
  <2> QED BY <1>11, <1>d, <2>1, <2>3
<1>c. \A i \in 1 .. n - a + 1 : out[i] = t[a - 1 + i]
  <2>1. IsCut(out, t, a, n)
    BY <1>7, <1>12, <1>b, Cut
  <2> QED BY <2>1 DEF IsCut
<1>13. \A i \in 1 .. Len(xd.out) : xd.out[i] = Target[xd.ip - Len(xd.out) + i]
  BY <1>3, <1>b, <1>c, <1>d
<1>14. Reported + (Len(xd.out) - xd.bytes_already_reported) = xd.ip
  BY <1>1 DEF Reported
<1> QED BY <1>5, <1>9, <1>13, <1>14

----------------------------------------------------------------------------
(* Steps that leave a part of the state alone                              *)

Active == {"resource", "read", "error", "finish"}

LEMMA HoldingKept ==
  ASSUME Holding, UNCHANGED input, xd'.blk = xd.blk, xd'.cur = xd.cur
  PROVE  Holding'
BY DEF Holding, input, SourceCount, Plain, OldBlock

\* Cache and device after a step of the resource.
LEMMA ContentsBecome ==
  ASSUME Inputs, UNCHANGED input, NEW c, Becomes(c), NEW m, Len(got') = m,
         Holds(c, Progress(m), Enc, layout.src, Region), InUse(c) \subseteq Touched, pc' \in Active
  PROVE  Contents'
<1>1. c = [dev |-> c.dev, segs |-> c.segs]
  BY CacheFields DEF Holds
<1>2. [dev |-> dev', segs |-> segs'] = c
  BY <1>1 DEF Becomes
<1>3. Cache' = c
  BY <1>2 DEF Cache
<1>4. Progress(Len(got))' = Progress(m)
  BY ProgressKept
<1>5. Enc' = Enc /\ layout' = layout /\ Region' = Region /\ Touched' = Touched
  BY InputsKept
<1>6. Holds(Cache', Progress(Len(got))', Enc', layout'.src, Region') /\ InUse(Cache') \subseteq Touched'
  BY <1>3, <1>4, <1>5
<1>7. pc' # "done" /\ pc' # "failed"
  BY DEF Active
<1> QED BY <1>6, <1>7 DEF Contents

LEMMA ContentsNow ==
  ASSUME Contents, pc \in Active
  PROVE  Holds(Cache, Progress(Len(got)), Enc, layout.src, Region) /\ InUse(Cache) \subseteq Touched
BY DEF Contents, Active

LEMMA ContentsKept ==
  ASSUME Inputs, UNCHANGED <<input, dev, segs, got>>, Contents, pc \in Active, pc' \in Active
  PROVE  Contents'
<1>1. PICK c, m : c = Cache /\ m = Len(got)
  OBVIOUS
<1>2. Holds(c, Progress(m), Enc, layout.src, Region) /\ InUse(c) \subseteq Touched
  BY <1>1, ContentsNow
<1>3. Becomes(c) /\ Len(got') = m
  BY <1>1 DEF Becomes, Cache
<1> QED BY <1>2, <1>3, ContentsBecome

LEMMA InvariantNext ==
  ASSUME Steady, UNCHANGED input, Steady', Separate => Stream' /\ Holding' /\ Contents'
  PROVE  DInv'
<1>1. Separate' = Separate
  BY InputsKept DEF Steady
<1> QED BY <1>1 DEF DInv

LEMMA DecoderKept ==
  ASSUME Steady, UNCHANGED <<input, xd>>
  PROVE  Inputs' /\ XdType' /\ Decoding'
<1>1. Inputs' /\ Available' = Available /\ patch' = patch /\ xd' = xd
  BY InputsKept DEF Steady
<1>2. XdType'
  BY <1>1 DEF Steady, XdType, IsSequence
<1>3. WindowStart' = WindowStart /\ WindowEnd' = WindowEnd
  BY <1>1 DEF WindowStart, WindowEnd
<1>4. Decoding'
  BY <1>1, <1>3 DEF Steady, Decoding
<1> QED BY <1>1, <1>2, <1>4

LEMMA StreamKept ==
  ASSUME Steady, Stream, UNCHANGED <<input, xd, got>>, pc' \in {"finish", "done"} => got = Target
  PROVE  Stream'
<1>1. Target' = Target /\ xd' = xd /\ got' = got
  BY InputsKept DEF Steady
<1> QED BY <1>1 DEF Stream

----------------------------------------------------------------------------
(* The invariant is inductive, action by action                            *)

LEMMA SetUpRight ==
  ASSUME DInv, SetUp
  PROVE  DInv'
<1>1. Steady /\ UNCHANGED <<input, dev, segs, xd, got>> /\ pc = "resource" /\ pc' = "read"
      /\ decrypt' = IF layout.src_key THEN layout.src ELSE Off
  BY DEF DInv, SetUp
<1>2. Steady'
  <2>1. Inputs' /\ XdType' /\ Decoding'
    BY <1>1, DecoderKept
  <2>2. Key' = Key
    BY <1>1, InputsKept DEF Steady
  <2>3. Callback'
    BY <1>1, <2>2 DEF Callback, Key
  <2> QED BY <2>1, <2>3 DEF Steady
<1>3. ASSUME Separate PROVE Stream' /\ Holding' /\ Contents'
  <2>1. Stream /\ Holding /\ Contents
    BY <1>3 DEF DInv
  <2> QED BY <1>1, <2>1, StreamKept, HoldingKept, ContentsKept DEF Steady, Active
<1> QED BY <1>1, <1>2, <1>3, InvariantNext

\* The callback while there is no end of the resource.
LEMMA CallbackKept ==
  ASSUME Steady, UNCHANGED <<input, decrypt>>, pc = "read", pc' \in {"read", "error"}
  PROVE  Callback'
<1>1. Key' = Key
  BY InputsKept DEF Steady
<1> QED BY <1>1 DEF Steady, Callback

LEMMA ReadMoreRight ==
  ASSUME DInv, ReadMore
  PROVE  DInv'
<1>1. /\ Steady /\ UNCHANGED <<input, dev, segs, decrypt, got>> /\ pc = "read" /\ pc' \in {"read", "error"}
      /\ ~xd.end_of_patch /\ xd.received = xd.win /\ ~xd.busy
  BY DEF DInv, ReadMore, Asks, Event, Fail
<1>2. \/ xd.received < Available /\ xd' = [xd EXCEPT !.received = @ + 1]
      \/ ~(xd.received < Available) /\ xd' = [xd EXCEPT !.end_of_patch = TRUE]
      \/ xd' = xd
  BY DEF ReadMore
<1>3. /\ Inputs' /\ Available' = Available /\ patch' = patch
      /\ Available \in Nat /\ xd.received \in Nat /\ xd.win \in Nat /\ xd.received <= Available
  BY <1>1, InputsKept, DecodingSizes DEF Steady, Decoding
<1>4. /\ xd'.win = xd.win /\ xd'.ip = xd.ip /\ xd'.busy = xd.busy /\ xd'.out = xd.out
      /\ xd'.bytes_already_reported = xd.bytes_already_reported /\ xd'.blk = xd.blk /\ xd'.cur = xd.cur
      /\ xd'.received \in Nat /\ xd'.received >= xd.received /\ xd'.received <= Available
      /\ xd'.end_of_patch => xd'.received = Available
  BY <1>1, <1>2, <1>3 DEF Steady, XdType
<1>5. Steady'
  <2>1. XdType'
    BY <1>1, <1>2, <1>4 DEF Steady, XdType, IsSequence
  <2>2. Decoding'
    BY <1>1, <1>3, <1>4 DEF Steady, Decoding
  <2> QED BY <1>1, <1>3, <2>1, <2>2, CallbackKept DEF Steady
<1>6. ASSUME Separate PROVE Stream' /\ Holding' /\ Contents'
  <2>1. Stream /\ Holding /\ Contents
    BY <1>6 DEF DInv
  <2>2. Target' = Target
    BY <1>1, InputsKept DEF Steady
  <2>3. Stream'
    BY <1>1, <1>4, <2>1, <2>2 DEF Stream
  <2> QED BY <1>1, <1>4, <2>1, <2>3, HoldingKept, ContentsKept DEF Steady, Active
<1> QED BY <1>1, <1>5, <1>6, InvariantNext

LEMMA WinStartRight ==
  ASSUME DInv, WinStart
  PROVE  DInv'
<1>1. /\ Steady /\ UNCHANGED <<input, pc, dev, segs, decrypt, got>> /\ pc = "read"
      /\ xd.received # xd.win /\ ~xd.busy /\ xd' = [xd EXCEPT !.busy = TRUE, !.win = @ + 1]
  BY DEF DInv, WinStart, Asks, Event
<1>2. /\ Inputs' /\ Available' = Available /\ patch' = patch
      /\ Available \in Nat /\ xd.received \in Nat /\ xd.win \in Nat
      /\ xd.win <= xd.received /\ xd.received <= Available
      /\ Available <= Len(patch.ends) /\ Len(patch.ends) \in Nat
  BY <1>1, InputsKept, DecodingSizes DEF Steady, Decoding
<1>3. /\ xd'.win = xd.win + 1 /\ xd'.ip = xd.ip /\ xd'.busy = TRUE /\ xd'.out = xd.out
      /\ xd'.bytes_already_reported = xd.bytes_already_reported /\ xd'.blk = xd.blk /\ xd'.cur = xd.cur
      /\ xd'.received = xd.received /\ xd'.end_of_patch = xd.end_of_patch /\ xd'.header = xd.header
  BY <1>1 DEF Steady, XdType
<1>4. Steady'
  <2>1. XdType'
    <3>1. XdType /\ IsSequence(xd.out)
      BY <1>1 DEF Steady, XdType
    <3>2. xd' = [received |-> xd'.received, header |-> xd'.header, win |-> xd'.win, ip |-> xd'.ip, busy |-> xd'.busy,
           out |-> xd'.out, bytes_already_reported |-> xd'.bytes_already_reported, blk |-> xd'.blk,
           cur |-> xd'.cur, end_of_patch |-> xd'.end_of_patch]
      BY <1>1, <3>1 DEF XdType
    <3>3. {xd'.received, xd'.win, xd'.ip, xd'.bytes_already_reported} \subseteq Nat
      BY <1>2, <1>3, <3>1 DEF XdType
    <3>4. {xd'.header, xd'.busy, xd'.end_of_patch} \subseteq BOOLEAN
      BY <1>3, <3>1 DEF XdType
    <3>5. IsSequence(xd'.out)
      BY <1>3, <3>1
    <3> QED BY <3>2, <3>3, <3>4, <3>5 DEF XdType
  <2>2. xd.out = <<>> /\ xd.bytes_already_reported = 0 /\ xd.ip = IF xd.win = 0 THEN 0 ELSE patch.ends[xd.win]
    BY <1>1 DEF Steady, Decoding
  <2>3. PICK w \in Nat : w = xd.win + 1
    BY <1>2
  <2>4. w \in 1 .. Len(patch.ends) /\ w <= xd.received
    BY <1>1, <1>2, <2>3
  <2>5. WindowStart' = xd.ip
    BY <1>2, <1>3, <2>2 DEF WindowStart
  <2>6. WindowEnd' = patch.ends[w]
    BY <1>2, <1>3, <2>3 DEF WindowEnd
  <2>7. xd.ip \in Nat /\ xd.ip <= patch.ends[w]
    <3>1. /\ \A x \in 1 .. Len(patch.ends) : patch.ends[x] \in Nat /\ patch.ends[x] > 0
          /\ \A x \in 2 .. Len(patch.ends) : patch.ends[x - 1] < patch.ends[x]
      BY <1>1, Windows DEF Steady
    <3>2. CASE xd.win = 0
      BY <2>2, <2>4, <3>1, <3>2
    <3>3. CASE xd.win # 0
      <4>1. w \in 2 .. Len(patch.ends) /\ w - 1 = xd.win /\ xd.win \in 1 .. Len(patch.ends)
        BY <1>2, <2>3, <2>4, <3>3
      <4> QED BY <2>2, <3>1, <3>3, <4>1
    <3> QED BY <3>2, <3>3
  <2>8. Len(xd.out) = 0
    BY <2>2
  <2>9. Decoding'
    <3>1. xd'.win <= xd'.received /\ xd'.received <= Available' /\ (xd'.end_of_patch => xd'.received = Available')
      BY <1>1, <1>2, <1>3, <2>3, <2>4 DEF Steady, Decoding
    <3>2. xd'.win >= 1 /\ xd'.ip >= WindowStart' /\ xd'.ip <= WindowEnd' /\ Len(xd'.out) = xd'.ip - WindowStart'
          /\ xd'.bytes_already_reported = 0
      BY <1>2, <1>3, <2>2, <2>5, <2>6, <2>7, <2>8
    <3> QED BY <1>3, <3>1, <3>2 DEF Decoding
  <2> QED BY <1>1, <1>2, <2>1, <2>9, CallbackKept DEF Steady
<1>5. ASSUME Separate PROVE Stream' /\ Holding' /\ Contents'
  <2>1. Stream /\ Holding /\ Contents
    BY <1>5 DEF DInv
  <2>2. Target' = Target
    BY <1>1, InputsKept DEF Steady
  <2>3. Stream'
    BY <1>1, <1>3, <2>1, <2>2 DEF Stream
  <2> QED BY <1>1, <1>3, <2>1, <2>3, HoldingKept, ContentsKept DEF Steady, Active
<1> QED BY <1>1, <1>4, <1>5, InvariantNext

\* xdelta_read_source_callback, for a block that starts inside of the source.
LEMMA SourceBlockRight ==
  ASSUME DInv, pc = "read", NEW blkno \in Nat, blkno * ReadBlocks <= layout.count, xdelta_read_source_block(blkno)
  PROVE  DInv'
<1>a. PICK off \in Nat : off = blkno * ReadBlocks
  BY Sizes
<1>b. PICK r : r = block_cache_pread(Cache, layout.src + off, SourceCount(off), decrypt)
  OBVIOUS
<1>1. /\ Steady /\ UNCHANGED <<input, pc, decrypt, got>> /\ Becomes(r.c)
      /\ xd' = [xd EXCEPT !.header = TRUE, !.blk = blkno, !.cur = r.data]
  BY <1>a, <1>b DEF DInv, xdelta_read_source_block
<1>2. /\ Inputs /\ Inputs' /\ Available' = Available /\ patch' = patch /\ layout' = layout
  BY <1>1, InputsKept DEF Steady
<1>3. /\ xd'.win = xd.win /\ xd'.ip = xd.ip /\ xd'.busy = xd.busy /\ xd'.out = xd.out
      /\ xd'.bytes_already_reported = xd.bytes_already_reported /\ xd'.blk = blkno /\ xd'.cur = r.data
      /\ xd'.received = xd.received /\ xd'.end_of_patch = xd.end_of_patch /\ xd'.header = TRUE
  BY <1>1 DEF Steady, XdType
<1>4. Steady'
  <2>1. XdType'
    <3>1. XdType /\ IsSequence(xd.out)
      BY <1>1 DEF Steady, XdType
    <3>2. xd' = [received |-> xd'.received, header |-> xd'.header, win |-> xd'.win, ip |-> xd'.ip, busy |-> xd'.busy,
           out |-> xd'.out, bytes_already_reported |-> xd'.bytes_already_reported, blk |-> xd'.blk,
           cur |-> xd'.cur, end_of_patch |-> xd'.end_of_patch]
      BY <1>1, <3>1 DEF XdType
    <3>3. {xd'.received, xd'.win, xd'.ip, xd'.bytes_already_reported} \subseteq Nat
      BY <1>3, <3>1 DEF XdType
    <3>4. {xd'.header, xd'.busy, xd'.end_of_patch} \subseteq BOOLEAN
      BY <1>3, <3>1 DEF XdType
    <3>5. IsSequence(xd'.out)
      BY <1>3, <3>1
    <3> QED BY <3>2, <3>3, <3>4, <3>5 DEF XdType
  <2>2. Decoding'
    <3>1. WindowStart' = WindowStart /\ WindowEnd' = WindowEnd
      BY <1>2, <1>3 DEF WindowStart, WindowEnd
    <3> QED BY <1>1, <1>2, <1>3, <3>1 DEF Steady, Decoding
  <2> QED BY <1>1, <1>2, <2>1, <2>2, CallbackKept DEF Steady
<1>5. ASSUME Separate PROVE Stream' /\ Holding' /\ Contents'
  <2>1. Stream /\ Holding /\ Contents
    BY <1>5 DEF DInv
  <2>2. Target' = Target
    BY <1>1, InputsKept DEF Steady
  <2>3. Stream'
    BY <1>1, <1>3, <2>1, <2>2 DEF Stream
  <2>4. decrypt = Key
    BY <1>1 DEF Steady, Callback
  <2>5. PICK n \in 0 .. Len(Image) : n = Len(got)
    BY <1>1, <2>1, StreamSizes
  <2>6. PICK c : c = Cache
    OBVIOUS
  <2>7. Holds(c, Progress(n), Enc, layout.src, Region) /\ InUse(c) \subseteq Touched
    BY <2>1, <2>5, <2>6, ContentsNow DEF Active
  <2>8. off <= layout.count /\ r = block_cache_pread(c, layout.src + off, SourceCount(off), Key)
    BY <1>a, <1>b, <2>4, <2>6
  <2>9. /\ Holds(r.c, Progress(n), Enc, layout.src, Region) /\ InUse(r.c) \subseteq Touched
        /\ r.data = [i \in 1 .. SourceCount(off) |-> Plain(OldBlock(off + i - 1))]
    BY <1>2, <1>5, <2>7, <2>8, ReadSource
  <2>10. Contents'
    <3>1. PICK d : d = r.c
      OBVIOUS
    <3>2. Becomes(d) /\ Len(got') = n /\ Holds(d, Progress(n), Enc, layout.src, Region) /\ InUse(d) \subseteq Touched
      BY <1>1, <2>5, <2>9, <3>1
    <3>3. pc' \in Active
      BY <1>1 DEF Active
    <3> QED BY <1>1, <1>2, <3>2, <3>3, ContentsBecome
  <2>11. Holding'
    <3>1. SourceCount(off)' = SourceCount(off)
      BY <1>2 DEF SourceCount
    <3>2. xd'.cur = [i \in 1 .. SourceCount(off) |-> Plain(OldBlock(off + i - 1))]
      BY <1>3, <2>9
    <3> QED BY <1>2, <1>3, <1>a, <2>8, <3>1, <3>2 DEF Holding, SourceCount
  <2> QED BY <2>3, <2>10, <2>11
<1> QED BY <1>1, <1>4, <1>5, InvariantNext

LEMMA GotHeaderRight ==
  ASSUME DInv, GotHeader
  PROVE  DInv'
<1>1. PICK blkno \in Nat : blkno = 0
  OBVIOUS
<1>2. pc = "read" /\ xdelta_read_source_block(blkno)
  BY <1>1 DEF GotHeader, Asks
<1>3. blkno * ReadBlocks <= layout.count
  BY <1>1, Sizes, InputTypes DEF DInv, Steady
<1> QED BY <1>2, <1>3, SourceBlockRight

LEMMA GetSrcBlkRight ==
  ASSUME DInv, GetSrcBlk
  PROVE  DInv'
<1>1. pc = "read" /\ xd.busy /\ xd.ip + 1 \in Stops /\ Steady
  BY DEF GetSrcBlk, Asks, Event, DInv
<1>2. /\ xd.ip \in Nat /\ WindowEnd \in Nat /\ WindowEnd <= Len(Image) /\ Len(Image) \in Nat
  BY <1>1, DecodingSizes
<1>3. xd.ip + 1 \in 1 .. Len(Image) /\ Image[xd.ip + 1] # New
  BY <1>1, <1>2 DEF Stops
<1>4. PICK i \in Nat : i = Image[xd.ip + 1] /\ i < layout.count
  BY <1>1, <1>3, InputTypes DEF Steady
<1>5. ReadBlocks \in Nat \ {0} /\ layout.count \in Nat
  BY <1>1, Sizes, InputTypes DEF Steady
<1>6. PICK blkno \in Nat : blkno = i \div ReadBlocks
  BY <1>5, Division
<1>7. blkno * ReadBlocks + (i % ReadBlocks) = i /\ (i % ReadBlocks) \in Nat
  BY <1>5, <1>6, Division
<1>8. blkno * ReadBlocks <= layout.count
  <2>1. PICK z \in Nat : z = blkno * ReadBlocks
    BY <1>5
  <2> QED BY <1>4, <1>5, <1>7, <2>1
<1>9. xdelta_read_source_block(blkno)
  BY <1>4, <1>6 DEF GetSrcBlk
<1> QED BY <1>1, <1>8, <1>9, SourceBlockRight

\* The block at which xd3_decode_input stops, and what is decoded up to there.
LEMMA StopRight ==
  ASSUME Steady, xd.busy
  PROVE  /\ Stop \in xd.ip + 1 .. WindowEnd + 1
         /\ \A j \in xd.ip + 1 .. Stop - 1 : j \in 1 .. Len(Image) /\ (Image[j] = New \/ Image[j] \div ReadBlocks = xd.blk)
<1>1. /\ xd.ip \in Nat /\ WindowEnd \in Nat /\ WindowEnd <= Len(Image) /\ Len(Image) \in Nat
      /\ xd.ip <= WindowEnd
  BY DecodingSizes DEF Steady, Decoding
<1>2. Stop \in xd.ip + 1 .. WindowEnd + 1 /\ \A j \in xd.ip + 1 .. Stop - 1 : j \notin Stops
  <2>1. CASE Stops = {}
    BY <1>1, <2>1 DEF Stop
  <2>2. CASE Stops # {}
    <3>1. Stops \subseteq Nat /\ Stops \subseteq xd.ip + 1 .. WindowEnd
      BY <1>1 DEF Stops
    <3>2. PICK S : S = Stops
      OBVIOUS
    <3>3. \E x \in S : \A y \in S : x <= y
      BY <2>2, <3>1, <3>2, LeastNumber
    <3>4. Stop \in Stops /\ \A y \in Stops : Stop <= y
      BY <2>2, <3>2, <3>3 DEF Stop
    <3> QED BY <1>1, <3>1, <3>4
  <2> QED BY <2>1, <2>2
<1>3. ASSUME NEW j \in xd.ip + 1 .. Stop - 1
      PROVE  j \in 1 .. Len(Image) /\ (Image[j] = New \/ Image[j] \div ReadBlocks = xd.blk)
  <2>1. PICK z \in Int : z = Stop /\ z <= WindowEnd + 1
    BY <1>1, <1>2
  <2>2. j \in 1 .. Len(Image) /\ j \in xd.ip + 1 .. WindowEnd
    BY <1>1, <2>1
  <2>3. j \notin Stops
    BY <1>2
  <2> QED BY <2>2, <2>3 DEF Stops
<1> QED BY <1>2, <1>3

\* What the decoder copies from the block it holds.
LEMMA CopyRight ==
  ASSUME Inputs, Holding, NEW i \in Nat, i < layout.count, i \div ReadBlocks = xd.blk
  PROVE  xd.cur[(i % ReadBlocks) + 1] = Plain(OldBlock(i))
<1>1. ReadBlocks \in Nat \ {0} /\ layout.count \in Nat
  BY Sizes, InputTypes
<1>a. PICK q \in Nat : q = i \div ReadBlocks
  BY <1>1, Division
<1>b. PICK m \in Nat : m = (i % ReadBlocks) /\ m < ReadBlocks
  <2>1. (i % ReadBlocks) \in 0 .. ReadBlocks - 1
    BY <1>1, Division
  <2>2. (i % ReadBlocks) \in Nat /\ (i % ReadBlocks) < ReadBlocks
    BY <1>1, <2>1
  <2> QED BY <2>2
<1>2. q * ReadBlocks + m = i
  BY <1>1, <1>a, <1>b, Division
<1>3. PICK off \in Nat : off = q * ReadBlocks
  BY <1>1
<1>4. xd.blk = q /\ q # Off
  BY <1>a, Sizes DEF Off
<1>5. xd.cur = [x \in 1 .. SourceCount(off) |-> Plain(OldBlock(off + x - 1))]
  BY <1>3, <1>4 DEF Holding
<1>6. m + 1 \in 1 .. SourceCount(off) /\ off + (m + 1) - 1 = i
  <2>1. off + m = i
    BY <1>2, <1>3
  <2> QED BY <1>1, <1>b, <2>1 DEF SourceCount
<1> QED BY <1>b, <1>5, <1>6

LEMMA DecodeRight ==
  ASSUME DInv, Decode
  PROVE  DInv'
<1>1. /\ Steady /\ UNCHANGED <<input, pc, dev, segs, decrypt, got>> /\ pc = "read" /\ xd.busy
      /\ xd' = Decoded
  BY DEF DInv, Decode, Asks, Event
<1>2. /\ Inputs /\ Inputs' /\ Available' = Available /\ patch' = patch /\ layout' = layout /\ Target' = Target
  BY <1>1, InputsKept DEF Steady
<1>3. /\ xd.ip \in Nat /\ WindowStart \in Nat /\ WindowEnd \in Nat /\ WindowEnd <= Len(Image) /\ Len(Image) \in Nat
      /\ xd.ip >= WindowStart /\ xd.ip <= WindowEnd /\ xd.bytes_already_reported \in Nat
      /\ Len(xd.out) = xd.ip - WindowStart /\ Len(xd.out) \in Nat
      /\ xd.bytes_already_reported = 0 \/ xd.bytes_already_reported < Len(xd.out)
  BY <1>1, DecodingSizes DEF Steady, Decoding
<1>4. PICK stop \in Nat : stop = Stop /\ stop \in xd.ip + 1 .. WindowEnd + 1
  BY <1>1, <1>3, StopRight
<1>5. \A j \in xd.ip + 1 .. stop - 1 : j \in 1 .. Len(Image) /\ (Image[j] = New \/ Image[j] \div ReadBlocks = xd.blk)
  BY <1>1, <1>4, StopRight
<1>6. PICK n \in Nat : n = stop - 1 - xd.ip
  BY <1>3, <1>4
<1> DEFINE element(k) == IF Image[xd.ip + k] = New THEN Plain(NewBlock(xd.ip + k))
                         ELSE xd.cur[(Image[xd.ip + k] % ReadBlocks) + 1]
<1>7. PICK piece : piece = [k \in 1 .. n |-> element(k)]
  OBVIOUS
<1>8. PICK out : out = xd.out \o piece
  OBVIOUS
<1>9. xd' = [xd EXCEPT !.ip = stop - 1, !.out = out]
  BY <1>1, <1>4, <1>6, <1>7, <1>8, Zenon DEF Decoded
<1>10. \A k \in 1 .. n : piece[k] = element(k)
  BY <1>7
<1> HIDE DEF element
<1>11. IsSequence(piece) /\ Len(piece) = n
  <2>1. piece = [k \in 1 .. n |-> piece[k]]
    BY <1>7, <1>10
  <2> QED BY <2>1, Enumerated
<1>12. PICK old : old = xd.out /\ IsSequence(old)
  BY <1>1 DEF Steady, XdType
<1>13. /\ IsSequence(out) /\ Len(out) = Len(old) + Len(piece)
       /\ \A i \in 1 .. Len(old) : out[i] = old[i]
       /\ \A i \in 1 .. Len(piece) : out[Len(old) + i] = piece[i]
  <2>1. out = old \o piece
    BY <1>8, <1>12
  <2>2. IsJoin(out, old, piece)
    BY <1>11, <1>12, <2>1, Joined
  <2> QED BY <2>2 DEF IsJoin
<1>14. /\ xd'.win = xd.win /\ xd'.ip = stop - 1 /\ xd'.busy = xd.busy /\ xd'.out = out
       /\ xd'.bytes_already_reported = xd.bytes_already_reported /\ xd'.blk = xd.blk /\ xd'.cur = xd.cur
       /\ xd'.received = xd.received /\ xd'.end_of_patch = xd.end_of_patch /\ xd'.header = xd.header
  BY <1>1, <1>9 DEF Steady, XdType
<1>15. Len(out) = stop - 1 - WindowStart /\ Len(out) \in Nat /\ Len(out) >= Len(xd.out) /\ Len(out) = Len(xd.out) + n
  <2>1. PICK o \in Nat : o = Len(xd.out)
    BY <1>3
  <2>2. PICK ip \in Nat : ip = xd.ip
    BY <1>3
  <2>3. PICK w \in Nat : w = WindowStart
    BY <1>3
  <2>4. Len(out) = o + n /\ o = ip - w /\ n = stop - 1 - ip
    BY <1>3, <1>6, <1>11, <1>12, <1>13, <2>1, <2>2, <2>3
  <2>5. o + n = stop - 1 - w /\ o + n \in Nat /\ o + n >= o
    BY <2>4
  <2> QED BY <2>1, <2>3, <2>4, <2>5
<1>16. Steady'
  <2>1. XdType'
    <3>1. XdType
      BY <1>1 DEF Steady
    <3>2. xd' = [received |-> xd'.received, header |-> xd'.header, win |-> xd'.win, ip |-> xd'.ip, busy |-> xd'.busy,
           out |-> xd'.out, bytes_already_reported |-> xd'.bytes_already_reported, blk |-> xd'.blk,
           cur |-> xd'.cur, end_of_patch |-> xd'.end_of_patch]
      BY <1>9, <3>1 DEF XdType
    <3>3. {xd'.received, xd'.win, xd'.ip, xd'.bytes_already_reported} \subseteq Nat
      <4>1. stop - 1 \in Nat
        BY <1>3, <1>4
      <4> QED BY <1>14, <3>1, <4>1 DEF XdType
    <3>4. {xd'.header, xd'.busy, xd'.end_of_patch} \subseteq BOOLEAN
      BY <1>14, <3>1 DEF XdType
    <3>5. IsSequence(xd'.out)
      BY <1>13, <1>14
    <3> QED BY <3>2, <3>3, <3>4, <3>5 DEF XdType
  <2>2. Decoding'
    <3>1. WindowStart' = WindowStart /\ WindowEnd' = WindowEnd
      BY <1>2, <1>14 DEF WindowStart, WindowEnd
    <3>2. xd'.win <= xd'.received /\ xd'.received <= Available' /\ (xd'.end_of_patch => xd'.received = Available')
          /\ xd'.win >= 1
      BY <1>1, <1>2, <1>14 DEF Steady, Decoding
    <3>3. xd'.ip >= WindowStart' /\ xd'.ip <= WindowEnd' /\ Len(xd'.out) = xd'.ip - WindowStart'
      BY <1>3, <1>4, <1>14, <1>15, <3>1
    <3>4. xd'.bytes_already_reported = 0 \/ xd'.bytes_already_reported < Len(xd'.out)
      <4>1. PICK r \in Nat : r = xd.bytes_already_reported
        BY <1>3
      <4>2. PICK o \in Nat : o = Len(xd.out)
        BY <1>3
      <4>3. PICK p \in Nat : p = Len(out)
        BY <1>15
      <4>4. (r = 0 \/ r < o) /\ p >= o
        BY <1>3, <1>15, <4>1, <4>2, <4>3
      <4>5. r = 0 \/ r < p
        BY <4>4
      <4> QED BY <1>14, <4>1, <4>3, <4>5
    <3> QED BY <1>1, <1>14, <3>2, <3>3, <3>4 DEF Decoding
  <2> QED BY <1>1, <1>2, <2>1, <2>2, CallbackKept DEF Steady
<1>17. ASSUME Separate PROVE Stream' /\ Holding' /\ Contents'
  <2>1. Stream /\ Holding /\ Contents
    BY <1>17 DEF DInv
  <2>2. ASSUME NEW k \in 1 .. n PROVE piece[k] = Target[xd.ip + k]
    <3>1. PICK j \in xd.ip + 1 .. stop - 1 : j = xd.ip + k
      BY <1>3, <1>4, <1>6
    <3>2. j \in 1 .. Len(Image) /\ (Image[j] = New \/ Image[j] \div ReadBlocks = xd.blk)
      BY <1>5
    <3>3. Target[j] = Plain(NewBlock(j))
      BY <1>2, <3>2, TargetType
    <3>4. CASE Image[j] = New
      BY <1>10, <3>1, <3>3, <3>4 DEF element
    <3>5. CASE Image[j] # New
      <4>1. PICK i \in Nat : i = Image[j] /\ i < layout.count
        BY <1>2, <3>2, <3>5, InputTypes
      <4>2. xd.cur[(i % ReadBlocks) + 1] = Plain(OldBlock(i))
        BY <1>2, <2>1, <3>2, <3>5, <4>1, CopyRight
      <4>3. NewBlock(j) = OldBlock(i)
        BY <3>5, <4>1 DEF NewBlock
      <4> QED BY <1>10, <3>1, <3>3, <3>5, <4>1, <4>2, <4>3 DEF element
    <3> QED BY <3>4, <3>5
  <2>3. \A i \in 1 .. Len(old) : old[i] = Target[xd.ip - Len(old) + i]
    BY <1>1, <1>12, <2>1, StreamSizes
  <2>a. PICK o \in Nat : o = Len(old)
    BY <1>3, <1>12
  <2>b. PICK ip \in Nat : ip = xd.ip
    BY <1>3
  <2>4. o = Len(old) /\ ip = xd.ip /\ o <= ip
    BY <1>1, <1>12, <2>a, <2>b, DecodingSizes
  <2>5. Len(out) = o + n /\ Len(piece) = n /\ stop - 1 = ip + n
    BY <1>4, <1>6, <1>11, <1>13, <2>4
  <2>6. \A i \in 1 .. o + n : out[i] = Target[ip - o + i]
    <3> SUFFICES ASSUME NEW i \in 1 .. o + n PROVE out[i] = Target[ip - o + i]
      OBVIOUS
    <3>1. CASE i <= o
      <4>1. i \in 1 .. Len(old)
        BY <2>4, <3>1
      <4> QED BY <1>13, <2>3, <2>4, <4>1
    <3>2. CASE ~(i <= o)
      <4>1. PICK k \in 1 .. n : k = i - o
        BY <3>2
      <4>2. o + k = i /\ ip - o + i = ip + k
        BY <4>1
      <4>3. out[o + k] = piece[k]
        BY <1>13, <2>4, <2>5, <4>1
      <4> QED BY <2>2, <2>4, <4>1, <4>2, <4>3
    <3> QED BY <3>1, <3>2
  <2>7. PICK t : t = Target /\ IsSequence(t) /\ Len(t) = Len(Image)
    BY <1>2, TargetType, Typed
  <2>8. PICK a \in Nat \ {0}, z \in Nat : a = ip - o + 1 /\ z = ip + n
    <3>1. ip - o + 1 \in Nat \ {0} /\ ip + n \in Nat
      BY <2>4
    <3> QED BY <3>1
  <2>9. PICK u : u = SubSeq(t, a, z)
    OBVIOUS
  <2>10. a <= z + 1 /\ z <= Len(t) /\ z - a + 1 = o + n /\ a - 1 = ip - o
    <3>1. PICK e \in Nat : e = WindowEnd /\ e <= Len(t)
      BY <1>3, <2>7
    <3>2. PICK l \in Nat : l = Len(t)
      BY <1>3, <2>7
    <3>3. stop <= e + 1
      BY <1>3, <1>4, <3>1
    <3>4. z <= e
      BY <2>5, <2>8, <3>3
    <3>5. z <= Len(t)
      BY <3>1, <3>2, <3>4
    <3>6. a <= z + 1 /\ z - a + 1 = o + n /\ a - 1 = ip - o
      BY <2>8
    <3> QED BY <3>5, <3>6
  <2>11. IsCut(u, t, a, z)
    BY <2>7, <2>9, <2>10, Cut
  <2>12. IsSequence(u) /\ Len(u) = o + n /\ \A i \in 1 .. o + n : u[i] = t[ip - o + i]
    BY <2>10, <2>11 DEF IsCut
  <2>13. out = u
    <3>1. \A i \in 1 .. o + n : out[i] = u[i]
      BY <2>6, <2>7, <2>12
    <3>2. IsSequence(out) /\ IsSequence(u) /\ Len(out) = Len(u) /\ \A i \in 1 .. Len(out) : out[i] = u[i]
      BY <1>13, <2>5, <2>12, <3>1
    <3> QED BY <3>2, SameSequence
  <2>14. Stream'
    <3>1. xd'.out = SubSeq(Target', xd'.ip - Len(xd'.out) + 1, xd'.ip)
      <4>1. xd'.ip = z /\ Len(xd'.out) = o + n
        BY <1>14, <2>5, <2>8
      <4>2. xd'.ip - Len(xd'.out) + 1 = a
        <5>1. z - (o + n) + 1 = a
          BY <2>8
        <5> QED BY <4>1, <5>1
      <4> QED BY <1>2, <1>14, <2>7, <2>9, <2>13, <4>1, <4>2
    <3>2. xd'.ip - Len(xd'.out) + xd'.bytes_already_reported = xd.ip - Len(xd.out) + xd.bytes_already_reported
      <4>1. xd'.ip - Len(xd'.out) = xd.ip - Len(xd.out)
        <5>1. xd'.ip = ip + n /\ Len(xd'.out) = o + n /\ xd.ip = ip /\ Len(xd.out) = o
          BY <1>12, <1>14, <2>4, <2>5
        <5>2. (ip + n) - (o + n) = ip - o
          OBVIOUS
        <5> QED BY <5>1, <5>2
      <4> QED BY <1>14, <4>1
    <3> QED BY <1>1, <1>2, <2>1, <3>1, <3>2 DEF Stream
  <2> QED BY <1>1, <1>2, <1>14, <2>1, <2>14, HoldingKept, ContentsKept DEF Active
<1> QED BY <1>1, <1>16, <1>17, InvariantNext

\* process_resource writes the next n blocks of out.
LEMMA WriteOutRight ==
  ASSUME Steady, Stream, Contents, Separate, pc = "read", UNCHANGED input,
         NEW n \in Nat, xd.bytes_already_reported + n <= Len(xd.out), NEW piece,
         piece = SubSeq(xd.out, xd.bytes_already_reported + 1, xd.bytes_already_reported + n),
         WriteOut(piece)
  PROVE  Contents' /\ got' = SubSeq(Target, 1, Reported + n)
<1>0. Inputs
  BY DEF Steady
<1>1. /\ Reported \in 0 .. Len(Image) /\ Len(got) = Reported
      /\ Reported + (Len(xd.out) - xd.bytes_already_reported) = xd.ip
      /\ IsSequence(got) /\ \A i \in 1 .. Reported : got[i] = Target[i]
      /\ \A i \in 1 .. Len(xd.out) : xd.out[i] = Target[xd.ip - Len(xd.out) + i]
  BY StreamSizes
<1>2. PICK out : out = xd.out /\ IsSequence(out)
  BY DEF Steady, XdType
<1>3. PICK o \in Nat : o = Len(out)
  BY <1>2 DEF IsSequence
<1>4. PICK r \in Nat : r = xd.bytes_already_reported
  BY DecodingSizes
<1>5. PICK ip \in Nat : ip = xd.ip
  BY DecodingSizes
<1>6. PICK m \in Nat : m = Reported
  BY <1>1
<1>7. PICK l \in Nat : l = Len(Image)
  BY DecodingSizes
<1>8. r + n <= o /\ o <= ip /\ ip <= l /\ m = ip - o + r
  BY <1>2, <1>3, <1>4, <1>5, <1>6, <1>7, DecodingSizes DEF Reported
<1>9. n \in 0 .. l - m /\ m \in 0 .. l /\ m + n <= l
  BY <1>8
<1>10. IsSequence(piece) /\ Len(piece) = n /\ \A i \in 1 .. n : piece[i] = out[r + i]
  <2>1. PICK a \in Nat \ {0} : a = r + 1
    <3>1. r + 1 \in Nat \ {0}
      OBVIOUS
    <3> QED BY <3>1
  <2>2. PICK z \in Nat : z = r + n
    OBVIOUS
  <2>3. piece = SubSeq(out, a, z) /\ a <= z + 1 /\ z <= Len(out) /\ z - a + 1 = n /\ a - 1 = r
    <3>1. piece = SubSeq(out, a, z)
      BY <1>2, <1>4, <2>1, <2>2
    <3>2. a <= z + 1 /\ z <= o /\ z - a + 1 = n /\ a - 1 = r
      BY <1>8, <2>1, <2>2
    <3> QED BY <1>3, <3>1, <3>2
  <2>4. IsCut(piece, out, a, z)
    BY <1>2, <2>3, Cut
  <2> QED BY <2>3, <2>4 DEF IsCut
<1>11. ASSUME NEW i \in 1 .. n PROVE piece[i] = Target[m + i]
  <2>1. r + i \in 1 .. o /\ ip - o + (r + i) = m + i
    BY <1>8
  <2>2. out[r + i] = Target[ip - o + (r + i)]
    BY <1>1, <1>2, <1>3, <1>5, <2>1
  <2> QED BY <1>10, <2>1, <2>2
<1>12. PICK t \in Seq(Content) : t = Target /\ Len(t) = l
  BY <1>0, <1>7, TargetType
<1>13. IsSequence(t)
  BY Typed
<1>14. piece \in Seq(Content)
  <2>1. \A i \in 1 .. n : piece[i] \in Content
    <3> SUFFICES ASSUME NEW i \in 1 .. n PROVE piece[i] \in Content
      OBVIOUS
    <3>1. m + i \in 1 .. Len(t)
      BY <1>9, <1>12
    <3>2. t[m + i] \in Content
      BY <3>1, ElementOfSeq
    <3> QED BY <1>11, <1>12, <3>2
  <2> QED BY <1>10, <2>1, SequenceIn
<1>15. got' = SubSeq(Target, 1, Reported + n)
  <2>1. PICK g : g = got
    OBVIOUS
  <2>2. PICK u : u = g \o piece
    OBVIOUS
  <2>3. IsSequence(g) /\ Len(g) = m /\ \A i \in 1 .. m : g[i] = t[i]
    BY <1>1, <1>6, <1>12, <2>1
  <2>4. IsJoin(u, g, piece)
    BY <1>10, <2>2, <2>3, Joined
  <2>5. IsSequence(u) /\ Len(u) = m + n /\ (\A i \in 1 .. m : u[i] = g[i]) /\ (\A i \in 1 .. n : u[m + i] = piece[i])
    BY <1>10, <2>3, <2>4 DEF IsJoin
  <2>6. PICK one \in Nat \ {0} : one = 1
    OBVIOUS
  <2>7. PICK z \in Nat : z = m + n
    OBVIOUS
  <2>8. PICK v : v = SubSeq(t, one, z)
    OBVIOUS
  <2>9. one <= z + 1 /\ z <= Len(t) /\ z - one + 1 = m + n /\ one - 1 = 0
    BY <1>9, <1>12, <2>6, <2>7
  <2>10. IsCut(v, t, one, z)
    BY <1>13, <2>8, <2>9, Cut
  <2>11. IsSequence(v) /\ Len(v) = m + n /\ \A i \in 1 .. m + n : v[i] = t[0 + i]
    BY <2>9, <2>10 DEF IsCut
  <2>12. \A i \in 1 .. m + n : u[i] = v[i]
    <3> SUFFICES ASSUME NEW i \in 1 .. m + n PROVE u[i] = v[i]
      OBVIOUS
    <3>1. v[i] = t[i]
      BY <2>11
    <3>2. CASE i <= m
      BY <2>3, <2>5, <3>1, <3>2
    <3>3. CASE ~(i <= m)
      <4>1. PICK k \in 1 .. n : k = i - m
        BY <3>3
      <4>2. m + k = i
        BY <4>1
      <4> QED BY <1>11, <1>12, <2>5, <3>1, <4>1, <4>2
    <3> QED BY <3>2, <3>3
  <2>13. u = v
    BY <2>5, <2>11, <2>12, SameSequence
  <2>14. got' = u
    BY <2>1, <2>2 DEF WriteOut
  <2> QED BY <1>6, <1>12, <2>6, <2>7, <2>8, <2>13, <2>14
<1>16. Len(got') = m + n
  <2>1. got' = got \o piece
    BY DEF WriteOut
  <2>2. PICK g : g = got /\ IsSequence(g) /\ Len(g) = m
    BY <1>1, <1>6
  <2>3. PICK u : u = g \o piece
    OBVIOUS
  <2>4. IsJoin(u, g, piece)
    BY <1>10, <2>2, <2>3, Joined
  <2> QED BY <1>10, <2>1, <2>2, <2>3, <2>4 DEF IsJoin
<1>17. Contents'
  <2>1. PICK c : c = Cache
    OBVIOUS
  <2>2. Holds(c, Progress(m), Enc, layout.src, Region) /\ InUse(c) \subseteq Touched
    BY <1>1, <1>6, <2>1, ContentsNow DEF Active
  <2>3. decrypt = Key
    BY DEF Steady, Callback
  <2>4. PICK w : w = raw_write(c, layout.dst + m, piece, Key)
    OBVIOUS
  <2>5. Becomes(w) /\ pc' = pc
    BY <1>1, <1>6, <2>1, <2>3, <2>4 DEF WriteOut
  <2>6. m \in 0 .. Len(Image) /\ n \in 0 .. Len(Image) - m /\ Len(piece) = n
        /\ \A i \in 1 .. n : piece[i] = Target[m + i]
    BY <1>7, <1>9, <1>10, <1>11
  <2>7. Holds(w, Progress(m + n), Enc, layout.src, Region) /\ InUse(w) \subseteq Touched
    BY <1>0, <1>14, <2>2, <2>4, <2>6, WritePiece
  <2>8. pc' \in Active
    BY <2>5 DEF Active
  <2>9. PICK z : z = m + n
    OBVIOUS
  <2> QED BY <1>0, <1>16, <2>5, <2>7, <2>8, <2>9, ContentsBecome
<1> QED BY <1>15, <1>17

LEMMA ReturnEarlyRight ==
  ASSUME DInv, ReturnEarly
  PROVE  DInv'
<1>1. /\ Steady /\ UNCHANGED input /\ pc = "read" /\ Enough /\ process_resource(Piece)
      /\ xd' = [xd EXCEPT !.bytes_already_reported = @ + MaxReturn]
  BY DEF DInv, ReturnEarly
<1>2. /\ Inputs /\ Inputs' /\ Available' = Available /\ patch' = patch /\ layout' = layout /\ Target' = Target
  BY <1>1, InputsKept DEF Steady
<1>3. PICK n \in Nat \ {0} : n = MaxReturn
  BY Sizes
<1>4. PICK r \in Nat : r = xd.bytes_already_reported
  BY <1>1, DecodingSizes
<1>5. PICK out : out = xd.out /\ IsSequence(out)
  BY <1>1 DEF Steady, XdType
<1>6. PICK o \in Nat : o = Len(out)
  BY <1>5 DEF IsSequence
<1>7. r + n < o
  <2>1. o - r > n
    BY <1>1, <1>3, <1>4, <1>5, <1>6 DEF Enough, Waiting
  <2> QED BY <2>1
<1>8. PICK piece : piece = SubSeq(xd.out, xd.bytes_already_reported + 1, xd.bytes_already_reported + n)
  OBVIOUS
<1>9. piece # <<>>
  <2>1. PICK a \in Nat \ {0} : a = r + 1
    <3>1. r + 1 \in Nat \ {0}
      OBVIOUS
    <3> QED BY <3>1
  <2>2. PICK z \in Nat : z = r + n
    OBVIOUS
  <2>3. a <= z + 1 /\ z <= o /\ z - a + 1 = n
    BY <1>7, <2>1, <2>2
  <2>4. piece = SubSeq(out, a, z)
    BY <1>4, <1>5, <1>8, <2>1, <2>2
  <2>5. IsCut(piece, out, a, z)
    BY <1>5, <1>6, <2>3, <2>4, Cut
  <2>6. Len(piece) = n
    BY <2>3, <2>5 DEF IsCut
  <2> QED BY <2>6
<1>10. WriteOut(piece)
  BY <1>1, <1>3, <1>8, <1>9 DEF process_resource, Piece
<1>11. pc' = pc /\ decrypt' = decrypt
  BY <1>10 DEF WriteOut
<1>12. /\ xd'.win = xd.win /\ xd'.ip = xd.ip /\ xd'.busy = xd.busy /\ xd'.out = xd.out
       /\ xd'.bytes_already_reported = r + n /\ xd'.blk = xd.blk /\ xd'.cur = xd.cur
       /\ xd'.received = xd.received /\ xd'.end_of_patch = xd.end_of_patch /\ xd'.header = xd.header
  BY <1>1, <1>3, <1>4 DEF Steady, XdType
<1>13. Steady'
  <2>1. XdType'
    <3>1. XdType
      BY <1>1 DEF Steady
    <3>2. xd' = [received |-> xd'.received, header |-> xd'.header, win |-> xd'.win, ip |-> xd'.ip, busy |-> xd'.busy,
           out |-> xd'.out, bytes_already_reported |-> xd'.bytes_already_reported, blk |-> xd'.blk,
           cur |-> xd'.cur, end_of_patch |-> xd'.end_of_patch]
      BY <1>1, <3>1 DEF XdType
    <3>3. {xd'.received, xd'.win, xd'.ip, xd'.bytes_already_reported} \subseteq Nat
      BY <1>12, <3>1 DEF XdType
    <3>4. {xd'.header, xd'.busy, xd'.end_of_patch} \subseteq BOOLEAN
      BY <1>12, <3>1 DEF XdType
    <3>5. IsSequence(xd'.out)
      BY <1>5, <1>12
    <3> QED BY <3>2, <3>3, <3>4, <3>5 DEF XdType
  <2>2. xd.busy
    <3> SUFFICES ASSUME ~xd.busy PROVE FALSE
      OBVIOUS
    <3>1. xd.out = <<>>
      BY <1>1 DEF Steady, Decoding
    <3>2. o = 0
      BY <1>5, <1>6, <3>1
    <3> QED BY <1>7, <3>2
  <2>3. Decoding'
    <3>1. WindowStart' = WindowStart /\ WindowEnd' = WindowEnd
      BY <1>2, <1>12 DEF WindowStart, WindowEnd
    <3>2. xd'.bytes_already_reported < Len(xd'.out)
      BY <1>5, <1>6, <1>7, <1>12
    <3> QED BY <1>1, <1>2, <1>12, <2>2, <3>1, <3>2 DEF Steady, Decoding
  <2> QED BY <1>1, <1>2, <1>11, <2>1, <2>3, CallbackKept DEF Steady
<1>14. ASSUME Separate PROVE Stream' /\ Holding' /\ Contents'
  <2>1. Stream /\ Holding /\ Contents
    BY <1>14 DEF DInv
  <2>2. xd.bytes_already_reported + n <= Len(xd.out)
    BY <1>4, <1>5, <1>6, <1>7
  <2>3. Contents' /\ got' = SubSeq(Target, 1, Reported + n)
    BY <1>1, <1>8, <1>10, <1>14, <2>1, <2>2, WriteOutRight
  <2>4. xd'.ip - Len(xd'.out) + xd'.bytes_already_reported = Reported + n
    <3>1. PICK ip \in Nat : ip = xd.ip
      BY <1>1, DecodingSizes
    <3>2. ip - o + (r + n) = (ip - o + r) + n
      OBVIOUS
    <3> QED BY <1>4, <1>5, <1>6, <1>12, <3>1, <3>2 DEF Reported
  <2>5. Stream'
    BY <1>1, <1>2, <1>11, <1>12, <2>1, <2>3, <2>4 DEF Stream
  <2> QED BY <1>1, <1>12, <2>1, <2>3, <2>5, HoldingKept
<1> QED BY <1>1, <1>13, <1>14, InvariantNext

\* The rest of a window is never empty.
LEMMA RestOfWindow ==
  ASSUME Steady, xd.busy, xd.ip = WindowEnd
  PROVE  /\ xd.bytes_already_reported < Len(xd.out)
         /\ SubSeq(xd.out, xd.bytes_already_reported + 1, Len(xd.out)) # <<>>
<1>1. PICK out : out = xd.out /\ IsSequence(out)
  BY DEF Steady, XdType
<1>2. PICK o \in Nat : o = Len(out)
  BY <1>1 DEF IsSequence
<1>3. PICK r \in Nat : r = xd.bytes_already_reported
  BY DecodingSizes
<1>4. WindowStart \in Nat /\ WindowEnd \in Nat /\ WindowStart < WindowEnd
  BY DecodingSizes
<1>5. o = xd.ip - WindowStart /\ (r = 0 \/ r < o)
  BY <1>1, <1>2, <1>3 DEF Steady, Decoding
<1>6. r < o
  BY <1>4, <1>5
<1>7. PICK a \in Nat \ {0} : a = r + 1
  <2>1. r + 1 \in Nat \ {0}
    OBVIOUS
  <2> QED BY <2>1
<1>8. PICK piece : piece = SubSeq(out, a, o)
  OBVIOUS
<1>9. a <= o + 1 /\ o <= Len(out)
  BY <1>2, <1>6, <1>7
<1>10. IsCut(piece, out, a, o)
  BY <1>1, <1>8, <1>9, Cut
<1>11. Len(piece) = o - r
  BY <1>7, <1>10 DEF IsCut
<1>12. piece # <<>>
  BY <1>6, <1>11
<1> QED BY <1>1, <1>2, <1>3, <1>6, <1>7, <1>8, <1>12

LEMMA EmptySequence ==
  IsSequence(<<>>) /\ Len(<<>>) = 0
<1>1. <<>> \in Seq({})
  OBVIOUS
<1> QED BY <1>1, Typed

LEMMA NothingOf ==
  ASSUME Inputs, NEW ip \in Nat, ip <= Len(Image)
  PROVE  SubSeq(Target, ip + 1, ip) = <<>>
<1>1. PICK t : t = Target /\ IsSequence(t) /\ Len(t) = Len(Image)
  BY TargetType, Typed
<1>2. PICK a \in Nat \ {0} : a = ip + 1
  <2>1. ip + 1 \in Nat \ {0}
    OBVIOUS
  <2> QED BY <2>1
<1>3. PICK u, e : u = SubSeq(t, a, ip) /\ e = <<>>
  OBVIOUS
<1>4. a <= ip + 1 /\ ip <= Len(t) /\ ip - a + 1 = 0
  <2>1. ip - a + 1 = 0 /\ a <= ip + 1
    BY <1>2
  <2> QED BY <1>1, <2>1
<1>5. IsCut(u, t, a, ip)
  BY <1>1, <1>3, <1>4, Cut
<1>6. IsSequence(u) /\ Len(u) = 0
  BY <1>4, <1>5 DEF IsCut
<1>7. IsSequence(e) /\ Len(e) = 0
  BY <1>3, EmptySequence
<1>8. u = e
  BY <1>6, <1>7, SameSequence
<1> QED BY <1>1, <1>2, <1>3, <1>8

\* The step of a failure that leaves everything as it was.
LEMMA FailRight ==
  ASSUME DInv, UNCHANGED <<input, dev, segs, decrypt, xd, got>>, pc = "read", pc' = "error"
  PROVE  DInv'
<1>1. Steady
  BY DEF DInv
<1>2. Steady'
  BY <1>1, DecoderKept, CallbackKept DEF Steady
<1>3. ASSUME Separate PROVE Stream' /\ Holding' /\ Contents'
  <2>1. Stream /\ Holding /\ Contents
    BY <1>3 DEF DInv
  <2> QED BY <1>1, <2>1, StreamKept, HoldingKept, ContentsKept DEF Steady, Active
<1> QED BY <1>1, <1>2, <1>3, InvariantNext

LEMMA OutputRight ==
  ASSUME DInv, Output
  PROVE  DInv'
<1>1. Steady /\ UNCHANGED input /\ pc = "read" /\ xd.busy /\ xd.ip = WindowEnd
  BY DEF DInv, Output, Asks, Event
<1>2. CASE Fail /\ UNCHANGED <<dev, segs, decrypt, xd, got>>
  BY <1>1, <1>2, FailRight DEF Fail
<1>3. CASE /\ process_resource(SubSeq(xd.out, xd.bytes_already_reported + 1, Len(xd.out)))
           /\ xd' = Consumed
  <2>2. /\ Inputs /\ Inputs' /\ Available' = Available /\ patch' = patch /\ layout' = layout /\ Target' = Target
    BY <1>1, InputsKept DEF Steady
  <2>3. PICK r \in Nat : r = xd.bytes_already_reported
    BY <1>1, DecodingSizes
  <2>4. PICK o \in Nat : o = Len(xd.out)
    BY <1>1, DecodingSizes
  <2>5. PICK n \in Nat : n = o - r
    <3>1. r < o
      BY <1>1, <2>3, <2>4, RestOfWindow
    <3>2. o - r \in Nat
      BY <3>1
    <3> QED BY <3>2
  <2>6. xd.bytes_already_reported + n = Len(xd.out)
    BY <2>3, <2>4, <2>5
  <2>7. PICK piece : piece = SubSeq(xd.out, xd.bytes_already_reported + 1, xd.bytes_already_reported + n)
    OBVIOUS
  <2>8. WriteOut(piece)
    BY <1>1, <1>3, <2>6, <2>7, RestOfWindow DEF process_resource
  <2>9. pc' = pc /\ decrypt' = decrypt
    BY <2>8 DEF WriteOut
  <2>10. /\ xd'.win = xd.win /\ xd'.ip = xd.ip /\ xd'.busy = FALSE /\ xd'.out = <<>>
         /\ xd'.bytes_already_reported = 0 /\ xd'.blk = xd.blk /\ xd'.cur = xd.cur
         /\ xd'.received = xd.received /\ xd'.end_of_patch = xd.end_of_patch /\ xd'.header = xd.header
    BY <1>1, <1>3 DEF Steady, XdType, Consumed
  <2>11. Steady'
    <3>1. XdType
      BY <1>1 DEF Steady
    <3>2. XdType'
      <4>2. xd' = [received |-> xd'.received, header |-> xd'.header, win |-> xd'.win, ip |-> xd'.ip, busy |-> xd'.busy,
             out |-> xd'.out, bytes_already_reported |-> xd'.bytes_already_reported, blk |-> xd'.blk,
             cur |-> xd'.cur, end_of_patch |-> xd'.end_of_patch]
        BY <1>3, <3>1 DEF XdType, Consumed
      <4>3. {xd'.received, xd'.win, xd'.ip, xd'.bytes_already_reported} \subseteq Nat
        BY <2>10, <3>1 DEF XdType
      <4>4. {xd'.header, xd'.busy, xd'.end_of_patch} \subseteq BOOLEAN
        BY <2>10, <3>1 DEF XdType
      <4>5. IsSequence(xd'.out)
        BY <2>10, EmptySequence
      <4> QED BY <4>2, <4>3, <4>4, <4>5 DEF XdType
    <3>3. Decoding'
      <4>1. xd'.ip = IF xd'.win = 0 THEN 0 ELSE patch'.ends[xd'.win]
        <5>1. xd.win # 0
          BY <1>1, DecodingSizes
        <5> QED BY <1>1, <2>2, <2>10, <5>1 DEF WindowEnd
      <4> QED BY <1>1, <2>2, <2>10, <4>1 DEF Steady, Decoding
    <3> QED BY <1>1, <2>2, <2>9, <3>2, <3>3, CallbackKept DEF Steady
  <2>12. ASSUME Separate PROVE Stream' /\ Holding' /\ Contents'
    <3>1. Stream /\ Holding /\ Contents
      BY <2>12 DEF DInv
    <3>2. xd.bytes_already_reported + n <= Len(xd.out)
      BY <2>4, <2>6
    <3>3. Contents' /\ got' = SubSeq(Target, 1, Reported + n)
      BY <1>1, <2>7, <2>8, <2>12, <3>1, <3>2, WriteOutRight
    <3>4. PICK ip \in Nat : ip = xd.ip
      BY <1>1, DecodingSizes
    <3>5. Reported + n = ip
      <4>1. (ip - o + r) + n = ip
        BY <2>5
      <4> QED BY <2>3, <2>4, <3>4, <4>1 DEF Reported
    <3>6. xd'.ip - Len(xd'.out) + xd'.bytes_already_reported = ip /\ xd'.ip - Len(xd'.out) + 1 = ip + 1
      <4>1. Len(xd'.out) = 0
        BY <2>10, EmptySequence
      <4> QED BY <2>10, <3>4, <4>1
    <3>7. SubSeq(Target, ip + 1, ip) = <<>>
      <4>1. ip <= Len(Image)
        BY <1>1, <3>4, DecodingSizes
      <4> QED BY <2>2, <4>1, NothingOf
    <3>8. Stream'
      <4>1. xd'.out = SubSeq(Target', xd'.ip - Len(xd'.out) + 1, xd'.ip)
        BY <2>2, <2>10, <3>4, <3>6, <3>7
      <4>2. got' = SubSeq(Target', 1, xd'.ip - Len(xd'.out) + xd'.bytes_already_reported)
        BY <2>2, <3>3, <3>5, <3>6
      <4> QED BY <1>1, <2>9, <4>1, <4>2 DEF Stream
    <3> QED BY <1>1, <2>10, <3>1, <3>3, <3>8, HoldingKept
  <2> QED BY <1>1, <2>11, <2>12, InvariantNext
<1> QED BY <1>2, <1>3 DEF Output

LEMMA ReadNothingRight ==
  ASSUME DInv, ReadNothing
  PROVE  DInv'
<1>1. /\ Steady /\ UNCHANGED <<input, dev, segs, xd, got>> /\ pc = "read"
      /\ IF got = Target THEN pc' = "finish" /\ ClearDecrypt ELSE Fail /\ UNCHANGED decrypt
  BY DEF DInv, ReadNothing, Asks, process_resource, EndOfResource
<1>2. CASE got = Target
  <2>1. pc' = "finish" /\ decrypt' = Off
    BY <1>1, <1>2 DEF ClearDecrypt
  <2>2. Steady'
    <3>1. Inputs' /\ XdType' /\ Decoding'
      BY <1>1, DecoderKept
    <3>2. Callback'
      BY <2>1 DEF Callback
    <3> QED BY <3>1, <3>2 DEF Steady
  <2>3. ASSUME Separate PROVE Stream' /\ Holding' /\ Contents'
    <3>1. Stream /\ Holding /\ Contents
      BY <2>3 DEF DInv
    <3>2. pc \in Active /\ pc' \in Active
      BY <1>1, <2>1 DEF Active
    <3>3. Stream'
      BY <1>1, <1>2, <3>1, StreamKept
    <3>4. Contents'
      BY <1>1, <3>1, <3>2, ContentsKept DEF Steady
    <3> QED BY <1>1, <3>1, <3>3, <3>4, HoldingKept
  <2> QED BY <1>1, <2>2, <2>3, InvariantNext
<1>3. CASE got # Target
  BY <1>1, <1>3, FailRight DEF Fail
<1> QED BY <1>2, <1>3

\* What waits in the cache is part of what is written: the device has the rest.
LEMMA OthersOnDevice ==
  ASSUME Inputs, NEW c, NEW n \in 0 .. Len(Image), Holds(c, Progress(n), Enc, layout.src, Region),
         NEW b \in Blocks \ Region
  PROVE  c.dev[b] = Before(b)
<1>1. c \in CacheState /\ (c.dev[b] = Progress(n)[b] \/ DirtyAt(c, b))
  BY DEF Holds
<1>2. Progress(n)[b] = Before(b)
  BY ProgressRight DEF Region
<1>3. ~DirtyAt(c, b)
  <2> SUFFICES ASSUME NEW k \in DOMAIN c.segs, c.segs[k].at = SegOf(b), (b % SegBlocks) \in c.segs[k].dirty
               PROVE  FALSE
    BY DEF DirtyAt
  <2>1. SegRight(c.segs[k], Progress(n), Enc, layout.src, Region)
    BY DEF Holds
  <2>2. Block(c.segs[k].at, (b % SegBlocks)) \in Region
    BY <2>1 DEF SegRight
  <2>3. Block(SegOf(b), (b % SegBlocks)) = b
    BY Geometry
  <2> QED BY <2>2, <2>3
<1> QED BY <1>1, <1>2, <1>3

LEMMA FinishRight ==
  ASSUME DInv, Finish
  PROVE  DInv'
<1>1. /\ Steady /\ UNCHANGED <<input, decrypt, xd, got>> /\ pc = "finish" /\ pc' = "done"
      /\ Becomes(Update(Cache)) /\ decrypt = Off
  BY DEF DInv, Finish, Steady, Callback
<1>2. Inputs
  BY <1>1 DEF Steady
<1>3. Steady'
  <2>1. Inputs' /\ XdType' /\ Decoding'
    BY <1>1, DecoderKept
  <2>2. Callback'
    BY <1>1 DEF Callback
  <2> QED BY <2>1, <2>2 DEF Steady
<1>4. ASSUME Separate PROVE Stream' /\ Holding' /\ Contents'
  <2>1. Stream /\ Holding /\ Contents
    BY <1>4 DEF DInv
  <2>2. got = Target
    BY <1>1, <2>1 DEF Stream
  <2>3. PICK n \in 0 .. Len(Image) : n = Len(got)
    BY <1>1, <2>1, StreamSizes
  <2>4. PICK D \in Disk : D = Progress(n)
    BY <1>2, ProgressRight
  <2>5. PICK c, enc, R : c = Cache /\ enc = Enc /\ R = Region
    OBVIOUS
  <2>6. PICK src \in Nat : src = layout.src
    BY <1>2, InputTypes
  <2>7. Holds(c, D, enc, src, R)
    BY <1>1, <2>1, <2>3, <2>4, <2>5, <2>6, ContentsNow DEF Active
  <2>8. slots \in Nat \ {0} /\ layout.last \in Blocks /\ layout.last \in R /\ SegOf(layout.last) \notin enc
    BY <1>2, <1>4, <2>5, InputTypes, Places, Separated
  <2>9. Update(c).dev = Overwrite(D, layout.last, Updated)
    BY <1>1, <2>7, <2>8, UpdateRight
  <2>10. dev' = Overwrite(Progress(Len(Target)), layout.last, Updated)
    BY <1>1, <2>2, <2>3, <2>4, <2>5, <2>9 DEF Becomes
  <2>11. Progress(Len(Target))' = Progress(Len(Target)) /\ layout' = layout /\ Updated' = Updated
    BY <1>1, <1>2, ProgressKept, InputsKept
  <2>12. dev' = Overwrite(Progress(Len(Target))', layout'.last, Updated')
    BY <2>10, <2>11
  <2>13. Contents'
    BY <1>1, <2>12 DEF Contents
  <2> QED BY <1>1, <2>1, <2>2, <2>13, StreamKept, HoldingKept
<1> QED BY <1>1, <1>3, <1>4, InvariantNext

\* on-error after an update without encryption.
LEMMA OnErrorRight ==
  ASSUME DInv, OnError
  PROVE  DInv'
<1>1. /\ Steady /\ UNCHANGED <<input, decrypt, xd, got>> /\ pc = "error" /\ pc' = "failed"
      /\ Becomes(Update([Cache EXCEPT !.segs = <<>>])) /\ decrypt = Key
  BY DEF DInv, OnError, Steady, Callback
<1>2. Inputs /\ Key' = Key /\ layout' = layout /\ Region' = Region
  BY <1>1, InputsKept DEF Steady
<1>3. Steady'
  <2>1. Inputs' /\ XdType' /\ Decoding'
    BY <1>1, DecoderKept
  <2>2. Callback'
    BY <1>1, <1>2 DEF Callback
  <2> QED BY <2>1, <2>2 DEF Steady
<1>4. ASSUME Separate PROVE Stream' /\ Holding' /\ Contents'
  <2>1. Stream /\ Holding /\ Contents
    BY <1>4 DEF DInv
  <2>2. ASSUME ~layout.src_key, NEW b \in Blocks \ Region PROVE dev'[b] = Before(b)
    <3>1. PICK n \in 0 .. Len(Image) : n = Len(got)
      BY <1>1, <2>1, StreamSizes
    <3>2. PICK c : c = Cache /\ Holds(c, Progress(n), Enc, layout.src, Region)
      BY <1>1, <2>1, <3>1, ContentsNow DEF Active
    <3>3. dev[b] = Before(b) /\ dev \in Disk
      <4>1. c.dev[b] = Before(b)
        BY <1>2, <3>1, <3>2, OthersOnDevice
      <4>2. c.dev \in Disk
        BY <3>2, CacheFields DEF Holds
      <4> QED BY <3>2, <4>1, <4>2 DEF Cache
    <3>4. PICK D \in Disk : D = dev
      BY <3>3
    <3>5. PICK empty : empty = [dev |-> D, segs |-> <<>>]
      OBVIOUS
    <3>6. empty = [Cache EXCEPT !.segs = <<>>]
      BY <3>4, <3>5 DEF Cache
    <3>7. PICK enc, R : enc = {} /\ R = Region
      OBVIOUS
    <3>8. PICK src \in Nat : src = layout.src
      BY <1>2, InputTypes
    <3>9. Holds(empty, D, enc, src, R)
      <4>1. empty \in CacheState
        BY <3>5 DEF CacheState
      <4>2. DOMAIN empty.segs = {}
        BY <3>5
      <4>3. \A x \in Blocks : empty.dev[x] = D[x]
        BY <3>5
      <4> QED BY <4>1, <4>2, <4>3 DEF Holds
    <3>10. slots \in Nat \ {0} /\ layout.last \in Blocks /\ layout.last \in R /\ SegOf(layout.last) \notin enc
      BY <1>2, <3>7, InputTypes, Places
    <3>11. decrypt = Off
      BY <1>1, <2>2 DEF Key
    <3>12. Update(empty).dev = Overwrite(D, layout.last, Updated)
      BY <3>9, <3>10, <3>11, UpdateRight
    <3>13. dev' = Overwrite(D, layout.last, Updated)
      BY <1>1, <3>6, <3>12 DEF Becomes
    <3>14. b # layout.last
      BY <3>7, <3>10
    <3> QED BY <3>3, <3>4, <3>13, <3>14 DEF Overwrite, Disk
  <2>3. \A b \in Blocks : Before(b)' = Before(b)
    BY <1>1, <1>2, ProgressKept
  <2>4. Contents'
    BY <1>1, <1>2, <2>2, <2>3 DEF Contents
  <2> QED BY <1>1, <2>1, <2>4, StreamKept, HoldingKept
<1> QED BY <1>1, <1>3, <1>4, InvariantNext

LEMMA InitRight ==
  ASSUME Init
  PROVE  DInv
<1>1. Inputs
  BY DEF Init, Inputs
<1>2. /\ pc = "resource" /\ dev = Original /\ segs = <<>> /\ decrypt = Off /\ got = <<>>
      /\ xd = [received |-> 0, header |-> FALSE, win |-> 0, ip |-> 0, busy |-> FALSE, out |-> <<>>,
               bytes_already_reported |-> 0, blk |-> Off, cur |-> <<>>, end_of_patch |-> FALSE]
  BY DEF Init, Original
<1>3. /\ xd.received = 0 /\ xd.header = FALSE /\ xd.win = 0 /\ xd.ip = 0 /\ xd.busy = FALSE /\ xd.out = <<>>
      /\ xd.bytes_already_reported = 0 /\ xd.blk = Off /\ xd.cur = <<>> /\ xd.end_of_patch = FALSE
  BY <1>2
<1>4. Steady
  <2>1. XdType
    <3>1. IsSequence(xd.out)
      BY <1>3, EmptySequence
    <3> QED BY <1>2, <1>3, <3>1 DEF XdType
  <2>2. Decoding
    <3>1. PICK n \in Nat \ {0} : n = Len(patch.ends)
      BY <1>1, Windows
    <3>2. Available >= 0
      <4>1. Available = n - (IF damage = "short" THEN 1 ELSE 0)
        BY <3>1 DEF Available
      <4>2. CASE damage = "short"
        BY <4>1, <4>2
      <4>3. CASE damage # "short"
        BY <4>1, <4>3
      <4> QED BY <4>2, <4>3
    <3> QED BY <1>3, <3>2 DEF Decoding
  <2>3. Callback
    BY <1>2 DEF Callback
  <2> QED BY <1>1, <2>1, <2>2, <2>3 DEF Steady
<1>5. Stream
  <2>1. PICK z \in Nat : z = 0
    OBVIOUS
  <2>2. SubSeq(Target, z + 1, z) = <<>>
    <3>1. z <= Len(Image)
      BY <1>1, <2>1, InputTypes
    <3> QED BY <1>1, <3>1, NothingOf
  <2>3. SubSeq(Target, 1, 0) = <<>>
    BY <2>1, <2>2
  <2>4. Len(xd.out) = 0
    BY <1>3, EmptySequence
  <2>5. xd.ip - Len(xd.out) + 1 = 1 /\ xd.ip - Len(xd.out) + xd.bytes_already_reported = 0
    <3>1. xd.ip = 0 /\ xd.bytes_already_reported = 0
      BY <1>3
    <3> QED BY <2>4, <3>1
  <2> QED BY <1>2, <1>3, <2>3, <2>5 DEF Stream
<1>6. Holding
  BY <1>3 DEF Holding
<1>7. Contents
  <2>1. PICK c : c = Cache
    OBVIOUS
  <2>2. c = [dev |-> Original, segs |-> <<>>]
    BY <1>2, <2>1 DEF Cache
  <2>3. Original \in Disk
    BY <1>1, BeforeTyped
  <2>4. Progress(Len(got)) = Original
    <3>1. Len(got) = 0
      BY <1>2, EmptySequence
    <3>2. PICK z : z = 0 /\ z = Len(got)
      BY <3>1
    <3>3. layout.dst \in Nat
      BY <1>1, InputTypes
    <3>4. layout.dst .. layout.dst + z - 1 = {}
      BY <3>2, <3>3
    <3>5. Progress(z) = [b \in Blocks |-> Original[b]]
      BY <3>4 DEF Progress, Put
    <3> QED BY <2>3, <3>2, <3>5 DEF Disk
  <2>5. DOMAIN c.segs = {} /\ c \in CacheState /\ c.dev = Original
    BY <2>2, <2>3 DEF CacheState
  <2>6. Holds(c, Original, Enc, layout.src, Region) /\ InUse(c) \subseteq Touched
    BY <2>5 DEF Holds, InUse
  <2> QED BY <1>2, <2>1, <2>4, <2>6 DEF Contents
<1> QED BY <1>4, <1>5, <1>6, <1>7 DEF DInv

LEMMA StutterRight ==
  ASSUME DInv, UNCHANGED vars
  PROVE  DInv'
<1>1. Steady /\ UNCHANGED <<input, pc, dev, segs, decrypt, xd, got>>
  BY DEF DInv, vars
<1>2. Inputs /\ Key' = Key /\ layout' = layout /\ Region' = Region /\ Updated' = Updated
  BY <1>1, InputsKept DEF Steady
<1>3. Steady'
  <2>1. Inputs' /\ XdType' /\ Decoding'
    BY <1>1, DecoderKept
  <2>2. Callback'
    BY <1>1, <1>2 DEF Callback, Steady
  <2> QED BY <2>1, <2>2 DEF Steady
<1>4. ASSUME Separate PROVE Stream' /\ Holding' /\ Contents'
  <2>1. Stream /\ Holding /\ Contents
    BY <1>4 DEF DInv
  <2>2. Stream'
    BY <1>1, <2>1, StreamKept DEF Stream
  <2>3. Contents'
    <3>1. CASE pc \in Active
      BY <1>1, <1>2, <2>1, <3>1, ContentsKept
    <3>2. CASE pc \notin Active
      <4>1. /\ Progress(Len(Target))' = Progress(Len(Target))
            /\ \A b \in Blocks : Before(b)' = Before(b)
        BY <1>1, <1>2, ProgressKept
      <4>2. pc' = "done" => dev' = Overwrite(Progress(Len(Target))', layout'.last, Updated')
        BY <1>1, <1>2, <2>1, <4>1 DEF Contents
      <4>3. pc' = "failed" /\ ~layout'.src_key => \A b \in Blocks \ Region' : dev'[b] = Before(b)'
        BY <1>1, <1>2, <2>1, <4>1 DEF Contents
      <4> QED BY <1>1, <3>2, <4>2, <4>3 DEF Contents, Active
    <3> QED BY <3>1, <3>2
  <2> QED BY <1>1, <2>1, <2>2, <2>3, HoldingKept
<1> QED BY <1>1, <1>3, <1>4, InvariantNext

LEMMA StepRight ==
  ASSUME DInv, [Next]_vars
  PROVE  DInv'
<1>1. CASE SetUp
  BY <1>1, SetUpRight
<1>2. CASE ReturnEarly
  BY <1>2, ReturnEarlyRight
<1>3. CASE ReadMore
  BY <1>3, ReadMoreRight
<1>4. CASE GotHeader
  BY <1>4, GotHeaderRight
<1>5. CASE WinStart
  BY <1>5, WinStartRight
<1>6. CASE GetSrcBlk
  BY <1>6, GetSrcBlkRight
<1>7. CASE Decode
  BY <1>7, DecodeRight
<1>8. CASE Output
  BY <1>8, OutputRight
<1>9. CASE ReadNothing
  BY <1>9, ReadNothingRight
<1>10. CASE Finish
  BY <1>10, FinishRight
<1>11. CASE OnError
  BY <1>11, OnErrorRight
<1>12. CASE Ended \/ UNCHANGED vars
  BY <1>12, StutterRight DEF Ended
<1> QED BY <1>1, <1>2, <1>3, <1>4, <1>5, <1>6, <1>7, <1>8, <1>9, <1>10, <1>11, <1>12 DEF Next

----------------------------------------------------------------------------
(* The theorems                                                            *)

\* The inductive invariant of a delta update (fwup_xdelta3.c and the callbacks
\* of fwup_apply.c, over block_cache.c), for every device, cache, layout and
\* patch.
THEOREM DeltaInvariant == Spec => []DInv
<1>1. Init => DInv
  BY InitRight
<1>2. DInv /\ [Next]_vars => DInv'
  BY StepRight
<1> QED BY <1>1, <1>2, PTL DEF Spec

\* What xdelta_read_impl returns, however it cuts the windows, is the new
\* image: no block twice, none left out, in order; and the decoder holds a part
\* of the old image, read inside of its bounds.
THEOREM StreamIsImage == Spec => []StreamExact
<1>1. DInv => StreamExact
  <2> SUFFICES ASSUME DInv PROVE StreamExact
    OBVIOUS
  <2>1. Steady /\ Inputs
    BY DEF DInv, Steady
  <2>2. xd.bytes_already_reported \in 0 .. Len(xd.out)
    BY <2>1, DecodingSizes
  <2>3. ASSUME Separate
        PROVE  /\ \E n \in 0 .. Len(Target) : got = SubSeq(Target, 1, n)
               /\ \A i \in DOMAIN xd.cur : xd.cur[i] = Plain(OldBlock(xd.blk * ReadBlocks + i - 1))
    <3>1. Stream /\ Holding
      BY <2>3 DEF DInv
    <3>2. Reported \in 0 .. Len(Target) /\ got = SubSeq(Target, 1, Reported)
      <4>1. Reported \in 0 .. Len(Target)
        BY <2>1, <3>1, StreamSizes, TargetType
      <4>2. got = SubSeq(Target, 1, Reported)
        BY <3>1 DEF Stream, Reported
      <4> QED BY <4>1, <4>2
    <3>3. \A i \in DOMAIN xd.cur : xd.cur[i] = Plain(OldBlock(xd.blk * ReadBlocks + i - 1))
      <4>1. CASE xd.cur = <<>>
        BY <4>1
      <4>2. CASE xd.cur # <<>>
        <5>1. xd.cur = [i \in 1 .. SourceCount(xd.blk * ReadBlocks) |-> Plain(OldBlock(xd.blk * ReadBlocks + i - 1))]
          BY <3>1, <4>2 DEF Holding
        <5> QED BY <5>1
      <4> QED BY <4>1, <4>2
    <3> QED BY <3>2, <3>3
  <2> QED BY <2>2, <2>3 DEF StreamExact
<1> QED BY <1>1, DeltaInvariant, PTL

\* After a success the new image is where raw_write has to put it, encrypted if
\* it should be, and at any moment every other block of the device has its old
\* content, whatever the cache holds back or writes early.
THEOREM DeviceIsRight == Spec => []DeviceExact
<1>1. DInv => DeviceExact
  <2> SUFFICES ASSUME DInv, Separate
               PROVE  /\ FinalBits
                      /\ ~(pc = "failed" /\ layout.src_key) =>
                           \A b \in Blocks \ (Destination \cup {layout.last}) : dev[b] = Before(b)
    BY DEF DeviceExact, SeparateFinalBits, OthersKept
  <2>1. Steady /\ Inputs /\ Stream /\ Contents
    BY DEF DInv, Steady
  <2>2. PICK l \in Nat : l = Len(Image) /\ l = Len(Target) /\ DOMAIN Target = 1 .. l
    BY <2>1, TargetType, InputTypes
  <2>3. PICK D \in Disk : D = Progress(Len(Target))
    BY <2>1, <2>2, ProgressRight
  <2>4. ASSUME pc = "done", NEW b \in Blocks, b # layout.last PROVE dev[b] = D[b]
    BY <2>1, <2>3, <2>4 DEF Contents, Overwrite, Disk
  <2>5. FinalBits
    <3> SUFFICES ASSUME pc = "done", NEW i \in 1 .. l
                 PROVE  dev[layout.dst + i - 1] = Stored(Target[i], layout.dst + i - 1)
      BY <2>2 DEF FinalBits
    <3>1. PICK b \in Blocks : b = layout.dst + i - 1 /\ b # layout.last
      BY <2>1, <2>2, Places DEF Region
    <3>2. D[b] = Stored(Target[i], b)
      BY <2>1, <2>2, <2>3, <3>1, ProgressRight
    <3> QED BY <2>4, <3>1, <3>2
  <2>6. ASSUME ~(pc = "failed" /\ layout.src_key), NEW b \in Blocks \ Region PROVE dev[b] = Before(b)
    <3>1. CASE pc \in Active
      <4>1. PICK n \in 0 .. Len(Image) : n = Len(got)
        BY <2>1, StreamSizes
      <4>2. PICK c : c = Cache /\ Holds(c, Progress(n), Enc, layout.src, Region)
        BY <2>1, <3>1, <4>1, ContentsNow
      <4>3. c.dev[b] = Before(b)
        BY <2>1, <4>1, <4>2, OthersOnDevice
      <4> QED BY <4>2, <4>3 DEF Cache
    <3>2. CASE pc = "done"
      <4>1. b \in Blocks /\ b # layout.last /\ b \notin Destination
        BY DEF Region
      <4>2. D[b] = Before(b)
        BY <2>1, <2>2, <2>3, <4>1, ProgressRight
      <4> QED BY <2>4, <3>2, <4>1, <4>2
    <3>3. CASE pc = "failed"
      BY <2>1, <2>6, <3>3 DEF Contents
    <3> QED BY <2>1, <3>1, <3>2, <3>3 DEF Steady, Callback, Active
  <2> QED BY <2>5, <2>6 DEF Region
<1> QED BY <1>1, DeltaInvariant, PTL

\* An undamaged patch applies: neither the pieces xdelta_read_impl cuts the
\* windows into, nor the checksum of a window, nor the length and the hash of
\* the result make it fail, only an archive that cannot be read.
THEOREM PatchApplies == Spec => UndamagedApplies
<1> DEFINE Harmless == Separate /\ damage = "none" /\ pc = "read" /\ pc' = "error" =>
                       Event = "INPUT" /\ ~xd.end_of_patch
<1>1. DInv /\ [Next]_vars => [Harmless]_vars
  <2> SUFFICES ASSUME DInv, Next, Separate, damage = "none", pc = "read", pc' = "error"
               PROVE  Event = "INPUT" /\ ~xd.end_of_patch
    OBVIOUS
  <2>1. Steady /\ Inputs /\ Stream
    BY DEF DInv, Steady
  <2>2. PICK l \in Nat : l = Len(Image) /\ l = Len(Target)
    BY <2>1, TargetType, InputTypes
  <2>3. CASE ReadMore
    BY <2>3 DEF ReadMore, Asks
  <2>4. CASE ReturnEarly
    <3>1. Piece = <<>>
      BY <2>4 DEF ReturnEarly, process_resource, WriteOut
    <3>2. PICK n \in Nat \ {0} : n = MaxReturn
      BY Sizes
    <3>3. PICK r \in Nat : r = xd.bytes_already_reported
      BY <2>1, DecodingSizes
    <3>4. PICK out : out = xd.out /\ IsSequence(out)
      BY <2>1 DEF Steady, XdType
    <3>5. PICK o \in Nat : o = Len(out)
      BY <3>4 DEF IsSequence
    <3>6. o - r > n
      BY <2>4, <3>2, <3>3, <3>4, <3>5 DEF ReturnEarly, Enough, Waiting
    <3>7. PICK a \in Nat \ {0} : a = r + 1
      <4>1. r + 1 \in Nat \ {0}
        OBVIOUS
      <4> QED BY <4>1
    <3>8. PICK z \in Nat : z = r + n
      OBVIOUS
    <3>9. PICK piece : piece = SubSeq(out, a, z) /\ piece = <<>>
      BY <3>1, <3>2, <3>3, <3>4, <3>7, <3>8 DEF Piece
    <3>10. a <= z + 1 /\ z <= o /\ z - a + 1 = n
      BY <3>6, <3>7, <3>8
    <3>11. IsCut(piece, out, a, z)
      BY <3>4, <3>5, <3>9, <3>10, Cut
    <3>12. Len(piece) = n
      BY <3>10, <3>11 DEF IsCut
    <3> QED BY <3>9, <3>12
  <2>5. CASE Output
    <3>1. xd.busy /\ xd.ip = WindowEnd
      BY <2>5 DEF Output, Asks, Event
    <3>2. Noise \in ToSet(xd.out)
      <4>1. SubSeq(xd.out, xd.bytes_already_reported + 1, Len(xd.out)) # <<>>
        BY <2>1, <3>1, RestOfWindow
      <4> QED BY <2>5, <4>1 DEF Output, process_resource, WriteOut
    <3>3. PICK out : out = xd.out /\ IsSequence(out)
      BY <2>1 DEF Steady, XdType
    <3>4. PICK i \in 1 .. Len(out) : Noise = out[i]
      BY <3>2, <3>3 DEF ToSet, IsSequence
    <3>5. PICK o \in Nat : o = Len(out)
      BY <3>3 DEF IsSequence
    <3>6. PICK ip \in Nat : ip = xd.ip
      BY <2>1, DecodingSizes
    <3>7. o <= ip /\ ip <= l
      BY <2>1, <2>2, <3>3, <3>5, <3>6, DecodingSizes
    <3>8. PICK j \in 1 .. l : j = ip - o + i
      <4>1. ip - o + i \in 1 .. l
        BY <3>5, <3>7
      <4> QED BY <4>1
    <3>9. out[i] = Target[j]
      BY <2>1, <3>3, <3>5, <3>6, <3>8, StreamSizes
    <3>10. Noise = Plain(NewBlock(j))
      BY <2>1, <2>2, <3>4, <3>9, TargetType
    <3>11. [at |-> Off, of |-> "noise"] = NewBlock(j)
      BY <3>10 DEF Noise, Plain
    <3>12. NewBlock(j).of \in {"new", "old"}
      BY DEF NewBlock, OldBlock
    <3> QED BY <3>11, <3>12
  <2>6. CASE ReadNothing
    <3>1. ~xd.busy /\ xd.received = xd.win /\ xd.end_of_patch /\ got # Target
      BY <2>6 DEF ReadNothing, Asks, Event, process_resource, EndOfResource
    <3>2. PICK n \in Nat \ {0} : n = Len(patch.ends)
      BY <2>1, Windows
    <3>3. xd.win = n
      <4>1. Available = n - 0
        BY <3>2 DEF Available
      <4> QED BY <2>1, <3>1, <4>1 DEF Steady, Decoding
    <3>4. xd.ip = l /\ xd.out = <<>> /\ xd.bytes_already_reported = 0
      <4>1. patch.ends[n] = l
        BY <2>1, <2>2, <3>2, Windows
      <4> QED BY <2>1, <3>1, <3>3, <4>1 DEF Steady, Decoding
    <3>5. Reported = l
      <4>1. Len(xd.out) = 0
        BY <3>4, EmptySequence
      <4> QED BY <3>4, <4>1 DEF Reported
    <3>6. PICK g, t : g = got /\ t = Target
      OBVIOUS
    <3>7. IsSequence(g) /\ Len(g) = l /\ \A i \in 1 .. l : g[i] = t[i]
      BY <2>1, <3>5, <3>6, StreamSizes
    <3>8. IsSequence(t) /\ Len(t) = l
      BY <2>1, <2>2, <3>6, TargetType, Typed
    <3>9. g = t
      BY <3>7, <3>8, SameSequence
    <3> QED BY <3>1, <3>6, <3>9
  <2>7. CASE SetUp \/ Decode \/ WinStart \/ GotHeader \/ GetSrcBlk \/ Finish \/ OnError \/ Ended
    BY <2>7 DEF SetUp, Decode, WinStart, GotHeader, GetSrcBlk, xdelta_read_source_block, Finish, OnError, Ended, vars
  <2> QED BY <2>3, <2>4, <2>5, <2>6, <2>7 DEF Next
<1>2. [Harmless]_vars => [Separate /\ damage = "none" /\ pc = "read" /\ pc' = "error" =>
                          Event = "INPUT" /\ ~xd.end_of_patch]_vars
  OBVIOUS
<1> QED BY <1>1, <1>2, DeltaInvariant, PTL DEF Spec, UndamagedApplies

============================================================================
