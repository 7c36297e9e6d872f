--------------------------- MODULE ResourceProofs ---------------------------
(***************************************************************************)
(* Proofs about the way of a resource, for any files, block size, buffer   *)
(* and pieces of the archive: what was made of the files can be applied,   *)
(* and what is applied is the files in a row.                              *)
(***************************************************************************)
EXTENDS Resource, NaturalsInduction, SequenceTheorems, WellFoundedInduction, TLAPS

----------------------------------------------------------------------------
(* Numbers                                                                 *)

\* A set of numbers has a least one.
LEMMA LeastNumber ==
  ASSUME NEW S, S \subseteq Nat, S # {}
  PROVE  \E x \in S : \A y \in S : x <= y
<1> DEFINE R == OpToRel(<, Nat)
<1>1. IsWellFoundedOn(R, Nat)
  BY NatLessThanWellFounded
<1> HIDE DEF R
<1>2. PICK x \in S : \A y \in S : ~(<<y, x>> \in R)
  BY <1>1, WFMin
<1>3. \A y \in S : <<y, x>> \in R <=> y < x
  BY DEF R, OpToRel
<1>4. x \in Nat /\ \A y \in S : y \in Nat /\ ~(y < x)
  BY <1>2, <1>3
<1> QED BY <1>4

\* Entries of a map are data and holes in turn.
LEMMA Parity ==
  /\ ~IN_HOLE(0) /\ IN_HOLE(1)
  /\ \A n \in Nat : IN_HOLE(n + 1) <=> ~IN_HOLE(n)
  /\ \A n \in Nat : (n % 2 = 0) <=> ~IN_HOLE(n)
BY DEF IN_HOLE

----------------------------------------------------------------------------
(* Sums                                                                    *)

\* The recursive function of Sums exists.
LEMMA SumsDefined ==
  ASSUME NEW s, Len(s) \in Nat
  PROVE  /\ DOMAIN Sums(s) = 0 .. Len(s) /\ Sums(s)[0] = 0
         /\ \A k \in 1 .. Len(s) : Sums(s)[k] = Sums(s)[k - 1] + s[k]
<1> DEFINE n == Len(s)
           F(f, m) == [i \in 0 .. m |-> IF i = 0 THEN 0 ELSE f[i - 1] + s[i]]
           sum == CHOOSE f : f = F(f, n)
<1>1. Sums(s) = sum
  BY DEF Sums
<1> HIDE DEF n
<1> DEFINE Missing == {m \in 0 .. n : ~\E f : f = F(f, m)}
<1>0. n \in Nat
  BY DEF n
<1>2. Missing = {}
  <2> SUFFICES ASSUME Missing # {} PROVE FALSE
    OBVIOUS
  <2>0. Missing \subseteq Nat
    BY <1>0
  <2> HIDE DEF Missing
  <2>1. PICK m \in Missing : \A x \in Missing : m <= x
    BY <2>0, LeastNumber
  <2>2. m # 0
    <3>1. F([i \in 0 .. 0 |-> 0], 0) = [i \in 0 .. 0 |-> 0]
      OBVIOUS
    <3> QED BY <2>1, <3>1 DEF Missing
  <2>3. m \in 0 .. n /\ m - 1 \in 0 .. n /\ m - 1 \notin Missing
    <3>1. m \in 0 .. n
      BY <2>1 DEF Missing
    <3>2. m - 1 \in 0 .. n /\ ~(m <= m - 1)
      BY <1>0, <2>2, <3>1
    <3> QED BY <2>1, <3>1, <3>2
  <2>4. PICK f : f = F(f, m - 1)
    BY <2>3 DEF Missing
  <2> DEFINE g == [i \in 0 .. m |-> IF i = m THEN f[m - 1] + s[m] ELSE f[i]]
  <2>5. g = F(g, m)
    BY <1>0, <2>2, <2>3, <2>4
  <2> QED BY <2>1, <2>5 DEF Missing
<1>3. sum = F(sum, n)
  <2>1. n \in 0 .. n /\ n \notin Missing
    BY <1>0, <1>2
  <2>2. \E f : f = F(f, n)
    BY <2>1
  <2> HIDE DEF F
  <2> QED BY <2>2
<1> HIDE DEF sum
<1>4. DOMAIN sum = 0 .. n
  BY <1>3
<1>5. sum[0] = 0 /\ \A i \in 1 .. n : sum[i] = sum[i - 1] + s[i]
  BY <1>0, <1>3
<1> QED BY <1>1, <1>4, <1>5 DEF n

LEMMA SumsNat ==
  ASSUME NEW s \in Seq(Nat)
  PROVE  /\ \A k \in 0 .. Len(s) : Sums(s)[k] \in Nat
         /\ Sums(s)[0] = 0
         /\ \A k \in 1 .. Len(s) : s[k] \in Nat /\ Sums(s)[k] = Sums(s)[k - 1] + s[k]
<1>0. Len(s) \in Nat /\ \A k \in 1 .. Len(s) : s[k] \in Nat
  BY LenProperties, ElementOfSeq
<1>1. Sums(s)[0] = 0 /\ \A k \in 1 .. Len(s) : Sums(s)[k] = Sums(s)[k - 1] + s[k]
  BY <1>0, SumsDefined
<1> DEFINE Bad == {k \in 0 .. Len(s) : Sums(s)[k] \notin Nat}
<1>2. Bad = {}
  <2> SUFFICES ASSUME Bad # {} PROVE FALSE
    OBVIOUS
  <2>0. Bad \subseteq Nat
    BY <1>0
  <2> HIDE DEF Bad
  <2>1. PICK m \in Bad : \A x \in Bad : m <= x
    BY <2>0, LeastNumber
  <2>2. m \in 0 .. Len(s) /\ Sums(s)[m] \notin Nat
    BY <2>1 DEF Bad
  <2>3. m \in 1 .. Len(s) /\ m - 1 \in 0 .. Len(s) /\ ~(m <= m - 1)
    BY <1>0, <1>1, <2>2
  <2>4. Sums(s)[m - 1] \in Nat
    BY <2>1, <2>3 DEF Bad
  <2>5. PICK a \in Nat : a = Sums(s)[m - 1]
    BY <2>4
  <2>6. PICK b \in Nat : b = s[m]
    BY <1>0, <2>3
  <2>7. Sums(s)[m] = a + b
    BY <1>1, <2>3, <2>5, <2>6
  <2> QED BY <2>2, <2>7
<1> QED BY <1>0, <1>1, <1>2

LEMMA SumsGrow ==
  ASSUME NEW s \in Seq(Nat), NEW j \in 0 .. Len(s), NEW k \in 0 .. Len(s), j <= k
  PROVE  Sums(s)[j] <= Sums(s)[k]
<1>0. Len(s) \in Nat
  BY LenProperties
<1> DEFINE Bad == {x \in 0 .. Len(s) : j <= x /\ ~(Sums(s)[j] <= Sums(s)[x])}
<1>1. Bad = {}
  <2> SUFFICES ASSUME Bad # {} PROVE FALSE
    OBVIOUS
  <2>0. Bad \subseteq Nat
    BY <1>0
  <2> HIDE DEF Bad
  <2>1. PICK m \in Bad : \A x \in Bad : m <= x
    BY <2>0, LeastNumber
  <2>2. m \in 0 .. Len(s) /\ j <= m /\ ~(Sums(s)[j] <= Sums(s)[m])
    BY <2>1 DEF Bad
  <2>3. PICK a \in Nat : a = Sums(s)[j]
    BY SumsNat
  <2>4. PICK b \in Nat : b = Sums(s)[m]
    BY <2>2, SumsNat
  <2>5. m # j
    BY <2>2, <2>3, <2>4
  <2>6. m \in 1 .. Len(s) /\ m - 1 \in 0 .. Len(s) /\ ~(m <= m - 1) /\ j <= m - 1
    BY <1>0, <2>2, <2>5
  <2>7. PICK c \in Nat : c = Sums(s)[m - 1]
    BY <2>6, SumsNat
  <2>8. a <= c
    BY <2>1, <2>3, <2>6, <2>7 DEF Bad
  <2>9. PICK d \in Nat : d = s[m] /\ b = c + d
    BY <2>4, <2>6, <2>7, SumsNat
  <2> QED BY <2>2, <2>3, <2>4, <2>8, <2>9
<1> QED BY <1>1

\* The first sums depend on the first elements only.
Agree(s, t, n) == \A k \in 1 .. n : s[k] = t[k]

LEMMA SumsSame ==
  ASSUME NEW s \in Seq(Nat), NEW t \in Seq(Nat), NEW n \in Nat, n <= Len(s), n <= Len(t),
         Agree(s, t, n)
  PROVE  \A k \in 0 .. n : Sums(s)[k] = Sums(t)[k]
<1>0. Len(s) \in Nat /\ Len(t) \in Nat
  BY LenProperties
<1> DEFINE Bad == {k \in 0 .. n : Sums(s)[k] # Sums(t)[k]}
<1>1. Bad = {}
  <2> SUFFICES ASSUME Bad # {} PROVE FALSE
    OBVIOUS
  <2>0. Bad \subseteq Nat
    BY <1>0
  <2> HIDE DEF Bad
  <2>1. PICK m \in Bad : \A x \in Bad : m <= x
    BY <2>0, LeastNumber
  <2>2. m \in 0 .. n /\ Sums(s)[m] # Sums(t)[m]
    BY <2>1 DEF Bad
  <2>3. m # 0
    BY <2>2, SumsNat
  <2>4. m \in 1 .. n /\ m - 1 \in 0 .. n /\ ~(m <= m - 1) /\ m \in 1 .. Len(s) /\ m \in 1 .. Len(t)
    BY <1>0, <2>2, <2>3
  <2>5. Sums(s)[m - 1] = Sums(t)[m - 1]
    BY <2>1, <2>4 DEF Bad
  <2>6. s[m] = t[m]
    BY <2>4 DEF Agree
  <2>7. Sums(s)[m] = Sums(s)[m - 1] + s[m] /\ Sums(t)[m] = Sums(t)[m - 1] + t[m]
    BY <2>4, SumsNat
  <2> QED BY <2>2, <2>5, <2>6, <2>7
<1> QED BY <1>1

LEMMA SumsAppend ==
  ASSUME NEW s \in Seq(Nat), NEW x \in Nat
  PROVE  /\ Append(s, x) \in Seq(Nat) /\ Len(Append(s, x)) = Len(s) + 1 /\ Append(s, x)[Len(s) + 1] = x
         /\ \A k \in 1 .. Len(s) : Append(s, x)[k] = s[k]
         /\ \A k \in 0 .. Len(s) : Sums(Append(s, x))[k] = Sums(s)[k]
         /\ Sums(Append(s, x))[Len(s) + 1] = Sum(s) + x
<1>1. PICK t \in Seq(Nat) : t = Append(s, x)
  BY AppendProperties
<1>2. /\ Len(t) = Len(s) + 1 /\ t[Len(s) + 1] = x
      /\ \A k \in 1 .. Len(s) : t[k] = s[k]
  BY <1>1, AppendProperties
<1>3. PICK n \in Nat : n = Len(s)
  BY LenProperties
<1>4. \A k \in 0 .. n : Sums(s)[k] = Sums(t)[k]
  <2>1. n <= Len(s) /\ n <= Len(t)
    BY <1>2, <1>3
  <2>2. Agree(s, t, n)
    BY <1>2, <1>3 DEF Agree
  <2> QED BY <2>1, <2>2, SumsSame
<1>5. n + 1 \in 1 .. Len(t) /\ (n + 1) - 1 = n /\ n \in 0 .. n
  BY <1>2, <1>3
<1>6. Sums(t)[n + 1] = Sums(t)[n] + x
  BY <1>2, <1>3, <1>5, SumsNat
<1> QED BY <1>1, <1>2, <1>3, <1>4, <1>5, <1>6 DEF Sum

LEMMA SumsFront ==
  ASSUME NEW s \in Seq(Nat), s # <<>>
  PROVE  /\ Front(s) \in Seq(Nat) /\ Len(Front(s)) = Len(s) - 1 /\ Last(s) = s[Len(s)]
         /\ Last(s) \in Nat /\ Len(s) \in Nat \ {0}
         /\ \A k \in 1 .. Len(s) - 1 : Front(s)[k] = s[k]
         /\ \A k \in 0 .. Len(s) - 1 : Sums(Front(s))[k] = Sums(s)[k]
         /\ Sum(s) = Sum(Front(s)) + Last(s)
<1>1. PICK n \in Nat \ {0} : n = Len(s)
  <2>1. Len(s) \in Nat /\ Len(s) # 0
    BY LenProperties, EmptySeq
  <2> QED BY <2>1
<1>a. /\ Front(s) \in Seq(Nat) /\ Len(Front(s)) = n - 1
      /\ \A k \in 1 .. n - 1 : Front(s)[k] = s[k]
  <2>1. n - 1 \in Int /\ 1 \in Int /\ \A i \in 1 .. n - 1 : s[i] \in Nat
    BY <1>1, ElementOfSeq
  <2>2. PICK k \in Int : k = n - 1
    BY <2>1
  <2>3. \A i \in 1 .. k : s[i] \in Nat
    BY <2>1, <2>2
  <2>4. /\ SubSeq(s, 1, k) \in Seq(Nat)
        /\ Len(SubSeq(s, 1, k)) = IF 1 <= k THEN k - 1 + 1 ELSE 0
        /\ \A i \in 1 .. k - 1 + 1 : SubSeq(s, 1, k)[i] = s[1 + i - 1]
    BY <2>3, SubSeqProperties
  <2>5. Front(s) = SubSeq(s, 1, k)
    BY <1>1, <2>2 DEF Front
  <2> HIDE DEF Front
  <2> QED BY <1>1, <2>2, <2>4, <2>5
<1>2. PICK t \in Seq(Nat) : t = Front(s)
  BY <1>a
<1>3. Len(t) = n - 1 /\ \A k \in 1 .. n - 1 : t[k] = s[k]
  BY <1>a, <1>2
<1>4. n - 1 \in Nat /\ n - 1 <= n /\ n \in 1 .. n /\ n - 1 \in 0 .. n - 1
  BY <1>1
<1>5. \A k \in 0 .. n - 1 : Sums(t)[k] = Sums(s)[k]
  <2>1. PICK m \in Nat : m = n - 1
    BY <1>4
  <2>2. Agree(t, s, m) /\ m <= Len(t) /\ m <= Len(s)
    BY <1>1, <1>3, <1>4, <2>1 DEF Agree
  <2>3. \A k \in 0 .. m : Sums(t)[k] = Sums(s)[k]
    BY <2>2, SumsSame
  <2> QED BY <2>1, <2>3
<1>6. Sums(s)[n] = Sums(s)[n - 1] + s[n] /\ s[n] \in Nat
  BY <1>1, <1>4, SumsNat
<1> QED BY <1>1, <1>2, <1>3, <1>4, <1>5, <1>6 DEF Sum, Last

----------------------------------------------------------------------------
(* Maps                                                                    *)

\* The places of entry e.
Entry(m, e) == Sums(m)[e - 1] + 1 .. Sums(m)[e]

LEMMA EntryBounds ==
  ASSUME NEW m \in Seq(Nat), NEW e \in 1 .. Len(m)
  PROVE  /\ Len(m) \in Nat /\ e - 1 \in 0 .. Len(m) /\ e \in 0 .. Len(m)
         /\ Sums(m)[e - 1] \in Nat /\ Sums(m)[e] \in Nat /\ m[e] \in Nat
         /\ Sums(m)[e] = Sums(m)[e - 1] + m[e] /\ Sums(m)[e] <= Sum(m) /\ Sum(m) \in Nat
<1>1. PICK n \in Nat : n = Len(m)
  BY LenProperties
<1>2. e - 1 \in 0 .. n /\ e \in 0 .. n /\ n \in 0 .. n /\ e <= n
  BY <1>1
<1>3. Sums(m)[e] <= Sums(m)[n]
  BY <1>1, <1>2, SumsGrow
<1> QED BY <1>1, <1>2, <1>3, SumsNat DEF Sum

\* An entry ends before a later one starts.
LEMMA EntryOrder ==
  ASSUME NEW m \in Seq(Nat), NEW e \in 1 .. Len(m), NEW f \in 1 .. Len(m), e < f
  PROVE  Sums(m)[e] <= Sums(m)[f - 1]
<1>1. Len(m) \in Nat
  BY LenProperties
<1>2. e \in 0 .. Len(m) /\ f - 1 \in 0 .. Len(m) /\ e <= f - 1
  BY <1>1
<1>3. PICK g \in 0 .. Len(m) : g = f - 1
  BY <1>2
<1>4. Sums(m)[e] <= Sums(m)[g]
  BY <1>2, <1>3, SumsGrow
<1> QED BY <1>3, <1>4

LEMMA OneEntry ==
  ASSUME NEW m \in Seq(Nat), NEW e \in 1 .. Len(m), NEW f \in 1 .. Len(m),
         NEW i, i \in Entry(m, e), i \in Entry(m, f)
  PROVE  e = f
<1>1. PICK a \in Nat : a = Sums(m)[e - 1]
  BY EntryBounds
<1>2. PICK b \in Nat : b = Sums(m)[e]
  BY EntryBounds
<1>3. PICK c \in Nat : c = Sums(m)[f - 1]
  BY EntryBounds
<1>4. PICK d \in Nat : d = Sums(m)[f]
  BY EntryBounds
<1>5. i \in a + 1 .. b /\ i \in c + 1 .. d
  BY <1>1, <1>2, <1>3, <1>4 DEF Entry
<1>6. ~(e < f)
  <2> SUFFICES ASSUME e < f PROVE FALSE
    OBVIOUS
  <2>1. b <= c
    BY <1>2, <1>3, EntryOrder
  <2> QED BY <1>5, <2>1
<1>7. ~(f < e)
  <2> SUFFICES ASSUME f < e PROVE FALSE
    OBVIOUS
  <2>1. d <= a
    BY <1>1, <1>4, EntryOrder
  <2> QED BY <1>5, <2>1
<1>8. e \in Int /\ f \in Int
  BY LenProperties
<1> QED BY <1>6, <1>7, <1>8

LEMMA Covered ==
  ASSUME NEW m \in Seq(Nat), NEW i \in 1 .. Sum(m)
  PROVE  \E e \in 1 .. Len(m) : i \in Entry(m, e)
<1>1. PICK n \in Nat : n = Len(m)
  BY LenProperties
<1>2. n \in 0 .. n /\ 0 \in 0 .. n
  BY <1>1
<1>3. PICK t \in Nat : t = Sums(m)[n]
  BY <1>1, <1>2, SumsNat
<1>4. i \in Nat /\ 1 <= i /\ i <= t
  BY <1>1, <1>3 DEF Sum
<1> DEFINE S == {k \in 0 .. n : i <= Sums(m)[k]}
<1>5. S \subseteq Nat /\ S # {}
  BY <1>1, <1>2, <1>3, <1>4
<1> HIDE DEF S
<1>6. PICK e \in S : \A x \in S : e <= x
  BY <1>5, LeastNumber
<1>7. e \in 0 .. n /\ i <= Sums(m)[e]
  BY <1>6 DEF S
<1>8. e # 0
  <2>1. Sums(m)[0] = 0
    BY SumsNat
  <2> QED BY <1>4, <1>7, <2>1
<1>9. e \in 1 .. n /\ e - 1 \in 0 .. n /\ ~(e <= e - 1)
  BY <1>7, <1>8
<1>10. PICK a \in Nat : a = Sums(m)[e - 1]
  BY <1>1, <1>9, EntryBounds
<1>11. ~(i <= a)
  BY <1>6, <1>9, <1>10 DEF S
<1>12. PICK b \in Nat : b = Sums(m)[e]
  BY <1>1, <1>9, EntryBounds
<1>13. i \in a + 1 .. b
  BY <1>4, <1>7, <1>11, <1>12
<1> QED BY <1>1, <1>9, <1>10, <1>12, <1>13 DEF Entry

\* The same for the data alone.
LEMMA DataSums ==
  ASSUME NEW m \in Seq(Nat)
  PROVE  /\ DataOnly(m) \in Seq(Nat) /\ Len(DataOnly(m)) = Len(m)
         /\ \A k \in 0 .. Len(m) : Sums(DataOnly(m))[k] \in Nat
         /\ Sums(DataOnly(m))[0] = 0
         /\ \A k \in 1 .. Len(m) : Sums(DataOnly(m))[k] = Sums(DataOnly(m))[k - 1] + IF IN_HOLE(k - 1) THEN 0 ELSE m[k]
<1>1. PICK n \in Nat : n = Len(m)
  BY LenProperties
<1>2. \A i \in 1 .. n : m[i] \in Nat
  BY <1>1, ElementOfSeq
<1>3. PICK d : d = DataOnly(m)
  OBVIOUS
<1>4. d = [i \in 1 .. n |-> IF IN_HOLE(i - 1) THEN 0 ELSE m[i]]
  BY <1>1, <1>3 DEF DataOnly
<1>5. d \in [1 .. n -> Nat]
  BY <1>2, <1>4
<1>6. d \in Seq(Nat) /\ Len(d) = n
  BY <1>5
<1>7. \A k \in 1 .. n : d[k] = IF IN_HOLE(k - 1) THEN 0 ELSE m[k]
  BY <1>4
<1>8. /\ \A k \in 0 .. n : Sums(d)[k] \in Nat
      /\ Sums(d)[0] = 0 /\ \A k \in 1 .. n : Sums(d)[k] = Sums(d)[k - 1] + d[k]
  BY <1>6, SumsNat
<1>9. \A k \in 1 .. n : Sums(d)[k] = Sums(d)[k - 1] + IF IN_HOLE(k - 1) THEN 0 ELSE m[k]
  BY <1>7, <1>8
<1> QED BY <1>1, <1>3, <1>6, <1>8, <1>9

----------------------------------------------------------------------------
(* The files in a row                                                      *)

Sizes == [i \in 1 .. Len(files) |-> Len(files[i])]
Inputs == files \in HostPaths /\ skip_holes \in BOOLEAN
Total == Before(Len(files) + 1)

LEMMA FilesTyped ==
  ASSUME Inputs
  PROVE  /\ files \in Seq(Seq(BOOLEAN)) /\ Len(files) \in Nat \ {0} /\ DOMAIN files = 1 .. Len(files)
         /\ \A j \in 1 .. Len(files) : /\ files[j] \in Seq(BOOLEAN) /\ Len(files[j]) \in Nat
                                       /\ DOMAIN files[j] = 1 .. Len(files[j])
                                       /\ \A k \in 1 .. Len(files[j]) : files[j][k] \in BOOLEAN
<1>1. files \in Seq(Seq(BOOLEAN)) /\ files # <<>>
  BY ResourceAssumption DEF Inputs
<1>2. Len(files) \in Nat \ {0} /\ DOMAIN files = 1 .. Len(files)
  BY <1>1, LenProperties, EmptySeq
<1>3. ASSUME NEW j \in 1 .. Len(files)
      PROVE  /\ files[j] \in Seq(BOOLEAN) /\ Len(files[j]) \in Nat
             /\ DOMAIN files[j] = 1 .. Len(files[j])
             /\ \A k \in 1 .. Len(files[j]) : files[j][k] \in BOOLEAN
  <2>1. PICK f \in Seq(BOOLEAN) : f = files[j]
    BY <1>1, ElementOfSeq
  <2> QED BY <2>1, LenProperties, ElementOfSeq
<1> QED BY <1>1, <1>2, <1>3

LEMMA BeforeSums ==
  ASSUME Inputs
  PROVE  /\ Sizes \in Seq(Nat) /\ Len(Sizes) = Len(files)
         /\ \A j : Before(j) = Sums(Sizes)[j - 1]
         /\ \A j \in 1 .. Len(files) : Sizes[j] = Len(files[j])
<1>1. PICK n \in Nat : n = Len(files)
  BY FilesTyped
<1>2. \A j \in 1 .. n : Len(files[j]) \in Nat
  BY <1>1, FilesTyped
<1>3. Sizes = [i \in 1 .. n |-> Len(files[i])]
  BY <1>1 DEF Sizes
<1>4. PICK s : s = Sizes
  OBVIOUS
<1>5. s \in [1 .. n -> Nat]
  BY <1>2, <1>3, <1>4
<1>6. s \in Seq(Nat) /\ Len(s) = n
  BY <1>5
<1>7. \A j : Before(j) = Sums(Sizes)[j - 1]
  BY DEF Before, Sizes
<1> QED BY <1>1, <1>3, <1>4, <1>6, <1>7

LEMMA BeforeGrows ==
  ASSUME Inputs
  PROVE  /\ Before(1) = 0 /\ \A j \in 1 .. Len(files) + 1 : Before(j) \in Nat /\ Before(j) <= Total
         /\ \A j \in 1 .. Len(files) : Before(j + 1) = Before(j) + Len(files[j])
         /\ Total \in Nat
<1>0. PICK n \in Nat : n = Len(files)
  BY FilesTyped
<1>1. PICK s \in Seq(Nat) : s = Sizes
  BY BeforeSums
<1>2. Len(s) = n /\ \A j \in 1 .. n : s[j] = Len(files[j])
  BY <1>0, <1>1, BeforeSums
<1>3. \A j : Before(j) = Sums(s)[j - 1]
  BY <1>1, BeforeSums
<1>4. Before(1) = 0
  <2>1. Before(1) = Sums(s)[1 - 1]
    BY <1>3
  <2>2. 1 - 1 = 0
    OBVIOUS
  <2> QED BY <2>1, <2>2, SumsNat
<1>5. Total = Sums(s)[n]
  <2>1. (n + 1) - 1 = n
    OBVIOUS
  <2>2. Total = Sums(s)[(n + 1) - 1]
    BY <1>0, <1>3 DEF Total
  <2> QED BY <2>1, <2>2
<1>6. ASSUME NEW j \in 1 .. n + 1
      PROVE  Before(j) \in Nat /\ Before(j) <= Total
  <2>1. PICK k \in 0 .. n : k = j - 1
    BY <1>0
  <2>2. Before(j) = Sums(s)[k]
    BY <1>3, <2>1
  <2>3. n \in 0 .. n /\ k <= n
    OBVIOUS
  <2>4. Sums(s)[k] <= Sums(s)[n]
    BY <1>2, <2>3, SumsGrow
  <2> QED BY <1>2, <1>5, <2>2, <2>4, SumsNat
<1>7. ASSUME NEW j \in 1 .. n
      PROVE  Before(j + 1) = Before(j) + Len(files[j])
  <2>1. (j + 1) - 1 = j
    OBVIOUS
  <2>2. Before(j + 1) = Sums(s)[(j + 1) - 1] /\ Before(j) = Sums(s)[j - 1]
    BY <1>3
  <2>3. Sums(s)[j] = Sums(s)[j - 1] + s[j]
    BY <1>2, SumsNat
  <2> QED BY <1>2, <2>1, <2>2, <2>3
<1>8. Total \in Nat
  <2>1. n \in 0 .. n
    OBVIOUS
  <2> QED BY <1>2, <1>5, <2>1, SumsNat
<1> QED BY <1>0, <1>4, <1>6, <1>7, <1>8

\* Byte k of file j is where it should be.
LEMMA WholeAt ==
  ASSUME Inputs, NEW j \in 1 .. Len(files), NEW k \in 1 .. Len(files[j])
  PROVE  /\ Before(j) + k \in 1 .. Total
         /\ Whole[Before(j) + k] = files[j][k]
<1>1. PICK b \in Nat : b = Before(j)
  <2>1. j \in 1 .. Len(files) + 1
    BY FilesTyped
  <2> QED BY <2>1, BeforeGrows
<1>2. PICK l \in Nat : l = Len(files[j])
  BY FilesTyped
<1>3. b + l \in Nat /\ b + l <= Total /\ Total \in Nat
  <2>1. PICK x \in 1 .. Len(files) + 1 : x = j + 1
    BY FilesTyped
  <2>2. Before(x) = b + l
    BY <1>1, <1>2, <2>1, BeforeGrows
  <2> QED BY <2>2, BeforeGrows
<1>4. PICK i \in 1 .. Total : i = b + k
  BY <1>1, <1>2, <1>3
<1>5. ASSUME NEW y \in DOMAIN files, i - Before(y) \in DOMAIN files[y]
      PROVE  y = j
  <2>1. PICK s \in Seq(Nat) : s = Sizes
    BY BeforeSums
  <2>2. y \in 1 .. Len(files) /\ y \in 1 .. Len(s) /\ j \in 1 .. Len(s)
    BY <2>1, FilesTyped, BeforeSums
  <2>3. PICK c \in Nat : c = Before(y)
    <3>1. y \in 1 .. Len(files) + 1
      BY <2>2, FilesTyped
    <3> QED BY <3>1, BeforeGrows
  <2>4. PICK d \in Nat : d = Len(files[y])
    BY <2>2, FilesTyped
  <2>5. i - c \in 1 .. d
    BY <1>5, <2>2, <2>3, <2>4, FilesTyped
  <2>6. Sums(s)[y - 1] = c /\ Sums(s)[y] = c + d /\ Sums(s)[j - 1] = b /\ Sums(s)[j] = b + l
    BY <1>1, <1>2, <2>1, <2>2, <2>3, <2>4, BeforeSums, SumsNat
  <2>7. i \in Entry(s, y) /\ i \in Entry(s, j)
    BY <1>2, <1>4, <2>5, <2>6 DEF Entry
  <2> QED BY <2>2, <2>7, OneEntry
<1>6. i - b = k /\ j \in DOMAIN files /\ k \in DOMAIN files[j]
  BY <1>4, FilesTyped
<1>7. Whole[i] = \E y \in DOMAIN files : i - Before(y) \in DOMAIN files[y] /\ files[y][i - Before(y)]
  BY DEF Whole, Total
<1>8. files[j][k] \in BOOLEAN
  BY FilesTyped
<1>9. (\E y \in DOMAIN files : i - Before(y) \in DOMAIN files[y] /\ files[y][i - Before(y)]) <=> files[j][k]
  BY <1>1, <1>5, <1>6, Zenon
<1>10. Whole[i] = files[j][k]
  BY <1>7, <1>8, <1>9
<1> QED BY <1>1, <1>4, <1>10

LEMMA WholeTyped ==
  ASSUME Inputs
  PROVE  Len(Whole) = Total /\ DOMAIN Whole = 1 .. Total /\ \A i \in 1 .. Total : Whole[i] \in BOOLEAN
<1>1. PICK t \in Nat : t = Total
  BY BeforeGrows
<1>2. PICK v : v = Whole
  OBVIOUS
<1>3. v = [i \in 1 .. t |-> \E j \in DOMAIN files : i - Before(j) \in DOMAIN files[j] /\ files[j][i - Before(j)]]
  BY <1>1, <1>2 DEF Whole, Total
<1>4. DOMAIN v = 1 .. t /\ v \in [1 .. t -> BOOLEAN]
  BY <1>3
<1>5. Len(v) = t
  BY <1>4
<1> QED BY <1>1, <1>2, <1>4, <1>5

----------------------------------------------------------------------------
(* Blocks                                                                  *)

Aligned(x) == (x % Bk) = 0
\* Byte i is in a block that has one of the first n bytes.
InLast(i, n) == n >= 1 /\ (i - 1) \div Bk <= (n - 1) \div Bk

LEMMA Division ==
  ASSUME NEW x \in Nat, NEW d \in Nat \ {0}
  PROVE  /\ x \div d \in Nat /\ (x % d) \in 0 .. d - 1
         /\ (x \div d) * d + (x % d) = x
OBVIOUS

LEMMA Recompose ==
  ASSUME NEW q \in Nat, NEW d \in Nat \ {0}, NEW r \in 0 .. d - 1
  PROVE  /\ q * d + r \in Nat
         /\ (q * d + r) \div d = q /\ ((q * d + r) % d) = r
OBVIOUS

LEMMA DivGrows ==
  ASSUME NEW x \in Nat, NEW y \in Nat, NEW d \in Nat \ {0}, x <= y
  PROVE  x \div d <= y \div d
<1>1. PICK q \in Nat : q = x \div d
  BY Division
<1>2. PICK p \in Nat : p = y \div d
  BY Division
<1>3. PICK r \in 0 .. d - 1 : q * d + r = x
  BY <1>1, Division
<1>4. PICK t \in 0 .. d - 1 : p * d + t = y
  BY <1>2, Division
<1>5. SUFFICES ASSUME p < q PROVE FALSE
  BY <1>1, <1>2
<1>6. p * d + d <= q * d
  <2>1. \A a, b, c \in Nat : a < b => a * c + c <= b * c
    OBVIOUS
  <2> QED BY <1>5, <2>1
<1>7. PICK u \in Nat : u = q * d
  OBVIOUS
<1>8. PICK v \in Nat : v = p * d
  OBVIOUS
<1>9. u + r = x /\ v + t = y /\ v + d <= u
  BY <1>3, <1>4, <1>6, <1>7, <1>8
<1> QED BY <1>9

\* A multiple of the block size.
LEMMA Multiple ==
  /\ Bk \in Nat \ {0}
  /\ \A x \in Nat : Aligned(x) <=> \E q \in Nat : x = q * Bk
<1>1. Bk \in Nat \ {0}
  BY BlockAssumption
<1>2. ASSUME NEW x \in Nat, Aligned(x) PROVE \E q \in Nat : x = q * Bk
  <2>1. PICK q \in Nat : q = x \div Bk
    BY <1>1, Division
  <2>2. q * Bk + (x % Bk) = x
    BY <1>1, <2>1, Division
  <2>3. q * Bk = x
    BY <1>1, <1>2, <2>2 DEF Aligned
  <2> QED BY <2>3
<1>3. ASSUME NEW x \in Nat, NEW q \in Nat, x = q * Bk PROVE Aligned(x)
  <2>1. 0 \in 0 .. Bk - 1
    BY <1>1
  <2>2. ((q * Bk + 0) % Bk) = 0
    BY <1>1, <2>1, Recompose
  <2>3. q * Bk + 0 = x
    BY <1>1, <1>3
  <2> QED BY <2>2, <2>3 DEF Aligned
<1> QED BY <1>1, <1>2, <1>3

LEMMA AlignedSum ==
  ASSUME NEW x \in Nat, NEW y \in Nat, Aligned(x), Aligned(y)
  PROVE  x + y \in Nat /\ Aligned(x + y)
<1>1. PICK p \in Nat : x = p * Bk
  BY Multiple
<1>2. PICK q \in Nat : y = q * Bk
  BY Multiple
<1>3. x + y = (p + q) * Bk
  <2>1. \A a, b, c \in Nat : (a + b) * c = a * c + b * c
    OBVIOUS
  <2> QED BY <1>1, <1>2, <2>1, Multiple
<1>4. p + q \in Nat /\ x + y \in Nat
  OBVIOUS
<1> QED BY <1>3, <1>4, Multiple

LEMMA AlignedBlock == Aligned(0) /\ Aligned(Bk)
<1>1. Bk \in Nat \ {0} /\ 0 = 0 * Bk /\ Bk = 1 * Bk
  BY Multiple
<1> QED BY <1>1, Multiple

\* The start of the block of x.
LEMMA Floor ==
  ASSUME NEW x \in Nat
  PROVE  /\ (x % Bk) \in 0 .. Bk - 1 /\ x - (x % Bk) \in Nat /\ Aligned(x - (x % Bk))
         /\ \A m \in Nat : Aligned(m) /\ m <= x => m <= x - (x % Bk)
<1>0. Bk \in Nat \ {0}
  BY Multiple
<1>1. PICK q \in Nat : q = x \div Bk
  BY <1>0, Division
<1>2. PICK r \in 0 .. Bk - 1 : r = x % Bk
  BY <1>0, Division
<1>3. PICK f \in Nat : f = q * Bk
  BY <1>0
<1>4. f + r = x
  BY <1>0, <1>1, <1>2, <1>3, Division
<1>5. x - r = f
  BY <1>0, <1>4
<1>6. Aligned(f)
  BY <1>3, Multiple
<1>7. ASSUME NEW m \in Nat, Aligned(m), m <= x PROVE m <= f
  <2>1. PICK p \in Nat : m = p * Bk
    BY <1>7, Multiple
  <2>2. p <= q
    <3>1. m \div Bk <= x \div Bk
      BY <1>0, <1>7, DivGrows
    <3>2. m \div Bk = p
      <4>1. 0 \in 0 .. Bk - 1 /\ p * Bk + 0 = m
        BY <1>0, <2>1
      <4> QED BY <1>0, <4>1, Recompose
    <3> QED BY <1>1, <3>1, <3>2
  <2>3. \A a, b, c \in Nat : a <= b => a * c <= b * c
    OBVIOUS
  <2> QED BY <1>0, <1>3, <2>1, <2>2, <2>3
<1> QED BY <1>2, <1>5, <1>6, <1>7

LEMMA InLastGrows ==
  ASSUME NEW i \in Nat \ {0}, NEW n \in Nat
  PROVE  /\ i <= n => InLast(i, n)
         /\ \A m \in Nat : n <= m /\ InLast(i, n) => InLast(i, m)
         /\ \A o \in Nat : Aligned(o) /\ o < n /\ i <= o + Bk => InLast(i, n)
<1>0. Bk \in Nat \ {0}
  BY Multiple
<1>1. ASSUME i <= n PROVE InLast(i, n)
  <2>1. i - 1 \in Nat /\ n - 1 \in Nat /\ i - 1 <= n - 1 /\ n >= 1
    BY <1>1
  <2> QED BY <1>0, <2>1, DivGrows DEF InLast
<1>2. ASSUME NEW m \in Nat, n <= m, InLast(i, n) PROVE InLast(i, m)
  <2>1. n >= 1 /\ (i - 1) \div Bk <= (n - 1) \div Bk
    BY <1>2 DEF InLast
  <2>2. i - 1 \in Nat /\ n - 1 \in Nat /\ m - 1 \in Nat /\ n - 1 <= m - 1 /\ m >= 1
    BY <1>2, <2>1
  <2>3. PICK a \in Nat : a = (i - 1) \div Bk
    BY <1>0, <2>2, Division
  <2>4. PICK b \in Nat : b = (n - 1) \div Bk
    BY <1>0, <2>2, Division
  <2>5. PICK c \in Nat : c = (m - 1) \div Bk
    BY <1>0, <2>2, Division
  <2>6. b <= c
    BY <1>0, <2>2, <2>4, <2>5, DivGrows
  <2>7. a <= c
    BY <2>1, <2>3, <2>4, <2>6
  <2> QED BY <2>2, <2>3, <2>5, <2>7 DEF InLast
<1>3. ASSUME NEW o \in Nat, Aligned(o), o < n, i <= o + Bk PROVE InLast(i, n)
  <2>1. PICK q \in Nat : o = q * Bk
    BY <1>3, Multiple
  <2>2. n - 1 \in Nat /\ o <= n - 1 /\ i - 1 \in Nat /\ n >= 1 /\ i - 1 <= o + (Bk - 1) /\ o + (Bk - 1) \in Nat
    BY <1>0, <1>3
  <2>3. o \div Bk = q /\ (o + (Bk - 1)) \div Bk = q
    <3>1. 0 \in 0 .. Bk - 1 /\ Bk - 1 \in 0 .. Bk - 1 /\ q * Bk + 0 = o
      BY <1>0, <2>1
    <3>2. (q * Bk + 0) \div Bk = q
      BY <1>0, <3>1, Recompose
    <3>3. PICK r \in 0 .. Bk - 1 : r = Bk - 1
      BY <3>1
    <3>4. (q * Bk + r) \div Bk = q
      BY <1>0, Recompose
    <3> QED BY <2>1, <3>1, <3>2, <3>3, <3>4
  <2>4. q <= (n - 1) \div Bk
    <3>1. o \div Bk <= (n - 1) \div Bk
      BY <1>0, <2>2, DivGrows
    <3> QED BY <2>3, <3>1
  <2>5. (i - 1) \div Bk <= q
    <3>1. PICK y \in Nat : y = o + (Bk - 1)
      BY <2>2
    <3>2. (i - 1) \div Bk <= y \div Bk
      BY <1>0, <2>2, <3>1, DivGrows
    <3> QED BY <2>3, <3>1, <3>2
  <2>6. PICK a \in Nat : a = (i - 1) \div Bk
    BY <1>0, <2>2, Division
  <2>7. PICK b \in Nat : b = (n - 1) \div Bk
    BY <1>0, <2>2, Division
  <2> QED BY <2>2, <2>4, <2>5, <2>6, <2>7 DEF InLast
<1> QED BY <1>1, <1>2, <1>3

----------------------------------------------------------------------------
(* Pieces                                                                  *)

Bytes == Seq(Int)
At(o, i) == IF i <= Len(o) THEN o[i] ELSE 0

LEMMA TakeDrop ==
  ASSUME NEW b \in Bytes, NEW n \in 0 .. Len(b)
  PROVE  /\ Take(b, n) \in Bytes /\ Len(Take(b, n)) = n /\ \A i \in 1 .. n : Take(b, n)[i] = b[i]
         /\ Drop(b, n) \in Bytes /\ Len(Drop(b, n)) = Len(b) - n
         /\ \A i \in 1 .. Len(b) - n : Drop(b, n)[i] = b[n + i]
<1>1. PICK l \in Nat : l = Len(b)
  BY LenProperties DEF Bytes
<1>2. \A i \in 1 .. l : b[i] \in Int
  BY <1>1, ElementOfSeq DEF Bytes
<1>3. Take(b, n) \in Bytes /\ Len(Take(b, n)) = n /\ \A i \in 1 .. n : Take(b, n)[i] = b[i]
  <2>1. \A i \in 1 .. n : b[i] \in Int
    BY <1>1, <1>2
  <2>2. /\ SubSeq(b, 1, n) \in Bytes /\ Len(SubSeq(b, 1, n)) = IF 1 <= n THEN n - 1 + 1 ELSE 0
        /\ \A i \in 1 .. n - 1 + 1 : SubSeq(b, 1, n)[i] = b[1 + i - 1]
    BY <1>1, <2>1, SubSeqProperties DEF Bytes
  <2>3. PICK t : t = SubSeq(b, 1, n)
    OBVIOUS
  <2>4. t \in Bytes /\ Len(t) = n /\ \A i \in 1 .. n : t[i] = b[i]
    BY <1>1, <2>2, <2>3
  <2> QED BY <2>3, <2>4 DEF Take
<1>4. Drop(b, n) \in Bytes /\ Len(Drop(b, n)) = l - n /\ \A i \in 1 .. l - n : Drop(b, n)[i] = b[n + i]
  <2>1. PICK m \in Int : m = n + 1
    BY <1>1
  <2>2. \A i \in m .. l : b[i] \in Int
    BY <1>1, <1>2, <2>1
  <2>3. /\ SubSeq(b, m, l) \in Bytes /\ Len(SubSeq(b, m, l)) = IF m <= l THEN l - m + 1 ELSE 0
        /\ \A i \in 1 .. l - m + 1 : SubSeq(b, m, l)[i] = b[m + i - 1]
    BY <1>1, <2>2, SubSeqProperties DEF Bytes
  <2>4. PICK t : t = SubSeq(b, m, l)
    OBVIOUS
  <2>5. l - m + 1 = l - n /\ \A i \in 1 .. l - n : m + i - 1 = n + i
    BY <1>1, <2>1
  <2>6. t \in Bytes /\ \A i \in 1 .. l - n : t[i] = b[n + i]
    BY <2>3, <2>4, <2>5
  <2>7. Len(t) = l - n
    BY <1>1, <2>1, <2>3, <2>4
  <2> QED BY <1>1, <2>1, <2>4, <2>6, <2>7 DEF Drop
<1> QED BY <1>1, <1>3, <1>4

LEMMA ZerosTyped ==
  ASSUME NEW n \in Nat
  PROVE  Zeros(n) \in Bytes /\ Len(Zeros(n)) = n /\ \A i \in 1 .. n : Zeros(n)[i] = 0
<1>1. PICK z : z = Zeros(n)
  OBVIOUS
<1>2. z = [i \in 1 .. n |-> 0]
  BY <1>1 DEF Zeros
<1>3. z \in [1 .. n -> Int] /\ \A i \in 1 .. n : z[i] = 0
  BY <1>2
<1>4. z \in Seq(Int) /\ Len(z) = n
  BY <1>3
<1> QED BY <1>1, <1>3, <1>4 DEF Bytes

LEMMA OverwriteAt ==
  ASSUME NEW o \in Bytes, NEW buf \in Bytes, NEW off \in Nat, NEW v, v = Overwrite(o, buf, off)
  PROVE  /\ v \in Bytes /\ Len(v) >= Len(o) /\ Len(v) >= off + Len(buf)
         /\ Len(v) = Len(o) \/ Len(v) = off + Len(buf)
         /\ \A i \in Nat \ {0} : At(v, i) = IF i \in off + 1 .. off + Len(buf) THEN buf[i - off] ELSE At(o, i)
<1>1. PICK a \in Nat : a = Len(o)
  BY LenProperties DEF Bytes
<1>2. PICK l \in Nat : l = Len(buf)
  BY LenProperties DEF Bytes
<1>3. PICK n \in Nat : n = IF a >= off + l THEN a ELSE off + l
  OBVIOUS
<1>4. v = [i \in 1 .. n |-> IF off < i /\ i <= off + l THEN buf[i - off] ELSE IF i <= a THEN o[i] ELSE 0]
  BY <1>1, <1>2, <1>3 DEF Overwrite
<1>5. \A i \in 1 .. a : o[i] \in Int
  BY <1>1, ElementOfSeq DEF Bytes
<1>6. \A i \in 1 .. l : buf[i] \in Int
  BY <1>2, ElementOfSeq DEF Bytes
<1>7. ASSUME NEW i \in 1 .. n
      PROVE  (IF off < i /\ i <= off + l THEN buf[i - off] ELSE IF i <= a THEN o[i] ELSE 0) \in Int
  <2>1. CASE off < i /\ i <= off + l
    <3>1. i - off \in 1 .. l
      BY <2>1
    <3> QED BY <1>6, <2>1, <3>1
  <2>2. CASE ~(off < i /\ i <= off + l) /\ i <= a
    BY <1>5, <2>2
  <2>3. CASE ~(off < i /\ i <= off + l) /\ ~(i <= a)
    BY <2>3
  <2> QED BY <2>1, <2>2, <2>3
<1>8. v \in [1 .. n -> Int]
  BY <1>4, <1>7
<1>9. v \in Seq(Int) /\ Len(v) = n
  BY <1>8
<1>10. ASSUME NEW i \in Nat \ {0}
       PROVE  At(v, i) = IF i \in off + 1 .. off + l THEN buf[i - off] ELSE At(o, i)
  <2>1. i \in off + 1 .. off + l <=> off < i /\ i <= off + l
    OBVIOUS
  <2>2. CASE i <= n
    <3>1. i \in 1 .. n
      BY <2>2
    <3>2. v[i] = IF off < i /\ i <= off + l THEN buf[i - off] ELSE IF i <= a THEN o[i] ELSE 0
      BY <1>4, <3>1
    <3>3. At(v, i) = v[i]
      BY <1>9, <2>2 DEF At
    <3> QED BY <1>1, <2>1, <3>2, <3>3 DEF At
  <2>3. CASE ~(i <= n)
    <3>1. At(v, i) = 0
      BY <1>9, <2>3 DEF At
    <3>2. ~(i <= a) /\ ~(i <= off + l)
      BY <1>3, <2>3
    <3>3. At(o, i) = 0
      BY <1>1, <3>2 DEF At
    <3> QED BY <2>1, <3>1, <3>2, <3>3
  <2> QED BY <2>2, <2>3
<1>11. n >= a /\ n >= off + l /\ (n = a \/ n = off + l)
  BY <1>3
<1> QED BY <1>1, <1>2, <1>9, <1>10, <1>11 DEF Bytes

LEMMA Joined ==
  ASSUME NEW s \in Bytes, NEW t \in Bytes
  PROVE  /\ s \o t \in Bytes /\ Len(s \o t) = Len(s) + Len(t)
         /\ \A i \in 1 .. Len(s) + Len(t) : (s \o t)[i] = IF i <= Len(s) THEN s[i] ELSE t[i - Len(s)]
BY ConcatProperties DEF Bytes

----------------------------------------------------------------------------
(* The pad-to-block writer                                                 *)

WriterState == [buffer : Bytes, index : Nat, offset : Nat, out : Bytes, ok : BOOLEAN]

\* What is on the destination when the buffer is written.
Buffered(v, i) == v.index > 0 /\ i \in v.offset + 1 .. v.offset + v.index
Shown(v, i) == IF Buffered(v, i) THEN v.buffer[i - v.offset] ELSE At(v.out, i)

\* Nothing was written behind the block of byte n.
Behind(o, n) == \A i \in 1 .. Len(o) : InLast(i, n) \/ o[i] = Old

\* The writer was given bytes up to n.
RawWriter(v, n) ==
  /\ v \in WriterState /\ v.ok /\ n \in Nat
  /\ v.index <= Bk /\ v.index <= Len(v.buffer) /\ Aligned(v.offset)
  /\ v.index > 0 => v.offset + v.index = n
  /\ v.index = 0 => Aligned(n) /\ n <= Len(v.out)
  /\ Behind(v.out, n)

\* From v to u buf was written at off; behind n there may be new zeros.
Puts(u, v, buf, off, n) ==
  \A i \in Nat \ {0} :
    IF i \in off + 1 .. off + Len(buf) THEN Shown(u, i) = buf[i - off]
    ELSE Shown(u, i) = Shown(v, i) \/ (i > n /\ Shown(u, i) = 0)

LEMMA CachePwriteRight ==
  ASSUME NEW v \in WriterState, v.ok, NEW buf \in Bytes, NEW off \in Nat, Aligned(off), Aligned(Len(buf)),
         NEW u, u = CachePwrite(v, buf, off)
  PROVE  /\ u \in WriterState /\ u.ok /\ u.buffer = v.buffer /\ u.index = v.index /\ u.offset = v.offset
         /\ u.out = Overwrite(v.out, buf, off)
<1>1. PICK o \in Bytes : o = Overwrite(v.out, buf, off)
  BY OverwriteAt DEF WriterState
<1>2. u = [v EXCEPT !.out = o, !.ok = v.ok /\ (off % Bk) = 0 /\ (Len(buf) % Bk) = 0]
  BY <1>1 DEF CachePwrite
<1>3. (v.ok /\ (off % Bk) = 0 /\ (Len(buf) % Bk) = 0) = TRUE
  BY DEF Aligned
<1>4. u = [v EXCEPT !.out = o, !.ok = TRUE]
  BY <1>2, <1>3
<1> QED BY <1>1, <1>4 DEF WriterState

\* Behind, after a write.
Reaches(k, n) == \A i \in Nat \ {0} : i <= k => InLast(i, n)

LEMMA BehindWritten ==
  ASSUME NEW o \in Bytes, NEW m \in Nat, Behind(o, m), NEW n \in Nat, m <= n,
         NEW buf \in Bytes, NEW off \in Nat, NEW v, v = Overwrite(o, buf, off),
         Reaches(off + Len(buf), n)
  PROVE  Behind(v, n)
<1>1. PICK l \in Nat : l = Len(buf)
  BY LenProperties DEF Bytes
<1>2. PICK a \in Nat : a = Len(o)
  BY LenProperties DEF Bytes
<1>a. v \in Bytes /\ (Len(v) = Len(o) \/ Len(v) = off + Len(buf))
  BY OverwriteAt
<1>3. PICK c \in Nat : c = Len(v)
  BY <1>a, LenProperties DEF Bytes
<1>4. c = a \/ c = off + l
  BY <1>a, <1>1, <1>2, <1>3
<1> SUFFICES ASSUME NEW i \in 1 .. c, ~InLast(i, n) PROVE v[i] = Old
  BY <1>3 DEF Behind
<1>5. i \in Nat \ {0}
  OBVIOUS
<1>6. ~(i <= off + l)
  BY <1>1, <1>5 DEF Reaches
<1>7. i <= a
  BY <1>4, <1>6
<1>8. o[i] = Old
  <2>1. ~InLast(i, m)
    BY <1>5, InLastGrows
  <2>2. i \in 1 .. a
    BY <1>7
  <2> QED BY <1>2, <2>1, <2>2 DEF Behind
<1>9. At(v, i) = At(o, i)
  BY <1>1, <1>5, <1>6, OverwriteAt
<1> QED BY <1>2, <1>3, <1>7, <1>8, <1>9 DEF At

\* ptbw_flush: the block is completed with zeros.
LEMMA FlushRight ==
  ASSUME NEW v, NEW n, RawWriter(v, n), NEW u, u = ptbw_flush(v)
  PROVE  \E m \in Nat : /\ RawWriter(u, m) /\ u.index = 0 /\ n <= m /\ Behind(u.out, n)
                        /\ v.index > 0 => m = v.offset + Bk
                        /\ v.index = 0 => m = n
                        /\ Puts(u, v, <<>>, 0, n)
<1>0. Bk \in Nat \ {0} /\ v \in WriterState /\ v.ok /\ n \in Nat
  BY Multiple DEF RawWriter
<1>1. CASE v.index = 0
  <2>1. u = v
    BY <1>1 DEF ptbw_flush
  <2>2. Puts(u, v, <<>>, 0, n)
    BY <2>1 DEF Puts
  <2> QED BY <1>0, <1>1, <2>1, <2>2 DEF RawWriter
<1>2. CASE v.index # 0
  <2>1. PICK x \in Nat : x = v.index
    BY <1>0 DEF WriterState
  <2>2. PICK f \in Nat : f = v.offset
    BY <1>0 DEF WriterState
  <2>3. PICK b \in Bytes : b = v.buffer
    BY <1>0 DEF WriterState
  <2>4. PICK o \in Bytes : o = v.out
    BY <1>0 DEF WriterState
  <2>5. x > 0 /\ x <= Bk /\ x <= Len(b) /\ Aligned(f) /\ f + x = n /\ Behind(o, n) /\ Len(b) \in Nat
    BY <1>2, <2>1, <2>2, <2>3, <2>4, LenProperties DEF RawWriter, Bytes
  <2>6. PICK y \in Nat : y = Bk - x
    BY <1>0, <2>5
  <2>7. PICK t \in Bytes : t = Take(b, x)
    BY <2>5, TakeDrop
  <2>8. Len(t) = x /\ \A i \in 1 .. x : t[i] = b[i]
    BY <2>5, <2>7, TakeDrop
  <2>9. PICK z \in Bytes : z = Zeros(y)
    BY ZerosTyped
  <2>10. Len(z) = y /\ \A i \in 1 .. y : z[i] = 0
    BY <2>9, ZerosTyped
  <2>11. PICK k \in Bytes : k = t \o z
    BY Joined
  <2>12. Len(k) = Bk /\ \A i \in 1 .. Bk : k[i] = IF i <= x THEN b[i] ELSE 0
    <3>1. Len(k) = x + y /\ \A i \in 1 .. x + y : k[i] = IF i <= x THEN t[i] ELSE z[i - x]
      BY <2>8, <2>10, <2>11, Joined
    <3>2. x + y = Bk
      BY <1>0, <2>6
    <3>3. ASSUME NEW i \in 1 .. Bk PROVE k[i] = IF i <= x THEN b[i] ELSE 0
      <4>1. k[i] = IF i <= x THEN t[i] ELSE z[i - x]
        BY <3>1, <3>2
      <4>2. i <= x => t[i] = b[i]
        BY <1>0, <2>8
      <4>3. ~(i <= x) => i - x \in 1 .. y
        BY <1>0, <3>2
      <4> QED BY <2>10, <4>1, <4>2, <4>3
    <3> QED BY <3>1, <3>2, <3>3
  <2>13. PICK c : c = CachePwrite(v, k, f)
    OBVIOUS
  <2>14. /\ c \in WriterState /\ c.ok /\ c.buffer = b /\ c.index = x /\ c.offset = f
         /\ c.out = Overwrite(o, k, f)
    BY <1>0, <2>1, <2>2, <2>3, <2>4, <2>5, <2>12, <2>13, AlignedBlock, CachePwriteRight
  <2>15. u = [c EXCEPT !.index = 0]
    <3>1. u = [CachePwrite(v, Take(v.buffer, v.index) \o Zeros(Bk - v.index), v.offset) EXCEPT !.index = 0]
      BY <1>2 DEF ptbw_flush
    <3> QED BY <2>1, <2>2, <2>3, <2>6, <2>7, <2>9, <2>11, <2>13, <3>1
  <2>16. PICK p : p = Overwrite(o, k, f)
    OBVIOUS
  <2>17. /\ p \in Bytes /\ Len(p) >= f + Bk /\ Len(p) \in Nat
         /\ \A i \in Nat \ {0} : At(p, i) = IF i \in f + 1 .. f + Bk THEN k[i - f] ELSE At(o, i)
    BY <2>12, <2>16, OverwriteAt, LenProperties DEF Bytes
  <2>18. u \in WriterState /\ u.ok /\ u.buffer = b /\ u.index = 0 /\ u.offset = f /\ u.out = p
    BY <2>14, <2>15, <2>16 DEF WriterState
  <2>19. PICK m \in Nat : m = f + Bk
    BY <1>0
  <2>20. Aligned(m) /\ n <= m /\ m <= Len(p)
    BY <1>0, <2>5, <2>17, <2>19, AlignedSum, AlignedBlock
  <2>21. Reaches(f + Len(k), n)
    BY <1>0, <2>5, <2>12, InLastGrows DEF Reaches
  <2>22. Behind(p, n)
    <3>1. n <= n
      BY <1>0
    <3> QED BY <1>0, <2>5, <2>16, <2>21, <3>1, BehindWritten
  <2>23. Behind(p, m)
    BY <1>0, <2>17, <2>20, <2>22, InLastGrows DEF Behind
  <2>24. RawWriter(u, m)
    BY <1>0, <2>5, <2>18, <2>20, <2>23 DEF RawWriter
  <2>25. Puts(u, v, <<>>, 0, n)
    <3> SUFFICES ASSUME NEW i \in Nat \ {0}
                 PROVE  Shown(u, i) = Shown(v, i) \/ (i > n /\ Shown(u, i) = 0)
      BY DEF Puts
    <3>1. Shown(u, i) = At(p, i)
      BY <2>18 DEF Shown, Buffered
    <3>2. CASE i \in f + 1 .. f + x
      <4>1. Shown(v, i) = b[i - f]
        BY <2>1, <2>2, <2>3, <2>5, <3>2 DEF Shown, Buffered
      <4>2. i \in f + 1 .. f + Bk /\ i - f \in 1 .. Bk /\ i - f <= x
        BY <1>0, <2>5, <3>2
      <4>3. At(p, i) = k[i - f] /\ k[i - f] = b[i - f]
        BY <2>12, <2>17, <4>2
      <4> QED BY <3>1, <4>1, <4>3
    <3>3. CASE i \notin f + 1 .. f + x /\ i \in f + 1 .. f + Bk
      <4>1. i - f \in 1 .. Bk /\ ~(i - f <= x) /\ i > n
        BY <1>0, <2>5, <3>3
      <4>2. At(p, i) = 0
        BY <2>12, <2>17, <3>3, <4>1
      <4> QED BY <3>1, <4>1, <4>2
    <3>4. CASE i \notin f + 1 .. f + x /\ i \notin f + 1 .. f + Bk
      <4>1. Shown(v, i) = At(o, i)
        BY <2>1, <2>2, <2>4, <3>4 DEF Shown, Buffered
      <4> QED BY <2>17, <3>1, <3>4, <4>1
    <3> QED BY <3>2, <3>3, <3>4
  <2> QED BY <1>2, <2>1, <2>2, <2>18, <2>19, <2>20, <2>22, <2>24, <2>25
<1> QED BY <1>1, <1>2

\* A chunk in two parts.
Split(buf, a, b) ==
  /\ buf \in Bytes /\ a \in Bytes /\ b \in Bytes /\ Len(buf) = Len(a) + Len(b)
  /\ \A i \in 1 .. Len(a) : a[i] = buf[i]
  /\ \A i \in 1 .. Len(b) : b[i] = buf[Len(a) + i]

LEMMA BytesLen == \A b \in Bytes : Len(b) \in Nat /\ (b # <<>> <=> Len(b) > 0)
<1> SUFFICES ASSUME NEW b \in Bytes PROVE Len(b) \in Nat /\ (b # <<>> <=> Len(b) > 0)
  OBVIOUS
<1>1. Len(b) \in Nat
  BY LenProperties DEF Bytes
<1>2. b # <<>> => Len(b) > 0
  BY EmptySeq DEF Bytes
<1>3. Len(<<>>) = 0
  BY EmptySeq
<1> QED BY <1>1, <1>2, <1>3

LEMMA NoBytes == <<>> \in Bytes /\ Len(<<>>) = 0
BY EmptySeq DEF Bytes

LEMMA Splits ==
  ASSUME NEW buf \in Bytes
  PROVE  /\ Split(buf, <<>>, buf)
         /\ \A k \in 0 .. Len(buf) : Split(buf, Take(buf, k), Drop(buf, k))
<1>1. PICK l \in Nat : l = Len(buf)
  BY BytesLen
<1>2. Split(buf, <<>>, buf)
  BY <1>1, NoBytes DEF Split
<1>3. ASSUME NEW k \in 0 .. l PROVE Split(buf, Take(buf, k), Drop(buf, k))
  <2>1. PICK a : a = Take(buf, k)
    OBVIOUS
  <2>2. PICK b : b = Drop(buf, k)
    OBVIOUS
  <2>3. /\ a \in Bytes /\ Len(a) = k /\ \A i \in 1 .. k : a[i] = buf[i]
        /\ b \in Bytes /\ Len(b) = l - k /\ \A i \in 1 .. l - k : b[i] = buf[k + i]
    BY <1>1, <2>1, <2>2, TakeDrop
  <2>4. l = k + (l - k)
    BY <1>1
  <2>5. Split(buf, a, b)
    BY <1>1, <2>3, <2>4 DEF Split
  <2> QED BY <2>1, <2>2, <2>5
<1> QED BY <1>1, <1>2, <1>3

LEMMA PutsThen ==
  ASSUME NEW u, NEW v, NEW x, NEW buf, NEW a, NEW b, Split(buf, a, b), NEW off \in Nat, NEW n \in Nat, NEW m \in Nat,
         Puts(u, v, a, off, n), Puts(x, u, b, off + Len(a), m), n <= m, a = <<>> \/ off + Len(a) <= m
  PROVE  Puts(x, v, buf, off, n)
<1>1. PICK k \in Nat : k = Len(a)
  BY BytesLen DEF Split
<1>2. PICK l \in Nat : l = Len(b)
  BY BytesLen DEF Split
<1>3. /\ Len(buf) = k + l /\ \A i \in 1 .. k : a[i] = buf[i]
      /\ \A i \in 1 .. l : b[i] = buf[k + i]
  BY <1>1, <1>2 DEF Split
<1>4. k = 0 \/ off + k <= m
  BY <1>1, NoBytes
<1> SUFFICES ASSUME NEW i \in Nat \ {0}
             PROVE  IF i \in off + 1 .. off + (k + l) THEN Shown(x, i) = buf[i - off]
                    ELSE Shown(x, i) = Shown(v, i) \/ (i > n /\ Shown(x, i) = 0)
  BY <1>3 DEF Puts
<1>5. IF i \in off + 1 .. off + k THEN Shown(u, i) = a[i - off]
      ELSE Shown(u, i) = Shown(v, i) \/ (i > n /\ Shown(u, i) = 0)
  BY <1>1 DEF Puts
<1>6. IF i \in off + k + 1 .. off + k + l THEN Shown(x, i) = b[i - (off + k)]
      ELSE Shown(x, i) = Shown(u, i) \/ (i > m /\ Shown(x, i) = 0)
  BY <1>1, <1>2 DEF Puts
<1>7. CASE i \in off + 1 .. off + k
  <2>1. i \notin off + k + 1 .. off + k + l /\ ~(i > m) /\ i - off \in 1 .. k /\ i \in off + 1 .. off + (k + l)
    BY <1>4, <1>7
  <2>2. Shown(x, i) = a[i - off]
    BY <1>5, <1>6, <1>7, <2>1
  <2> QED BY <1>3, <2>1, <2>2
<1>8. CASE i \in off + k + 1 .. off + k + l
  <2>1. i - (off + k) \in 1 .. l /\ k + (i - (off + k)) = i - off /\ i \in off + 1 .. off + (k + l)
    BY <1>8
  <2>2. Shown(x, i) = buf[i - off]
    BY <1>3, <1>6, <1>8, <2>1
  <2> QED BY <2>1, <2>2
<1>9. CASE i \notin off + 1 .. off + k /\ i \notin off + k + 1 .. off + k + l
  <2>1. i \notin off + 1 .. off + (k + l)
    BY <1>9
  <2>2. Shown(u, i) = Shown(v, i) \/ (i > n /\ Shown(u, i) = 0)
    BY <1>5, <1>9
  <2>3. Shown(x, i) = Shown(u, i) \/ (i > n /\ Shown(x, i) = 0)
    BY <1>6, <1>9
  <2> QED BY <2>1, <2>2, <2>3
<1> QED BY <1>7, <1>8, <1>9

\* What is left over gets as much of a chunk as fits, and zeros in front of it.
Filled(v, buf, off) ==
  LET skip   == off - (v.offset + v.index)
      filled == Take(v.buffer, v.index) \o Zeros(skip)
      k      == Least(Bk - Len(filled), Len(buf))
      block  == filled \o Take(buf, k)
  IN  [v EXCEPT !.buffer = block, !.index = Len(block), !.ok = TRUE]

LEMMA FillRight ==
  ASSUME NEW v, NEW n, RawWriter(v, n), v.index > 0, NEW buf \in Bytes, NEW off \in Nat,
         n <= off, off <= v.offset + Bk, NEW u, u = Filled(v, buf, off)
  PROVE  \E k \in 0 .. Len(buf) :
           /\ k = Least(Bk - Len(Take(v.buffer, v.index) \o Zeros(off - n)), Len(buf))
           /\ RawWriter(u, off + k) /\ u.index > 0 /\ u.index = Len(u.buffer) /\ u.offset = v.offset
           /\ u.offset + u.index = off + k /\ (u.index < Bk => k = Len(buf))
           /\ Puts(u, v, Take(buf, k), off, n)
<1>0. Bk \in Nat \ {0} /\ v \in WriterState /\ v.ok /\ n \in Nat
  BY Multiple DEF RawWriter
<1>1. PICK x \in Nat : x = v.index
  BY <1>0 DEF WriterState
<1>2. PICK f \in Nat : f = v.offset
  BY <1>0 DEF WriterState
<1>3. PICK b \in Bytes : b = v.buffer
  BY <1>0 DEF WriterState
<1>4. PICK o \in Bytes : o = v.out
  BY <1>0 DEF WriterState
<1>5. x > 0 /\ x <= Bk /\ x <= Len(b) /\ Aligned(f) /\ f + x = n /\ Behind(o, n) /\ Len(b) \in Nat
  BY <1>1, <1>2, <1>3, <1>4, BytesLen DEF RawWriter
<1>6. PICK y \in Nat : y = off - n
  BY <1>0
<1>7. PICK t \in Bytes : t = Take(b, x)
  BY <1>5, TakeDrop
<1>8. Len(t) = x /\ \A i \in 1 .. x : t[i] = b[i]
  BY <1>5, <1>7, TakeDrop
<1>9. PICK z \in Bytes : z = Zeros(y)
  BY ZerosTyped
<1>10. Len(z) = y /\ \A i \in 1 .. y : z[i] = 0
  BY <1>9, ZerosTyped
<1>11. PICK g \in Bytes : g = t \o z
  BY Joined
<1>12. Len(g) = x + y /\ \A i \in 1 .. x + y : g[i] = IF i <= x THEN t[i] ELSE z[i - x]
  BY <1>8, <1>10, <1>11, Joined
<1>13. x + y <= Bk /\ f + x + y = off
  <2>1. off <= f + Bk /\ f + x = n
    BY <1>2, <1>5
  <2> QED BY <1>0, <1>6, <2>1
<1>14. PICK l \in Nat : l = Len(buf)
  BY BytesLen
<1>15. PICK k \in 0 .. l : k = Least(Bk - (x + y), l) /\ (x + y + k < Bk => k = l) /\ x + y + k <= Bk
  <2>1. CASE Bk - (x + y) <= l
    BY <1>0, <1>13, <2>1 DEF Least
  <2>2. CASE ~(Bk - (x + y) <= l)
    BY <1>0, <1>13, <2>2 DEF Least
  <2> QED BY <2>1, <2>2
<1>16. PICK c \in Bytes : c = Take(buf, k)
  BY <1>14, TakeDrop
<1>17. Len(c) = k /\ \A i \in 1 .. k : c[i] = buf[i]
  BY <1>14, <1>16, TakeDrop
<1>18. PICK d \in Bytes : d = g \o c
  BY Joined
<1>19. PICK q \in Nat : q = x + y + k
  OBVIOUS
<1>20. Len(d) = q /\ \A i \in 1 .. q : d[i] = IF i <= x + y THEN g[i] ELSE c[i - (x + y)]
  <2>1. Len(d) = Len(g) + Len(c) /\ \A i \in 1 .. Len(g) + Len(c) : d[i] = IF i <= Len(g) THEN g[i] ELSE c[i - Len(g)]
    BY <1>18, Joined
  <2>2. PICK e \in Nat : e = x + y
    OBVIOUS
  <2>3. Len(g) = e /\ Len(c) = k /\ q = e + k
    BY <1>12, <1>17, <1>19, <2>2
  <2> QED BY <2>1, <2>2, <2>3
<1>21. u = [v EXCEPT !.buffer = d, !.index = q, !.ok = TRUE]
  <2>1. y = off - (v.offset + v.index)
    BY <1>1, <1>2, <1>5, <1>6
  <2>2. g = Take(v.buffer, v.index) \o Zeros(off - (v.offset + v.index))
    BY <1>1, <1>3, <1>7, <1>9, <1>11, <2>1
  <2>3. k = Least(Bk - Len(g), Len(buf))
    BY <1>12, <1>14, <1>15
  <2>4. d = g \o Take(buf, Least(Bk - Len(g), Len(buf)))
    BY <1>16, <1>18, <2>3
  <2>5. u = [v EXCEPT !.buffer = d, !.index = Len(d), !.ok = TRUE]
    BY <2>2, <2>4, Zenon DEF Filled
  <2> QED BY <1>20, <2>5
<1>22. u \in WriterState /\ u.ok /\ u.buffer = d /\ u.index = q /\ u.offset = f /\ u.out = o
  BY <1>0, <1>2, <1>4, <1>21 DEF WriterState
<1>23. q > 0 /\ q <= Bk /\ f + q = off + k /\ off + k \in Nat /\ n <= off + k
  <2>1. x > 0 /\ f + x + y = off /\ x + y + k <= Bk /\ k \in Nat
    BY <1>5, <1>13, <1>15
  <2>2. q > 0 /\ q <= Bk /\ f + q = off + k
    BY <1>19, <2>1
  <2>3. n <= off + k
    BY <1>0, <2>1
  <2> QED BY <2>1, <2>2, <2>3
<1>24. RawWriter(u, off + k)
  <2>1. PICK p \in Nat : p = off + k
    BY <1>23
  <2>2. Behind(o, p)
    <3>1. Len(o) \in Nat
      BY BytesLen
    <3>2. n <= p
      BY <1>23, <2>1
    <3> QED BY <1>0, <1>5, <3>1, <3>2, InLastGrows DEF Behind
  <2>3. q # 0
    BY <1>23
  <2> QED BY <1>0, <1>5, <1>20, <1>22, <1>23, <2>1, <2>2, <2>3 DEF RawWriter
<1>25. Puts(u, v, c, off, n)
  <2> SUFFICES ASSUME NEW i \in Nat \ {0}
               PROVE  IF i \in off + 1 .. off + k THEN Shown(u, i) = c[i - off]
                      ELSE Shown(u, i) = Shown(v, i) \/ (i > n /\ Shown(u, i) = 0)
    BY <1>17 DEF Puts
  <2>1. Shown(u, i) = IF i \in f + 1 .. f + q THEN d[i - f] ELSE At(o, i)
    BY <1>22, <1>23 DEF Shown, Buffered
  <2>2. Shown(v, i) = IF i \in f + 1 .. f + x THEN b[i - f] ELSE At(o, i)
    BY <1>1, <1>2, <1>3, <1>4, <1>5 DEF Shown, Buffered
  <2>3. CASE i \in f + 1 .. f + x
    <3>1. i - f \in 1 .. q /\ i - f <= x + y /\ i - f \in 1 .. x + y /\ i - f <= x /\ i - f \in 1 .. x
          /\ i \in f + 1 .. f + q /\ i \notin off + 1 .. off + k
      BY <1>0, <1>5, <1>13, <1>19, <2>3
    <3>2. d[i - f] = b[i - f]
      BY <1>8, <1>12, <1>20, <3>1
    <3> QED BY <2>1, <2>2, <2>3, <3>1, <3>2
  <2>4. CASE i \in n + 1 .. off
    <3>1. i - f \in 1 .. q /\ i - f <= x + y /\ i - f \in 1 .. x + y /\ ~(i - f <= x) /\ (i - f) - x \in 1 .. y
          /\ i \in f + 1 .. f + q /\ i \notin off + 1 .. off + k /\ i > n
      BY <1>0, <1>5, <1>13, <1>19, <2>4
    <3>2. d[i - f] = 0
      BY <1>10, <1>12, <1>20, <3>1
    <3> QED BY <2>1, <3>1, <3>2
  <2>5. CASE i \in off + 1 .. off + k
    <3>1. i - f \in 1 .. q /\ ~(i - f <= x + y) /\ (i - f) - (x + y) = i - off /\ i \in f + 1 .. f + q
      BY <1>0, <1>5, <1>13, <1>19, <2>5
    <3>2. d[i - f] = c[i - off]
      BY <1>20, <3>1
    <3> QED BY <2>1, <2>5, <3>1, <3>2
  <2>6. CASE i \notin f + 1 .. f + x /\ i \notin n + 1 .. off /\ i \notin off + 1 .. off + k
    <3>1. i \notin f + 1 .. f + q
      BY <1>0, <1>5, <1>13, <1>19, <2>6
    <3> QED BY <2>1, <2>2, <2>6, <3>1
  <2> QED BY <2>3, <2>4, <2>5, <2>6
<1>26. k \in 0 .. Len(buf) /\ k = Least(Bk - Len(Take(v.buffer, v.index) \o Zeros(off - n)), Len(buf))
  BY <1>1, <1>3, <1>6, <1>7, <1>9, <1>11, <1>12, <1>14, <1>15
<1>27. u.index < Bk => k = Len(buf)
  BY <1>14, <1>15, <1>19, <1>22
<1> QED BY <1>16, <1>20, <1>22, <1>23, <1>24, <1>25, <1>26, <1>27, <1>2

\* The first part of ptbw_pwrite: a is what it took of the chunk.
Began(r, v, n, buf, off, a, m) ==
  /\ m \in Nat /\ Split(buf, a, r.buf) /\ r.off = off + Len(a) /\ n <= m /\ m <= r.off
  /\ RawWriter(r.w, m) /\ Puts(r.w, v, a, off, n)
  /\ a # <<>> => m = r.off
  /\ r.return => r.buf = <<>> /\ m = r.off
  /\ ~r.return => r.w.index = 0
  /\ v.index > 0 /\ off = n => m = r.off /\ (~r.return => Aligned(r.off))

LEMMA Untouched ==
  ASSUME NEW v, NEW off \in Nat, NEW n
  PROVE  Puts(v, v, <<>>, off, n)
<1>1. Len(<<>>) = 0
  BY NoBytes
<1>2. \A i \in Nat \ {0} : Shown(v, i) = Shown(v, i) \/ (i > n /\ Shown(v, i) = 0)
  OBVIOUS
<1> SUFFICES ASSUME NEW i \in Nat \ {0}, i \in off + 1 .. off + Len(<<>>) PROVE FALSE
  BY <1>2 DEF Puts
<1> QED BY <1>1

LEMMA NothingAt ==
  ASSUME NEW u, NEW v, NEW off \in Nat, NEW n, Puts(u, v, <<>>, 0, n)
  PROVE  Puts(u, v, <<>>, off, n)
<1>1. Len(<<>>) = 0
  BY NoBytes
<1>2. ASSUME NEW i \in Nat \ {0} PROVE i \notin 0 + 1 .. 0 + 0 /\ i \notin off + 1 .. off + 0
  OBVIOUS
<1> QED BY <1>1, <1>2 DEF Puts

\* The three ways through Leftovers, with a name for each of its local values.
LeftoverParts(v, buf, off, r, at, skip, filled, n, block, w1, w2) ==
  /\ at = v.offset + v.index
  /\ skip = IF off > at /\ off < v.offset + Bk THEN off - at ELSE 0
  /\ filled = Take(v.buffer, v.index) \o Zeros(skip)
  /\ n = Least(Bk - Len(filled), Len(buf))
  /\ block = filled \o Take(buf, n)
  /\ w1 = [v EXCEPT !.buffer = block, !.index = Len(block), !.ok = v.ok /\ off >= at]
  /\ w2 = [v EXCEPT !.ok = v.ok /\ off >= at]
  /\ r = IF v.index = 0 THEN [w |-> v, buf |-> buf, off |-> off, return |-> FALSE]
         ELSE IF at + skip # off
         THEN [w |-> ptbw_flush(w2), buf |-> buf, off |-> off, return |-> FALSE]
         ELSE [w |-> IF Len(block) = Bk THEN ptbw_flush(w1) ELSE w1,
               buf |-> Drop(buf, n), off |-> off + n, return |-> Len(block) < Bk]

LEMMA LeftoversIs ==
  ASSUME NEW v, NEW buf, NEW off, NEW r, r = Leftovers(v, buf, off)
  PROVE  \E at, skip, filled, n, block, w1, w2 :
           LeftoverParts(v, buf, off, r, at, skip, filled, n, block, w1, w2)
<1> DEFINE at     == v.offset + v.index
           skip   == Gap(v, off)
           filled == Padded(v, off)
           n      == Least(Bk - Len(filled), Len(buf))
           block  == filled \o Take(buf, n)
           w1     == [v EXCEPT !.buffer = block, !.index = Len(block), !.ok = v.ok /\ off >= at]
           w2     == [v EXCEPT !.ok = v.ok /\ off >= at]
<1>1. Leftovers(v, buf, off) =
        IF v.index = 0 THEN [w |-> v, buf |-> buf, off |-> off, return |-> FALSE]
        ELSE IF at + skip # off
        THEN [w |-> ptbw_flush(w2), buf |-> buf, off |-> off, return |-> FALSE]
        ELSE [w |-> IF Len(block) = Bk THEN ptbw_flush(w1) ELSE w1,
              buf |-> Drop(buf, n), off |-> off + n, return |-> Len(block) < Bk]
  BY Zenon DEF Leftovers
<1>2. /\ at = v.offset + v.index
      /\ skip = IF off > at /\ off < v.offset + Bk THEN off - at ELSE 0
      /\ filled = Take(v.buffer, v.index) \o Zeros(skip)
      /\ n = Least(Bk - Len(filled), Len(buf))
  BY Zenon DEF Gap, Padded
<1>3. /\ block = filled \o Take(buf, n)
      /\ w1 = [v EXCEPT !.buffer = block, !.index = Len(block), !.ok = v.ok /\ off >= at]
      /\ w2 = [v EXCEPT !.ok = v.ok /\ off >= at]
  BY Zenon
<1> HIDE DEF at, skip, filled, n, block, w1, w2
<1>4. LeftoverParts(v, buf, off, r, at, skip, filled, n, block, w1, w2)
  BY <1>1, <1>2, <1>3, Zenon DEF LeftoverParts
<1> QED BY <1>4, Zenon

LEMMA LeftoversRight ==
  ASSUME NEW v, NEW n, RawWriter(v, n), NEW buf \in Bytes, NEW off \in Nat, n <= off,
         NEW r, r = Leftovers(v, buf, off)
  PROVE  \E a \in Bytes : \E m \in Nat : Began(r, v, n, buf, off, a, m)
<1>0. Bk \in Nat \ {0} /\ v \in WriterState /\ v.ok /\ n \in Nat /\ v.ok = TRUE
  BY Multiple DEF RawWriter, WriterState
<1>1. PICK x \in Nat : x = v.index
  BY <1>0 DEF WriterState
<1>2. PICK f \in Nat : f = v.offset
  BY <1>0 DEF WriterState
<1>a. PICK at, skp, flld, nn, blk, w1, w2 :
        LeftoverParts(v, buf, off, r, at, skp, flld, nn, blk, w1, w2)
  BY LeftoversIs, Zenon
<1>3. CASE x = 0
  <2>1. r = [w |-> v, buf |-> buf, off |-> off, return |-> FALSE]
    <3>1. v.index = 0
      BY <1>1, <1>3
    <3> QED BY <1>a, <3>1, Zenon DEF LeftoverParts
  <2>2. r.w = v /\ r.buf = buf /\ r.off = off /\ ~r.return
    BY <2>1
  <2>3. Puts(v, v, <<>>, off, n)
    BY Untouched
  <2>4. Split(buf, <<>>, buf) /\ off = off + Len(<<>>) /\ n <= n /\ ~(v.index > 0) /\ v.index = 0
    BY <1>0, <1>1, <1>3, Splits, NoBytes
  <2>5. Began(r, v, n, buf, off, <<>>, n)
    BY <1>0, <2>2, <2>3, <2>4, Zenon DEF Began
  <2> QED BY <1>0, <2>5, NoBytes
<1>4. CASE x # 0
  <2>0. x > 0 /\ f + x = n /\ x <= Bk /\ Aligned(f)
    BY <1>1, <1>2, <1>4 DEF RawWriter
  <2>1. (off >= v.offset + v.index) = TRUE
    BY <1>0, <1>1, <1>2, <2>0
  <2>2. [v EXCEPT !.ok = v.ok /\ off >= v.offset + v.index] = v
    <3>1. [v EXCEPT !.ok = v.ok /\ off >= v.offset + v.index] = [v EXCEPT !.ok = TRUE]
      BY <1>0, <2>1
    <3>2. [v EXCEPT !.ok = TRUE] = v
      BY <1>0 DEF WriterState
    <3> QED BY <3>1, <3>2
  <2>3. PICK skip \in Nat : skip = IF off > n /\ off < f + Bk THEN off - n ELSE 0
    BY <1>0
  <2>4. CASE n + skip # off
    <3>1. off >= f + Bk
      BY <1>0, <2>3, <2>4
    <3>2. r = [w |-> ptbw_flush(v), buf |-> buf, off |-> off, return |-> FALSE]
      <4>1. n = v.offset + v.index /\ v.index # 0
        BY <1>1, <1>2, <1>4, <2>0
      <4>2. skip = IF off > v.offset + v.index /\ off < v.offset + Bk THEN off - (v.offset + v.index) ELSE 0
        BY <1>2, <2>3, <4>1
      <4>3. v.offset + v.index + skip # off
        BY <2>4, <4>1
      <4> QED BY <1>a, <2>2, <4>1, <4>2, <4>3, Zenon DEF LeftoverParts
    <3>3. PICK u : u = ptbw_flush(v)
      OBVIOUS
    <3>4. PICK m \in Nat : RawWriter(u, m) /\ u.index = 0 /\ n <= m /\ m = f + Bk /\ Puts(u, v, <<>>, 0, n)
      BY <1>1, <1>2, <2>0, <3>3, FlushRight
    <3>5. r.w = u /\ r.buf = buf /\ r.off = off /\ ~r.return
      BY <3>2, <3>3
    <3>6. Split(buf, <<>>, buf) /\ Len(<<>>) = 0 /\ off = off + 0
      BY Splits, NoBytes
    <3>7. Puts(u, v, <<>>, off, n)
      BY <3>4, NothingAt
    <3>8. off # n
      BY <1>0, <2>3, <2>4
    <3>9. Began(r, v, n, buf, off, <<>>, m)
      BY <3>1, <3>4, <3>5, <3>6, <3>7, <3>8 DEF Began
    <3> QED BY <3>4, <3>9, NoBytes
  <2>5. CASE n + skip = off
    <3>1. skip = off - n /\ off <= f + Bk
      BY <1>0, <2>0, <2>3, <2>5
    <3>2. PICK u : u = Filled(v, buf, off)
      OBVIOUS
    <3>3. PICK k \in 0 .. Len(buf) :
            /\ k = Least(Bk - Len(Take(v.buffer, v.index) \o Zeros(off - n)), Len(buf))
            /\ RawWriter(u, off + k) /\ u.index > 0 /\ u.index = Len(u.buffer) /\ u.offset = v.offset
            /\ u.offset + u.index = off + k /\ (u.index < Bk => k = Len(buf))
            /\ Puts(u, v, Take(buf, k), off, n)
      BY <1>1, <1>2, <2>0, <3>1, <3>2, FillRight
    <3>4. PICK g : g = Take(v.buffer, v.index) \o Zeros(off - n)
      OBVIOUS
    <3>5. PICK d : d = g \o Take(buf, k)
      OBVIOUS
    <3>6. u = [v EXCEPT !.buffer = d, !.index = Len(d), !.ok = TRUE]
      <4>1. off - (v.offset + v.index) = off - n
        BY <1>1, <1>2, <2>0
      <4> QED BY <3>2, <3>3, <3>4, <3>5, <4>1 DEF Filled
    <3>7. u = [v EXCEPT !.buffer = d, !.index = Len(d), !.ok = v.ok /\ off >= v.offset + v.index]
      BY <1>0, <2>1, <3>6
    <3>8. u.buffer = d
      BY <1>0, <3>6 DEF WriterState
    <3>9. r = [w |-> IF Len(d) = Bk THEN ptbw_flush(u) ELSE u, buf |-> Drop(buf, k), off |-> off + k,
               return |-> Len(d) < Bk]
      <4>1. n = v.offset + v.index /\ v.index # 0
        BY <1>1, <1>2, <1>4, <2>0
      <4>2. skip = IF off > v.offset + v.index /\ off < v.offset + Bk THEN off - (v.offset + v.index) ELSE 0
        BY <1>2, <2>3, <4>1
      <4>3. v.offset + v.index + skip = off
        BY <2>5, <4>1
      <4>4. g = Take(v.buffer, v.index) \o Zeros(skip) /\ k = Least(Bk - Len(g), Len(buf))
        BY <3>1, <3>3, <3>4
      <4>5. at = v.offset + v.index /\ skp = skip
        BY <1>a, <4>2, Zenon DEF LeftoverParts
      <4>6. flld = g /\ nn = k
        BY <1>a, <4>4, <4>5, Zenon DEF LeftoverParts
      <4>7. blk = d
        BY <1>a, <3>5, <4>6, Zenon DEF LeftoverParts
      <4>8. w1 = u
        BY <1>a, <3>7, <4>5, <4>7, Zenon DEF LeftoverParts
      <4> HIDE DEF Filled
      <4> QED BY <1>a, <4>1, <4>3, <4>5, <4>6, <4>7, <4>8, Zenon DEF LeftoverParts
    <3>10. Len(d) = u.index /\ u.index \in Nat /\ u.index <= Bk
      BY <3>3, <3>8 DEF RawWriter, WriterState
    <3>11. PICK l \in Nat : l = Len(buf)
      BY BytesLen
    <3>12. PICK a \in Bytes : a = Take(buf, k)
      BY TakeDrop
    <3>13. Len(a) = k /\ Split(buf, a, Drop(buf, k)) /\ off + k \in Nat
      BY <3>11, <3>12, Splits, TakeDrop
    <3>14. PICK m \in Nat : m = off + k
      BY <3>13
    <3>15. n <= m
      BY <1>0, <3>11, <3>14
    <3>16. CASE u.index < Bk
      <4>1. r.w = u /\ r.buf = Drop(buf, k) /\ r.off = m /\ r.return
        <5>1. (Len(d) < Bk) = TRUE /\ Len(d) # Bk
          <6>1. PICK h \in Nat : h = Len(d) /\ h < Bk
            BY <3>10, <3>16
          <6> QED BY <1>0, <6>1
        <5>2. r = [w |-> u, buf |-> Drop(buf, k), off |-> m, return |-> TRUE]
          BY <3>9, <3>14, <5>1
        <5> QED BY <5>2
      <4>2. Drop(buf, k) = <<>>
        <5>1. k = l
          BY <3>3, <3>11, <3>16
        <5>2. Drop(buf, k) \in Bytes /\ Len(Drop(buf, k)) = 0
          BY <3>11, <5>1, TakeDrop
        <5> QED BY <5>2, BytesLen
      <4>3. Began(r, v, n, buf, off, a, m)
        BY <3>3, <3>12, <3>13, <3>14, <3>15, <4>1, <4>2 DEF Began
      <4> QED BY <4>3
    <3>17. CASE u.index = Bk
      <4>1. PICK q : q = ptbw_flush(u)
        OBVIOUS
      <4>2. r.w = q /\ r.buf = Drop(buf, k) /\ r.off = m /\ ~r.return
        <5>1. (Len(d) < Bk) = FALSE /\ Len(d) = Bk
          BY <1>0, <3>10, <3>17
        <5>2. r = [w |-> q, buf |-> Drop(buf, k), off |-> m, return |-> FALSE]
          BY <3>9, <3>14, <4>1, <5>1
        <5> QED BY <5>2
      <4>3. RawWriter(u, m) /\ f + Bk = m
        BY <1>2, <3>3, <3>14, <3>17
      <4>4. RawWriter(q, m) /\ q.index = 0 /\ Puts(q, u, <<>>, 0, m)
        <5>1. PICK p \in Nat : /\ RawWriter(q, p) /\ q.index = 0 /\ (u.index > 0 => p = u.offset + Bk)
                               /\ Puts(q, u, <<>>, 0, m)
          BY <4>1, <4>3, FlushRight
        <5>2. p = m
          BY <1>2, <3>3, <4>3, <5>1
        <5> QED BY <5>1, <5>2
      <4>5. Puts(q, u, <<>>, off + k, m)
        BY <3>13, <4>4, NothingAt
      <4>6. Split(a, a, <<>>)
        BY <3>13, NoBytes DEF Split
      <4>7. Puts(q, v, a, off, n)
        <5>1. Puts(u, v, a, off, n) /\ Puts(q, u, <<>>, off + Len(a), m) /\ off + Len(a) <= m
          BY <3>3, <3>12, <3>13, <3>14, <4>5
        <5> QED BY <1>0, <3>15, <4>6, <5>1, PutsThen
      <4>8. Aligned(m)
        BY <1>0, <2>0, <4>3, AlignedSum, AlignedBlock
      <4>9. Began(r, v, n, buf, off, a, m)
        BY <3>12, <3>13, <3>14, <3>15, <4>2, <4>4, <4>7, <4>8 DEF Began
      <4> QED BY <4>9
    <3> QED BY <1>0, <3>10, <3>16, <3>17
  <2> QED BY <2>4, <2>5
<1> QED BY <1>3, <1>4

LEMMA BehindGrows ==
  ASSUME NEW o \in Bytes, NEW n \in Nat, NEW m \in Nat, n <= m, Behind(o, n)
  PROVE  Behind(o, m)
<1>1. Len(o) \in Nat
  BY BytesLen
<1>2. ASSUME NEW i \in 1 .. Len(o) PROVE InLast(i, m) \/ o[i] = Old
  <2>1. i \in Nat \ {0}
    BY <1>1
  <2>2. InLast(i, n) => InLast(i, m)
    BY <2>1, InLastGrows
  <2> QED BY <2>2 DEF Behind
<1> QED BY <1>2 DEF Behind

\* The last part: whole blocks go out, the rest is kept.
LEMMA BlocksRight ==
  ASSUME NEW v, NEW m, RawWriter(v, m), v.index = 0, NEW buf \in Bytes, NEW o \in Nat, Aligned(o),
         m <= o, buf = <<>> => m = o, NEW u, u = Blocks(v, buf, o)
  PROVE  RawWriter(u, o + Len(buf)) /\ Puts(u, v, buf, o, m)
<1>0. Bk \in Nat \ {0} /\ v \in WriterState /\ v.ok /\ m \in Nat /\ Behind(v.out, m)
  BY Multiple DEF RawWriter
<1>1. PICK l \in Nat : l = Len(buf)
  BY BytesLen
<1>2. PICK n \in Nat : n = IF l > Bk THEN l - (l % Bk) ELSE 0
  BY Floor
<1>3. n <= l /\ Aligned(n) /\ (n # l => l - n \in 1 .. Bk)
  <2>1. CASE l > Bk
    <3>1. PICK d \in 0 .. Bk - 1 : d = l % Bk
      BY Floor
    <3>2. n = l - d
      BY <1>2, <2>1, <3>1
    <3>3. Aligned(n)
      BY <1>2, <2>1, Floor
    <3> QED BY <1>0, <3>2, <3>3
  <2>2. CASE ~(l > Bk)
    BY <1>0, <1>2, <2>2, AlignedBlock
  <2> QED BY <2>1, <2>2
<1>4. PICK a \in Bytes : a = Take(buf, n)
  BY <1>1, <1>3, TakeDrop
<1>5. PICK b \in Bytes : b = Drop(buf, n)
  BY <1>1, <1>3, TakeDrop
<1>6. Len(a) = n /\ Len(b) = l - n /\ Split(buf, a, b)
  BY <1>1, <1>3, <1>4, <1>5, TakeDrop, Splits
<1>7. PICK w1 : w1 = IF n > 0 THEN CachePwrite(v, a, o) ELSE v
  OBVIOUS
<1>8. u = IF n = l THEN w1 ELSE [w1 EXCEPT !.buffer = b, !.index = l - n, !.offset = o + n]
  BY <1>1, <1>2, <1>4, <1>5, <1>7 DEF Blocks
<1>9. /\ w1 \in WriterState /\ w1.ok /\ w1.index = 0 /\ Puts(w1, v, a, o, m) /\ Aligned(w1.offset)
      /\ n > 0 => Behind(w1.out, o + n) /\ o + n <= Len(w1.out)
      /\ n = 0 => w1 = v
  <2>1. CASE n = 0
    <3>1. w1 = v
      BY <1>7, <2>1
    <3>2. a = <<>>
      BY <1>6, <2>1, BytesLen
    <3>3. Puts(v, v, <<>>, o, m) /\ Aligned(v.offset)
      BY Untouched DEF RawWriter
    <3> QED BY <1>0, <2>1, <3>1, <3>2, <3>3
  <2>2. CASE n > 0
    <3>1. w1 = CachePwrite(v, a, o)
      BY <1>7, <2>2
    <3>2. /\ w1 \in WriterState /\ w1.ok /\ w1.buffer = v.buffer /\ w1.index = v.index /\ w1.offset = v.offset
          /\ w1.out = Overwrite(v.out, a, o)
      BY <1>0, <1>3, <1>6, <3>1, CachePwriteRight
    <3>3. PICK q \in Bytes : q = v.out
      BY <1>0 DEF WriterState
    <3>4. PICK p : p = Overwrite(q, a, o)
      OBVIOUS
    <3>5. /\ Len(p) >= o + n
          /\ \A i \in Nat \ {0} : At(p, i) = IF i \in o + 1 .. o + n THEN a[i - o] ELSE At(q, i)
      BY <1>6, <3>4, OverwriteAt
    <3>6. PICK e \in Nat : e = o + n
      OBVIOUS
    <3>7. Reaches(o + Len(a), e)
      BY <1>6, <3>6, InLastGrows DEF Reaches
    <3>8. Behind(p, e)
      <4>1. m <= e
        BY <1>0, <3>6
      <4> QED BY <1>0, <3>3, <3>4, <3>7, <4>1, BehindWritten
    <3>9. Puts(w1, v, a, o, m)
      <4> SUFFICES ASSUME NEW i \in Nat \ {0}
                   PROVE  IF i \in o + 1 .. o + n THEN Shown(w1, i) = a[i - o] ELSE Shown(w1, i) = Shown(v, i)
        BY <1>6 DEF Puts
      <4>1. Shown(w1, i) = At(p, i) /\ Shown(v, i) = At(q, i)
        BY <3>2, <3>3, <3>4 DEF Shown, Buffered
      <4> QED BY <3>5, <4>1
    <3>10. o + n <= Len(p)
      <4>1. p \in Bytes /\ Len(p) \in Nat
        BY <3>4, OverwriteAt, BytesLen
      <4> QED BY <3>5, <4>1
    <3>11. Aligned(v.offset)
      BY DEF RawWriter
    <3> QED BY <2>2, <3>2, <3>3, <3>4, <3>6, <3>8, <3>9, <3>10, <3>11
  <2> QED BY <2>1, <2>2
<1>10. CASE n = l
  <2>1. u = w1 /\ b = <<>>
    BY <1>6, <1>8, <1>10, BytesLen
  <2>2. CASE n = 0
    <3>1. buf = <<>> /\ u = v /\ m = o
      BY <1>1, <1>9, <1>10, <2>1, <2>2, BytesLen
    <3>2. o + Len(buf) = o
      BY <1>1, <1>10, <2>2
    <3> QED BY <3>1, <3>2, Untouched
  <2>3. CASE n > 0
    <3>1. PICK e \in Nat : e = o + n
      OBVIOUS
    <3>2. Aligned(e)
      BY <1>3, <3>1, AlignedSum
    <3>3. RawWriter(u, e)
      BY <1>0, <1>9, <2>1, <2>3, <3>1, <3>2, BytesLen DEF RawWriter, WriterState
    <3>4. Puts(w1, w1, b, o + Len(a), o + Len(a))
      BY <1>6, <2>1, Untouched
    <3>5. Puts(u, v, buf, o, m)
      <4>1. o + Len(a) \in Nat /\ m <= o + Len(a) /\ o + Len(a) <= o + Len(a)
        BY <1>0, <1>6
      <4> QED BY <1>0, <1>6, <1>9, <2>1, <3>4, <4>1, PutsThen
    <3> QED BY <1>1, <1>10, <3>1, <3>3, <3>5
  <2> QED BY <2>2, <2>3
<1>11. CASE n # l
  <2>1. PICK x \in 1 .. Bk : x = l - n
    BY <1>3, <1>11
  <2>2. PICK e \in Nat : e = o + n
    OBVIOUS
  <2>3. u = [w1 EXCEPT !.buffer = b, !.index = x, !.offset = e]
    BY <1>8, <1>11, <2>1, <2>2
  <2>4. u \in WriterState /\ u.ok /\ u.buffer = b /\ u.index = x /\ u.offset = e /\ u.out = w1.out
    <3>1. x \in Nat
      BY <1>0, <2>1
    <3> QED BY <1>9, <2>3, <3>1 DEF WriterState
  <2>5. PICK t \in Nat : t = o + l
    OBVIOUS
  <2>6. e + x = t /\ m <= t /\ e <= t /\ x # 0 /\ x <= Bk /\ x <= Len(b)
    BY <1>0, <1>6, <2>1, <2>2, <2>5
  <2>7. Behind(w1.out, t)
    <3>1. PICK q \in Bytes : q = w1.out
      BY <1>9 DEF WriterState
    <3>2. CASE n = 0
      <4>1. Behind(w1.out, m)
        BY <1>0, <1>9, <3>2
      <4> QED BY <1>0, <2>6, <3>1, <4>1, BehindGrows
    <3>3. CASE n > 0
      <4>1. Behind(w1.out, e)
        BY <1>9, <2>2, <3>3
      <4> QED BY <2>6, <3>1, <4>1, BehindGrows
    <3> QED BY <3>2, <3>3
  <2>8. Aligned(e)
    BY <1>3, <2>2, AlignedSum
  <2>9. RawWriter(u, t)
    BY <2>4, <2>6, <2>7, <2>8 DEF RawWriter
  <2>10. Puts(u, w1, b, e, e)
    <3> SUFFICES ASSUME NEW i \in Nat \ {0}
                 PROVE  IF i \in e + 1 .. e + x THEN Shown(u, i) = b[i - e] ELSE Shown(u, i) = Shown(w1, i)
      BY <1>6, <2>1 DEF Puts
    <3>1. Shown(w1, i) = At(w1.out, i)
      BY <1>9 DEF Shown, Buffered
    <3>2. Shown(u, i) = IF i \in e + 1 .. e + x THEN b[i - e] ELSE At(w1.out, i)
      BY <2>1, <2>4 DEF Shown, Buffered
    <3> QED BY <3>1, <3>2
  <2>11. Puts(u, v, buf, o, m)
    <3>1. e = o + Len(a) /\ m <= e /\ e <= e
      BY <1>0, <1>6, <2>2
    <3> QED BY <1>0, <1>6, <1>9, <2>10, <3>1, PutsThen
  <2> QED BY <1>1, <2>5, <2>9, <2>11
<1> QED BY <1>10, <1>11

\* ptbw_pwrite: what is shown is the chunk at its place, and as before
\* elsewhere; zeros may appear behind what was written before.
LEMMA PtbwRight ==
  ASSUME NEW v, NEW n, RawWriter(v, n), NEW buf \in Bytes, NEW off \in Nat, n <= off, buf # <<>>,
         NEW u, u = ptbw_pwrite(v, buf, off)
  PROVE  RawWriter(u, off + Len(buf)) /\ Puts(u, v, buf, off, n)
<1>0. n \in Nat /\ Bk \in Nat \ {0}
  BY Multiple DEF RawWriter
<1>1. PICK r : r = Leftovers(v, buf, off)
  OBVIOUS
<1>2. PICK a \in Bytes : \E m \in Nat : Began(r, v, n, buf, off, a, m)
  BY <1>1, LeftoversRight
<1>3. PICK m \in Nat : Began(r, v, n, buf, off, a, m)
  BY <1>2
<1>4. PICK b \in Bytes : b = r.buf
  BY <1>3 DEF Began, Split
<1>5. PICK o \in Nat : o = r.off
  BY <1>3, BytesLen DEF Began
<1>6. /\ Split(buf, a, b) /\ o = off + Len(a) /\ n <= m /\ m <= o /\ RawWriter(r.w, m)
      /\ Puts(r.w, v, a, off, n) /\ (a # <<>> => m = o)
  BY <1>3, <1>4, <1>5 DEF Began
<1>7. Len(buf) = Len(a) + Len(b) /\ Len(a) \in Nat /\ Len(b) \in Nat /\ o + Len(b) = off + Len(buf)
  BY <1>6, BytesLen DEF Split
<1>8. PICK pad : pad = (o % Bk)
  OBVIOUS
<1>9. CASE r.return
  <2>1. u = r.w
    BY <1>1, <1>9 DEF ptbw_pwrite
  <2>2. b = <<>> /\ m = o
    BY <1>3, <1>4, <1>5, <1>9 DEF Began
  <2>3. Puts(u, u, b, off + Len(a), o)
    BY <1>6, <2>2, Untouched
  <2>4. Puts(u, v, buf, off, n)
    BY <1>0, <1>6, <2>1, <2>2, <2>3, PutsThen
  <2>5. o = off + Len(buf)
    BY <1>6, <1>7, <2>2, NoBytes
  <2> QED BY <1>6, <2>1, <2>2, <2>4, <2>5
<1>10. CASE ~r.return /\ pad = 0
  <2>1. u = Blocks(r.w, b, o)
    BY <1>1, <1>4, <1>5, <1>8, <1>10 DEF ptbw_pwrite
  <2>2. r.w.index = 0
    BY <1>3, <1>10 DEF Began
  <2>3. Aligned(o)
    BY <1>8, <1>10 DEF Aligned
  <2>4. b = <<>> => m = o
    BY <1>6, <1>7, BytesLen
  <2>5. RawWriter(u, o + Len(b)) /\ Puts(u, r.w, b, o, m)
    BY <1>6, <2>1, <2>2, <2>3, <2>4, BlocksRight
  <2>6. Puts(u, v, buf, off, n)
    BY <1>0, <1>6, <2>5, PutsThen
  <2> QED BY <1>7, <2>5, <2>6
<1>11. CASE ~r.return /\ pad # 0
  <2>1. pad \in 1 .. Bk - 1 /\ o - pad \in Nat /\ Aligned(o - pad) /\ (Aligned(m) => m <= o - pad)
    <3>1. /\ (o % Bk) \in 0 .. Bk - 1 /\ o - (o % Bk) \in Nat /\ Aligned(o - (o % Bk))
          /\ \A k \in Nat : Aligned(k) /\ k <= o => k <= o - (o % Bk)
      BY Floor
    <3>2. pad \in 0 .. Bk - 1 /\ o - pad \in Nat /\ Aligned(o - pad) /\ (Aligned(m) /\ m <= o => m <= o - pad)
      BY <1>8, <3>1
    <3>3. pad \in 1 .. Bk - 1
      BY <1>0, <1>11, <3>2
    <3> QED BY <1>6, <3>2, <3>3
  <2>2. PICK f \in Nat : f = o - pad
    BY <2>1
  <2>3. PICK v3 : v3 = [r.w EXCEPT !.buffer = Zeros(pad), !.index = pad, !.offset = f]
    OBVIOUS
  <2>4. PICK r2 : r2 = Leftovers(v3, b, o)
    OBVIOUS
  <2>5. u = IF r2.return THEN r2.w ELSE Blocks(r2.w, r2.buf, r2.off)
    BY <1>1, <1>4, <1>5, <1>8, <1>11, <2>2, <2>3, <2>4 DEF ptbw_pwrite
  <2>6. r.w \in WriterState /\ r.w.ok /\ r.w.index = 0 /\ Aligned(m) /\ Behind(r.w.out, m)
    BY <1>3, <1>6, <1>11 DEF Began, RawWriter
  <2>7. PICK z \in Bytes : z = Zeros(pad)
    BY <2>1, ZerosTyped
  <2>8. Len(z) = pad /\ \A i \in 1 .. pad : z[i] = 0
    BY <2>1, <2>7, ZerosTyped
  <2>9. /\ v3 \in WriterState /\ v3.ok /\ v3.buffer = z /\ v3.index = pad /\ v3.offset = f
        /\ v3.out = r.w.out
    <3>1. pad \in Nat
      BY <1>0, <2>1
    <3> QED BY <2>3, <2>6, <2>7, <3>1 DEF WriterState
  <2>10. m <= f /\ f + pad = o /\ pad > 0 /\ pad <= Bk
    BY <1>0, <2>1, <2>2, <2>6
  <2>11. Behind(v3.out, o)
    <3>1. Len(v3.out) \in Nat
      BY <2>9, BytesLen DEF WriterState
    <3> QED BY <1>6, <2>6, <2>9, <3>1, InLastGrows DEF Behind
  <2>12. RawWriter(v3, o)
    BY <1>0, <2>1, <2>2, <2>8, <2>9, <2>10, <2>11 DEF RawWriter
  <2>13. Puts(v3, r.w, <<>>, 0, m)
    <3> SUFFICES ASSUME NEW i \in Nat \ {0}
                 PROVE  Shown(v3, i) = Shown(r.w, i) \/ (i > m /\ Shown(v3, i) = 0)
      BY NoBytes DEF Puts
    <3>1. Shown(r.w, i) = At(r.w.out, i)
      BY <2>6 DEF Shown, Buffered
    <3>2. Shown(v3, i) = IF i \in f + 1 .. f + pad THEN z[i - f] ELSE At(r.w.out, i)
      BY <2>9, <2>10 DEF Shown, Buffered
    <3>3. ASSUME i \in f + 1 .. f + pad PROVE i > m /\ z[i - f] = 0
      <4>1. i > m /\ i - f \in 1 .. pad
        BY <2>1, <2>10, <3>3
      <4> QED BY <2>8, <4>1
    <3> QED BY <3>1, <3>2, <3>3
  <2>14. PICK a2 \in Bytes : \E m2 \in Nat : Began(r2, v3, o, b, o, a2, m2)
    <3>1. o <= o
      OBVIOUS
    <3> QED BY <2>4, <2>12, <3>1, LeftoversRight
  <2>15. PICK m2 \in Nat : Began(r2, v3, o, b, o, a2, m2)
    BY <2>14
  <2>16. PICK b2 \in Bytes : b2 = r2.buf
    BY <2>15 DEF Began, Split
  <2>17. PICK o2 \in Nat : o2 = r2.off
    BY <2>15, BytesLen DEF Began
  <2>18. /\ Split(b, a2, b2) /\ o2 = o + Len(a2) /\ m2 = o2 /\ RawWriter(r2.w, m2)
         /\ Puts(r2.w, v3, a2, o, o) /\ o <= m2
    BY <2>9, <2>10, <2>15, <2>16, <2>17 DEF Began
  <2>19. Len(b) = Len(a2) + Len(b2) /\ Len(a2) \in Nat /\ Len(b2) \in Nat /\ o2 + Len(b2) = off + Len(buf)
    BY <1>7, <2>18, BytesLen DEF Split
  <2>20. RawWriter(u, off + Len(buf)) /\ Puts(u, v3, b, o, o)
    <3>1. CASE r2.return
      <4>1. u = r2.w
        BY <2>5, <3>1
      <4>2. b2 = <<>>
        BY <2>15, <2>16, <3>1 DEF Began
      <4>3. Puts(u, u, b2, o + Len(a2), m2)
        BY <2>18, <4>2, Untouched
      <4>4. Puts(u, v3, b, o, o)
        BY <2>18, <4>1, <4>3, PutsThen
      <4>5. m2 = off + Len(buf)
        BY <2>18, <2>19, <4>2, NoBytes
      <4> QED BY <2>18, <4>1, <4>4, <4>5
    <3>2. CASE ~r2.return
      <4>1. u = Blocks(r2.w, b2, o2)
        BY <2>5, <2>16, <2>17, <3>2
      <4>2. r2.w.index = 0 /\ Aligned(o2)
        BY <2>9, <2>10, <2>15, <2>17, <3>2 DEF Began
      <4>3. m2 <= o2
        BY <2>18
      <4>4. RawWriter(u, o2 + Len(b2)) /\ Puts(u, r2.w, b2, o2, m2)
        BY <2>18, <4>1, <4>2, <4>3, BlocksRight
      <4>5. Puts(u, v3, b, o, o)
        BY <2>18, <4>3, <4>4, PutsThen
      <4> QED BY <2>19, <4>4, <4>5
    <3> QED BY <3>1, <3>2
  <2>21. Puts(u, r.w, b, o, m)
    <3>1. Puts(v3, r.w, <<>>, o, m)
      BY <2>13, NothingAt
    <3>2. Split(b, <<>>, b) /\ o + Len(<<>>) = o /\ m <= o
      BY <1>6, Splits, NoBytes
    <3>3. PICK e \in Bytes : e = <<>>
      BY NoBytes
    <3>4. o + Len(e) = o /\ Split(b, e, b) /\ Puts(v3, r.w, e, o, m)
      BY <3>1, <3>2, <3>3
    <3>5. Puts(u, v3, b, o + Len(e), o)
      BY <2>20, <3>4
    <3> QED BY <3>2, <3>3, <3>4, <3>5, PutsThen
  <2>22. Puts(u, v, buf, off, n)
    BY <1>0, <1>6, <2>21, PutsThen
  <2> QED BY <2>20, <2>22
<1> QED BY <1>9, <1>10, <1>11

----------------------------------------------------------------------------
(* The write callbacks                                                     *)

Functions5 == {"raw", "path", "pipe", "fat", "ubi"}

\* A destination that was written up to n, for the functions other than raw_write.
Plain(v, n) == v \in WriterState /\ v.ok /\ v.index = 0 /\ n \in Nat /\ Len(v.out) = n
Written(v, n) == IF sink = "raw" THEN RawWriter(v, n) ELSE Plain(v, n)

\* Writing zeros up to off and then buf is what a write at off does.
LEMMA AppendOverwrites ==
  ASSUME NEW o \in Bytes, NEW buf \in Bytes, NEW off \in Nat, Len(o) <= off
  PROVE  o \o Zeros(off - Len(o)) \o buf = Overwrite(o, buf, off)
<1>1. PICK a \in Nat : a = Len(o)
  BY BytesLen
<1>2. PICK l \in Nat : l = Len(buf)
  BY BytesLen
<1>3. PICK y \in Nat : y = off - a
  BY <1>1
<1>4. PICK z \in Bytes : z = Zeros(y)
  BY ZerosTyped
<1>5. Len(z) = y /\ \A i \in 1 .. y : z[i] = 0
  BY <1>4, ZerosTyped
<1>6. PICK g \in Bytes : g = o \o z
  BY Joined
<1>7. Len(g) = off /\ \A i \in 1 .. off : g[i] = IF i <= a THEN o[i] ELSE z[i - a]
  <2>1. Len(g) = a + y /\ \A i \in 1 .. a + y : g[i] = IF i <= a THEN o[i] ELSE z[i - a]
    BY <1>1, <1>5, <1>6, Joined
  <2>2. a + y = off
    BY <1>3
  <2> QED BY <2>1, <2>2
<1>8. PICK p \in Bytes : p = g \o buf
  BY Joined
<1>9. PICK n \in Nat : n = off + l
  OBVIOUS
<1>10. Len(p) = n /\ \A i \in 1 .. n : p[i] = IF i <= off THEN g[i] ELSE buf[i - off]
  BY <1>2, <1>7, <1>8, <1>9, Joined
<1>11. PICK v : v = Overwrite(o, buf, off)
  OBVIOUS
<1>12. v = [i \in 1 .. n |-> IF off < i /\ i <= off + l THEN buf[i - off] ELSE IF i <= a THEN o[i] ELSE 0]
  <2>1. (IF a >= off + l THEN a ELSE off + l) = n
    BY <1>1, <1>9
  <2> QED BY <1>1, <1>2, <1>11, <2>1 DEF Overwrite
<1>13. DOMAIN p = 1 .. n /\ p = [i \in 1 .. n |-> p[i]]
  <2>1. DOMAIN p = 1 .. n
    BY <1>10, LenProperties DEF Bytes
  <2>2. p \in [1 .. n -> Int]
    BY <1>10, <2>1 DEF Bytes
  <2> QED BY <2>1, <2>2
<1>14. ASSUME NEW i \in 1 .. n
       PROVE  p[i] = IF off < i /\ i <= off + l THEN buf[i - off] ELSE IF i <= a THEN o[i] ELSE 0
  <2>1. p[i] = IF i <= off THEN g[i] ELSE buf[i - off]
    BY <1>10
  <2>2. CASE off < i
    BY <1>9, <2>1, <2>2
  <2>3. CASE i <= off
    <3>1. g[i] = IF i <= a THEN o[i] ELSE z[i - a]
      BY <1>7, <2>3
    <3>2. ~(i <= a) => z[i - a] = 0
      <4>1. ~(i <= a) => i - a \in 1 .. y
        BY <1>3, <2>3
      <4> QED BY <1>5, <4>1
    <3> QED BY <2>1, <2>3, <3>1, <3>2
  <2> QED BY <2>2, <2>3
<1>15. p = v
  BY <1>12, <1>13, <1>14
<1> QED BY <1>1, <1>3, <1>4, <1>6, <1>8, <1>11, <1>15

\* A write behind the end of what is there.
LEMMA PlainRight ==
  ASSUME NEW v, NEW n, Plain(v, n), NEW buf \in Bytes, NEW off \in Nat, n <= off,
         NEW u, u = [v EXCEPT !.out = Overwrite(v.out, buf, off)]
  PROVE  Plain(u, off + Len(buf)) /\ Puts(u, v, buf, off, n)
<1>0. v \in WriterState /\ v.ok /\ v.index = 0 /\ n \in Nat
  BY DEF Plain
<1>1. PICK o \in Bytes : o = v.out
  BY <1>0 DEF WriterState
<1>2. Len(o) = n
  BY <1>1 DEF Plain
<1>3. PICK p : p = Overwrite(o, buf, off)
  OBVIOUS
<1>4. /\ p \in Bytes /\ Len(p) >= n /\ Len(p) >= off + Len(buf)
      /\ Len(p) = n \/ Len(p) = off + Len(buf)
      /\ \A i \in Nat \ {0} : At(p, i) = IF i \in off + 1 .. off + Len(buf) THEN buf[i - off] ELSE At(o, i)
  BY <1>2, <1>3, OverwriteAt
<1>5. Len(buf) \in Nat /\ Len(p) \in Nat
  BY <1>4, BytesLen
<1>6. Len(p) = off + Len(buf) /\ off + Len(buf) \in Nat
  BY <1>0, <1>4, <1>5
<1>7. u \in WriterState /\ u.ok /\ u.index = 0 /\ u.out = p
  BY <1>0, <1>1, <1>3, <1>4 DEF WriterState
<1>8. Puts(u, v, buf, off, n)
  <2>1. \A i : Shown(u, i) = At(p, i) /\ Shown(v, i) = At(o, i)
    BY <1>0, <1>1, <1>7 DEF Shown, Buffered
  <2> QED BY <1>4, <2>1 DEF Puts
<1> QED BY <1>6, <1>7, <1>8 DEF Plain

\* The write callback of the function, for a chunk that is not behind what was
\* written before: only pipe_write may fail, and only in front of a hole.
LEMMA PwriteRight ==
  ASSUME sink \in Functions5, NEW n, Written(w, n), NEW buf \in Bytes, buf # <<>>, NEW off \in Nat, n <= off,
         NEW s, s = pwrite_callback(buf, off)
  PROVE  /\ s.ok \in BOOLEAN /\ s.w.ok
         /\ s.ok => Written(s.w, off + Len(buf)) /\ Puts(s.w, w, buf, off, n)
         /\ sink # "pipe" \/ off = n => s.ok
<1>0. n \in Nat
  BY DEF Written, RawWriter, Plain
<1>1. CASE sink = "raw"
  <2>1. s = [w |-> ptbw_pwrite(w, buf, off), ok |-> TRUE]
    BY <1>1 DEF pwrite_callback, raw_write_pwrite_callback
  <2>2. PICK u : u = ptbw_pwrite(w, buf, off)
    OBVIOUS
  <2>3. RawWriter(w, n)
    BY <1>1 DEF Written
  <2>4. RawWriter(u, off + Len(buf)) /\ Puts(u, w, buf, off, n)
    BY <2>2, <2>3, PtbwRight
  <2>5. s.w = u /\ s.ok = TRUE
    BY <2>1, <2>2
  <2> QED BY <1>1, <2>4, <2>5 DEF Written, RawWriter
<1>2. ASSUME sink # "raw", NEW u, u = [w EXCEPT !.out = Overwrite(w.out, buf, off)], s.w = u, s.ok = TRUE
      PROVE  s.ok \in BOOLEAN /\ s.w.ok /\ Written(s.w, off + Len(buf)) /\ Puts(s.w, w, buf, off, n)
  <2>1. Plain(w, n)
    BY <1>2 DEF Written
  <2>2. Plain(u, off + Len(buf)) /\ Puts(u, w, buf, off, n)
    BY <1>2, <2>1, PlainRight
  <2> QED BY <1>2, <2>2 DEF Written, Plain
<1>3. CASE sink \in {"path", "fat"}
  <2>1. s = [w |-> [w EXCEPT !.out = Overwrite(w.out, buf, off)], ok |-> TRUE]
    BY <1>3 DEF pwrite_callback, path_write_pwrite_callback, fat_write_pwrite_callback, Result
  <2> QED BY <1>2, <1>3, <2>1
<1>4. ASSUME sink # "raw" PROVE w.out \in Bytes /\ Len(w.out) = n /\ w.ok /\ w \in WriterState
  BY <1>4 DEF Written, Plain, WriterState
<1>5. CASE sink = "ubi"
  <2>1. ~(off < Len(w.out)) /\ Len(w.out) <= off
    BY <1>0, <1>4, <1>5
  <2>2. s = [w |-> [w EXCEPT !.out = w.out \o Zeros(off - Len(w.out)) \o buf], ok |-> TRUE]
    BY <1>5, <2>1 DEF pwrite_callback, ubi_volume_write_pwrite_callback, Result
  <2>3. w.out \o Zeros(off - Len(w.out)) \o buf = Overwrite(w.out, buf, off)
    BY <1>4, <1>5, <2>1, AppendOverwrites
  <2>4. PICK u : u = [w EXCEPT !.out = Overwrite(w.out, buf, off)]
    OBVIOUS
  <2>5. s = [w |-> u, ok |-> TRUE]
    BY <2>2, <2>3, <2>4, Zenon
  <2> QED BY <1>2, <1>5, <2>4, <2>5
<1>6. CASE sink = "pipe"
  <2>1. PICK gap \in Nat : gap = off - Len(w.out)
    BY <1>0, <1>4, <1>6
  <2>2. PICK first \in Nat : first = Least(gap, Bk)
    BY Multiple DEF Least
  <2>3. s = IF gap > 0 /\ (first # Len(buf) \/ (gap % first) # 0)
            THEN [w |-> [w EXCEPT !.out = w.out \o Zeros(first)], ok |-> FALSE]
            ELSE [w |-> [w EXCEPT !.out = w.out \o Zeros(gap) \o buf], ok |-> TRUE]
    BY <1>6, <2>1, <2>2 DEF pwrite_callback, pipe_write_pwrite_callback, Result
  <2>4. CASE gap > 0 /\ (first # Len(buf) \/ (gap % first) # 0)
    <3>1. s = [w |-> [w EXCEPT !.out = w.out \o Zeros(first)], ok |-> FALSE]
      BY <2>3, <2>4
    <3>a. PICK t : t = w.out \o Zeros(first)
      OBVIOUS
    <3>b. s = [w |-> [w EXCEPT !.out = t], ok |-> FALSE]
      BY <3>1, <3>a
    <3>c. w \in WriterState /\ w.ok
      BY <1>4, <1>6
    <3>d. PICK u : u = [w EXCEPT !.out = t]
      OBVIOUS
    <3>e. w.ok = TRUE
      BY <3>c DEF WriterState
    <3>f. u.ok = TRUE
      BY <3>c, <3>d, <3>e DEF WriterState
    <3>g. s = [w |-> u, ok |-> FALSE]
      BY <3>b, <3>d, Zenon
    <3>h. s.ok = FALSE /\ s.w = u
      BY <3>g
    <3>2. s.ok = FALSE /\ s.w.ok
      BY <3>f, <3>h, Zenon
    <3>3. off # n
      BY <1>0, <1>4, <1>6, <2>1, <2>4
    <3> QED BY <1>6, <3>2, <3>3
  <2>5. CASE ~(gap > 0 /\ (first # Len(buf) \/ (gap % first) # 0))
    <3>1. s = [w |-> [w EXCEPT !.out = w.out \o Zeros(gap) \o buf], ok |-> TRUE]
      BY <2>3, <2>5
    <3>2. Len(w.out) <= off
      BY <1>4, <1>6
    <3>3. w.out \o Zeros(gap) \o buf = Overwrite(w.out, buf, off)
      BY <1>4, <1>6, <2>1, <3>2, AppendOverwrites
    <3>4. PICK u : u = [w EXCEPT !.out = Overwrite(w.out, buf, off)]
      OBVIOUS
    <3>5. s = [w |-> u, ok |-> TRUE]
      BY <3>1, <3>3, <3>4, Zenon
    <3> QED BY <1>2, <1>6, <3>4, <3>5
  <2> QED BY <2>4, <2>5
<1> QED BY <1>1, <1>3, <1>5, <1>6 DEF Functions5

\* Zeros may have been written behind n, and nothing else.
Zeroed(u, v, n) == \A i \in Nat \ {0} : Shown(u, i) = Shown(v, i) \/ (i > n /\ Shown(u, i) = 0)

LEMMA PutsZeroed ==
  ASSUME NEW u, NEW v, NEW buf \in Bytes, \A i \in 1 .. Len(buf) : buf[i] = 0, NEW off \in Nat, NEW n \in Nat,
         n <= off, Puts(u, v, buf, off, n)
  PROVE  Zeroed(u, v, n)
<1>1. PICK l \in Nat : l = Len(buf)
  BY BytesLen
<1> SUFFICES ASSUME NEW i \in Nat \ {0}
             PROVE  Shown(u, i) = Shown(v, i) \/ (i > n /\ Shown(u, i) = 0)
  BY DEF Zeroed
<1>2. IF i \in off + 1 .. off + l THEN Shown(u, i) = buf[i - off]
      ELSE Shown(u, i) = Shown(v, i) \/ (i > n /\ Shown(u, i) = 0)
  BY <1>1 DEF Puts
<1>3. i \in off + 1 .. off + l => i > n /\ i - off \in 1 .. l
  OBVIOUS
<1> QED BY <1>1, <1>2, <1>3

LEMMA Succeeds ==
  ASSUME NEW s, NEW u, s = [w |-> u, ok |-> TRUE]
  PROVE  s.ok = TRUE /\ s.w = u
OBVIOUS

\* The callback for a hole at the end.
LEMMA FinalRight ==
  ASSUME sink \in Functions5, NEW n, Written(w, n), NEW hole \in Nat \ {0}, NEW size \in Nat, n <= size - hole,
         NEW s, s = final_hole_callback(hole, size)
  PROVE  /\ s.ok \in BOOLEAN /\ s.w.ok
         /\ s.ok => Written(s.w, size) /\ Zeroed(s.w, w, n)
         /\ sink # "pipe" => s.ok
<1>0. n \in Nat /\ Bk \in Nat \ {0}
  BY Multiple DEF Written, RawWriter, Plain
<1>1. CASE sink = "raw"
  <2>1. PICK k \in Nat \ {0} : k = Least(Bk, hole) /\ k <= hole
    BY <1>0 DEF Least
  <2>2. PICK off \in Nat : off = size - k
    BY <1>0, <2>1
  <2>3. PICK z \in Bytes : z = Zeros(k)
    BY <2>1, ZerosTyped
  <2>4. Len(z) = k /\ (\A i \in 1 .. k : z[i] = 0) /\ z # <<>>
    BY <2>1, <2>3, ZerosTyped, BytesLen
  <2>5. n <= off /\ off + Len(z) = size
    BY <1>0, <2>1, <2>2, <2>4
  <2>6. PICK u : u = ptbw_pwrite(w, z, off)
    OBVIOUS
  <2>7. s.w = u /\ s.ok = TRUE
    BY <1>1, <2>1, <2>2, <2>3, <2>6 DEF final_hole_callback, raw_write_final_hole_callback, raw_write_pwrite_callback
  <2>8. RawWriter(u, size) /\ Puts(u, w, z, off, n)
    BY <1>1, <2>4, <2>5, <2>6, PtbwRight DEF Written
  <2>9. Zeroed(u, w, n)
    BY <1>0, <2>4, <2>5, <2>8, PutsZeroed
  <2> QED BY <1>1, <2>7, <2>8, <2>9 DEF Written, RawWriter
<1>2. ASSUME sink # "raw" PROVE Plain(w, n) /\ w.out \in Bytes /\ Len(w.out) = n /\ w.ok /\ w \in WriterState
  BY <1>2 DEF Written, Plain, WriterState
<1>3. ASSUME sink # "raw", NEW buf \in Bytes, \A i \in 1 .. Len(buf) : buf[i] = 0, NEW off \in Nat,
             n <= off, off + Len(buf) = size, s.ok = TRUE,
             NEW u, u = [w EXCEPT !.out = Overwrite(w.out, buf, off)], s.w = u
      PROVE  s.ok \in BOOLEAN /\ s.w.ok /\ Written(s.w, size) /\ Zeroed(s.w, w, n)
  <2>1. Plain(u, size) /\ Puts(u, w, buf, off, n)
    BY <1>2, <1>3, PlainRight
  <2>2. Zeroed(u, w, n)
    BY <1>0, <1>3, <2>1, PutsZeroed
  <2> QED BY <1>3, <2>1, <2>2 DEF Written, Plain
<1>4. <<0>> \in Bytes /\ Len(<<0>>) = 1 /\ \A i \in 1 .. Len(<<0>>) : <<0>>[i] = 0
  BY DEF Bytes
<1>5. size - 1 \in Nat /\ n <= size - 1 /\ size - 1 + 1 = size /\ n <= size
  BY <1>0
<1>6. PICK off \in Nat : off = size - 1
  BY <1>5
<1>7. CASE sink = "path"
  <2>1. s = [w |-> [w EXCEPT !.out = Overwrite(w.out, <<0>>, off)], ok |-> TRUE]
    BY <1>6, <1>7 DEF final_hole_callback, path_write_final_hole_callback, path_write_pwrite_callback, Result
  <2>2. s.ok = TRUE /\ s.w = [w EXCEPT !.out = Overwrite(w.out, <<0>>, off)] /\ n <= off /\ off + Len(<<0>>) = size
    <3>1. PICK u : u = [w EXCEPT !.out = Overwrite(w.out, <<0>>, off)]
      OBVIOUS
    <3>2. s = [w |-> u, ok |-> TRUE]
      BY <2>1, <3>1, Zenon
    <3>3. s.ok = TRUE /\ s.w = u
      BY <3>2, Zenon, Succeeds
    <3>4. n <= off /\ off + 1 = size
      BY <1>5, <1>6
    <3> QED BY <1>4, <3>1, <3>3, <3>4
  <2> QED BY <1>3, <1>4, <1>7, <2>2
<1>8. \A i \in 1 .. Len(<<>>) : <<>>[i] = 0
  BY NoBytes
<1>9. CASE sink = "fat"
  <2>1. s = [w |-> [w EXCEPT !.out = Overwrite(w.out, <<>>, size)], ok |-> TRUE]
    BY <1>9 DEF final_hole_callback, fat_write_final_hole_callback, fat_write_pwrite_callback, Result
  <2>2. s.ok = TRUE /\ s.w = [w EXCEPT !.out = Overwrite(w.out, <<>>, size)] /\ size + Len(<<>>) = size
    BY <2>1, NoBytes
  <2> QED BY <1>3, <1>5, <1>8, <1>9, <2>2, NoBytes
<1>10. CASE sink = "ubi"
  <2>1. s = [w |-> [w EXCEPT !.out = w.out \o Zeros(size - Len(w.out))], ok |-> TRUE]
    BY <1>10 DEF final_hole_callback, ubi_volume_write_final_hole_callback, Result
  <2>2. PICK y \in Nat : y = size - Len(w.out)
    BY <1>0, <1>2, <1>5, <1>10
  <2>3. PICK g \in Bytes : g = w.out \o Zeros(y)
    BY <1>2, <1>10, Joined, ZerosTyped
  <2>4. g \o <<>> = g
    BY ConcatEmptySeq DEF Bytes
  <2>5. w.out \o Zeros(size - Len(w.out)) \o <<>> = Overwrite(w.out, <<>>, size)
    BY <1>2, <1>5, <1>10, AppendOverwrites, NoBytes
  <2>6. s.ok = TRUE /\ s.w = [w EXCEPT !.out = Overwrite(w.out, <<>>, size)] /\ size + Len(<<>>) = size
    <3>1. Overwrite(w.out, <<>>, size) = w.out \o Zeros(size - Len(w.out))
      BY <2>2, <2>3, <2>4, <2>5
    <3>2. PICK u : u = [w EXCEPT !.out = Overwrite(w.out, <<>>, size)]
      OBVIOUS
    <3>3. s = [w |-> u, ok |-> TRUE]
      BY <2>1, <3>1, <3>2, Zenon
    <3> QED BY <3>2, <3>3, NoBytes
  <2> QED BY <1>3, <1>5, <1>8, <1>10, <2>6, NoBytes
<1>11. CASE sink = "pipe"
  <2>1. PICK gap \in Nat : gap = off - Len(w.out)
    <3>1. Len(w.out) = n
      BY <1>2, <1>11
    <3> QED BY <1>0, <1>5, <1>6, <3>1
  <2>2. PICK first \in Nat : first = Least(gap, Bk)
    BY <1>0 DEF Least
  <2>3. s = IF gap > 0 /\ (first # Len(<<0>>) \/ (gap % first) # 0)
            THEN [w |-> [w EXCEPT !.out = w.out \o Zeros(first)], ok |-> FALSE]
            ELSE [w |-> [w EXCEPT !.out = w.out \o Zeros(gap) \o <<0>>], ok |-> TRUE]
    BY <1>6, <1>11, <2>1, <2>2 DEF final_hole_callback, pipe_write_final_hole_callback, pipe_write_pwrite_callback, Result
  <2>4. CASE gap > 0 /\ (first # Len(<<0>>) \/ (gap % first) # 0)
    <3>1. s = [w |-> [w EXCEPT !.out = w.out \o Zeros(first)], ok |-> FALSE]
      BY <2>3, <2>4
    <3>a. PICK t : t = w.out \o Zeros(first)
      OBVIOUS
    <3>b. s = [w |-> [w EXCEPT !.out = t], ok |-> FALSE]
      BY <3>1, <3>a
    <3>c. w \in WriterState /\ w.ok
      BY <1>2, <1>11
    <3>d. PICK u : u = [w EXCEPT !.out = t]
      OBVIOUS
    <3>e. w.ok = TRUE
      BY <3>c DEF WriterState
    <3>f. u.ok = TRUE
      BY <3>c, <3>d, <3>e DEF WriterState
    <3>g. s = [w |-> u, ok |-> FALSE]
      BY <3>b, <3>d, Zenon
    <3>h. s.ok = FALSE /\ s.w = u
      BY <3>g
    <3>2. s.ok = FALSE /\ s.w.ok
      BY <3>f, <3>h, Zenon
    <3> QED BY <1>11, <3>2
  <2>5. CASE ~(gap > 0 /\ (first # Len(<<0>>) \/ (gap % first) # 0))
    <3>1. s = [w |-> [w EXCEPT !.out = w.out \o Zeros(gap) \o <<0>>], ok |-> TRUE]
      BY <2>3, <2>5
    <3>2. Len(w.out) <= off /\ n <= off /\ off + Len(<<0>>) = size
      BY <1>2, <1>4, <1>5, <1>6, <1>11
    <3>3. w.out \o Zeros(gap) \o <<0>> = Overwrite(w.out, <<0>>, off)
      BY <1>2, <1>4, <1>11, <2>1, <3>2, AppendOverwrites
    <3>4. s.ok = TRUE /\ s.w = [w EXCEPT !.out = Overwrite(w.out, <<0>>, off)]
      <4>1. PICK u : u = [w EXCEPT !.out = Overwrite(w.out, <<0>>, off)]
        OBVIOUS
      <4>2. s = [w |-> u, ok |-> TRUE]
        BY <3>1, <3>3, <4>1, Zenon
      <4>3. s.ok = TRUE /\ s.w = u
        BY <4>2, Zenon, Succeeds
      <4> QED BY <4>1, <4>3, Zenon
    <3> QED BY <1>3, <1>4, <1>11, <3>2, <3>4
  <2> QED BY <2>4, <2>5
<1> QED BY <1>1, <1>7, <1>9, <1>10, <1>11 DEF Functions5

----------------------------------------------------------------------------
(* Positions in a map                                                      *)

\* Only the first entry of a map may be empty.
MapOk(m) == m \in Seq(Nat) /\ m # <<>> /\ \A k \in 2 .. Len(m) : m[k] > 0

\* Where byte i of the files, in data entry e, is in the archive.
DataBefore(m, k) == Sums(DataOnly(m))[k]
Place(m, e, i) == i - Sums(m)[e - 1] + DataBefore(m, e - 1)

\* The end of the last data in front of entry x.
EndOf(m, x) == IF x = 0 THEN 0 ELSE IF IN_HOLE(x) THEN Sums(m)[x] ELSE Sums(m)[x - 1]

\* y bytes of data entry x + 1 were read; the last byte that was read is number last.
Position(m, x, y, last) ==
  /\ x \in 0 .. Len(m) /\ y \in Nat
  /\ x < Len(m) => ~IN_HOLE(x) /\ y < m[x + 1]
  /\ x = Len(m) => y = 0
  /\ last = IF y > 0 THEN Sums(m)[x] + y ELSE EndOf(m, x)

LEMMA DataGrows ==
  ASSUME NEW m \in Seq(Nat)
  PROVE  /\ \A k \in 0 .. Len(m) : DataBefore(m, k) \in Nat
         /\ DataBefore(m, 0) = 0
         /\ \A k \in 1 .. Len(m) : DataBefore(m, k) = DataBefore(m, k - 1) + IF IN_HOLE(k - 1) THEN 0 ELSE m[k]
         /\ \A j, k \in 0 .. Len(m) : j <= k => DataBefore(m, j) <= DataBefore(m, k)
         /\ sparse_file_data_size(m) = DataBefore(m, Len(m))
<1>1. PICK d \in Seq(Nat) : d = DataOnly(m)
  BY DataSums
<1>2. Len(d) = Len(m)
  BY <1>1, DataSums
<1>3. \A j, k \in 0 .. Len(m) : j <= k => Sums(d)[j] <= Sums(d)[k]
  BY <1>2, SumsGrow
<1> QED BY <1>1, <1>2, <1>3, DataSums DEF DataBefore, sparse_file_data_size, Sum

LEMMA PlaceIn ==
  ASSUME NEW m \in Seq(Nat), NEW e \in 1 .. Len(m), ~IN_HOLE(e - 1), NEW i \in Entry(m, e)
  PROVE  /\ Place(m, e, i) \in Nat \ {0} /\ Place(m, e, i) \in DataBefore(m, e - 1) + 1 .. DataBefore(m, e)
         /\ i \in Nat \ {0} /\ i > Sums(m)[e - 1] /\ i <= Sums(m)[e] /\ i <= Sum(m)
<1>0. Len(m) \in Nat /\ e - 1 \in 0 .. Len(m) /\ e \in 0 .. Len(m)
  BY EntryBounds
<1>1. PICK a \in Nat : a = Sums(m)[e - 1]
  BY EntryBounds
<1>2. PICK b \in Nat : b = Sums(m)[e]
  BY EntryBounds
<1>3. PICK l \in Nat : l = m[e]
  BY EntryBounds
<1>4. PICK t \in Nat : t = Sum(m)
  BY EntryBounds
<1>5. b = a + l /\ b <= t
  BY <1>1, <1>2, <1>3, <1>4, EntryBounds
<1>6. PICK c \in Nat : c = DataBefore(m, e - 1)
  BY <1>0, DataGrows
<1>7. DataBefore(m, e) = c + l
  BY <1>3, <1>6, DataGrows
<1>8. i \in a + 1 .. b
  BY <1>1, <1>2 DEF Entry
<1>9. i - a + c \in Nat \ {0} /\ i - a + c \in c + 1 .. c + l /\ i \in Nat \ {0} /\ i > a /\ i <= b /\ i <= t
  BY <1>5, <1>8
<1> QED BY <1>1, <1>2, <1>4, <1>6, <1>7, <1>9 DEF Place

\* The last byte that was read is in front of where reading goes on, and only a
\* hole is between them.
LEMMA PositionBounds ==
  ASSUME NEW m, MapOk(m), NEW x, NEW y, NEW last, Position(m, x, y, last)
  PROVE  /\ last \in Nat /\ last <= Sums(m)[x] + y /\ Sums(m)[x] \in Nat /\ Sums(m)[x] + y <= Sum(m)
         /\ ~IN_HOLE(Len(m)) => last <= Sums(m)[Len(m) - 1]
         /\ x = Len(m) /\ IN_HOLE(Len(m)) => last = Sum(m)
         /\ x = Len(m) /\ ~IN_HOLE(Len(m)) => last = Sums(m)[Len(m) - 1]
         /\ last # Sums(m)[x] + y => x > 0 /\ y = 0 /\ last = Sums(m)[x - 1] /\ ~IN_HOLE(x)
<1>0. m \in Seq(Nat) /\ x \in 0 .. Len(m) /\ y \in Nat /\ Len(m) \in Nat \ {0}
  BY LenProperties, EmptySeq DEF MapOk, Position
<1>1. PICK n \in Nat \ {0} : n = Len(m)
  BY <1>0
<1>2. PICK p \in Nat : p = Sums(m)[x]
  BY <1>0, SumsNat
<1>3. PICK t \in Nat : t = Sum(m)
  <2>1. n \in 0 .. n
    BY <1>1
  <2> QED BY <1>0, <1>1, <2>1, SumsNat DEF Sum
<1>4. p + y <= t
  <2>1. CASE x < n
    <3>1. x + 1 \in 1 .. n /\ x + 1 - 1 = x
      BY <1>0, <1>1, <2>1
    <3>2. PICK e \in 1 .. n : e = x + 1
      BY <3>1
    <3>3. Sums(m)[e] = Sums(m)[e - 1] + m[e] /\ Sums(m)[e] <= t /\ m[e] \in Nat /\ e - 1 = x
      BY <1>0, <1>1, <1>3, <3>1, <3>2, EntryBounds
    <3>4. y < m[e]
      BY <1>1, <2>1, <3>2 DEF Position
    <3>5. PICK l \in Nat : l = m[e]
      BY <3>3
    <3>6. PICK b \in Nat : b = Sums(m)[e]
      BY <1>0, <1>1, EntryBounds
    <3>7. b = p + l /\ b <= t /\ y < l
      BY <1>2, <3>3, <3>4, <3>5, <3>6
    <3> QED BY <1>0, <3>7
  <2>2. CASE x = n
    <3>1. y = 0 /\ p = t
      BY <1>1, <1>2, <1>3, <2>2 DEF Position, Sum
    <3> QED BY <3>1
  <2> QED BY <1>0, <1>1, <2>1, <2>2
<1>5. CASE y > 0
  <2>1. last = p + y /\ x < n
    BY <1>0, <1>1, <1>2, <1>5 DEF Position
  <2>2. ~IN_HOLE(n) => p + y <= Sums(m)[n - 1]
    <3> SUFFICES ASSUME ~IN_HOLE(n) PROVE p + y <= Sums(m)[n - 1]
      OBVIOUS
    <3>1. ~IN_HOLE(x) /\ y < m[x + 1]
      BY <1>1, <2>1 DEF Position
    <3>2. x + 1 # n
      BY <1>0, <3>1, Parity
    <3>3. PICK e \in 1 .. n : e = x + 1
      BY <1>0, <1>1, <2>1
    <3>4. n \in 1 .. n /\ e < n /\ e - 1 = x
      BY <1>0, <1>1, <2>1, <3>2, <3>3
    <3>5. Sums(m)[e] <= Sums(m)[n - 1]
      BY <1>0, <1>1, <3>4, EntryOrder
    <3>6. Sums(m)[e] = p + m[e] /\ m[e] \in Nat
      BY <1>0, <1>1, <1>2, <3>4, EntryBounds
    <3>7. PICK q \in Nat : q = Sums(m)[n - 1]
      BY <1>0, <1>1, <3>4, EntryBounds
    <3>8. PICK l \in Nat : l = m[e]
      BY <3>6
    <3>9. p + l <= q /\ y < l
      BY <3>1, <3>3, <3>5, <3>6, <3>7, <3>8
    <3>10. p + y <= q
      BY <1>0, <3>9
    <3> QED BY <3>7, <3>10
  <2> QED BY <1>0, <1>1, <1>2, <1>3, <1>4, <2>1, <2>2
<1>6. CASE y = 0 /\ x = 0
  <2>1. last = 0 /\ p = 0
    BY <1>0, <1>2, <1>6, SumsNat DEF Position, EndOf
  <2>2. n - 1 \in 0 .. n
    BY <1>1
  <2>3. PICK q \in Nat : q = Sums(m)[n - 1]
    BY <1>0, <1>1, <2>2, SumsNat
  <2>4. last = p + y /\ last <= q /\ last \in Nat /\ x # n /\ last <= p + y
    BY <1>1, <1>6, <2>1, <2>3
  <2> QED BY <1>1, <1>2, <1>3, <1>4, <2>3, <2>4
<1>7. CASE y = 0 /\ x # 0 /\ IN_HOLE(x)
  <2>1. last = p /\ x = n
    BY <1>0, <1>1, <1>2, <1>7 DEF Position, EndOf
  <2>2. p = t
    BY <1>1, <1>2, <1>3, <2>1 DEF Sum
  <2> QED BY <1>1, <1>2, <1>3, <1>4, <1>7, <2>1, <2>2
<1>8. CASE y = 0 /\ x # 0 /\ ~IN_HOLE(x)
  <2>1. x \in 1 .. n /\ n \in 1 .. n
    BY <1>0, <1>1, <1>8
  <2>2. PICK q \in Nat : q = Sums(m)[x - 1]
    BY <1>0, <1>1, <2>1, EntryBounds
  <2>3. last = q
    BY <1>0, <1>8, <2>2 DEF Position, EndOf
  <2>4. q <= p
    <3>1. PICK d \in Nat : d = m[x]
      BY <1>0, <1>1, <2>1, EntryBounds
    <3>2. p = q + d
      BY <1>0, <1>1, <1>2, <2>1, <2>2, <3>1, EntryBounds
    <3> QED BY <3>2
  <2>5. q <= Sums(m)[n - 1]
    <3>1. x - 1 \in 0 .. n /\ n - 1 \in 0 .. n /\ x - 1 <= n - 1
      BY <1>1, <2>1
    <3>2. PICK g \in 0 .. n : g = x - 1
      BY <3>1
    <3>3. PICK h \in 0 .. n : h = n - 1
      BY <3>1
    <3>4. Sums(m)[g] <= Sums(m)[h]
      BY <1>0, <1>1, <3>1, <3>2, <3>3, SumsGrow
    <3> QED BY <2>2, <3>2, <3>3, <3>4
  <2>6. last <= p + y /\ x > 0 /\ y = 0
    BY <1>8, <2>1, <2>3, <2>4
  <2> QED BY <1>1, <1>2, <1>3, <1>4, <1>8, <2>2, <2>3, <2>5, <2>6
<1> QED BY <1>0, <1>5, <1>6, <1>7, <1>8

LEMMA PositionCovers ==
  ASSUME NEW m, MapOk(m), NEW x, NEW y, NEW last, Position(m, x, y, last),
         NEW e \in 1 .. Len(m), ~IN_HOLE(e - 1), NEW i \in Entry(m, e)
  PROVE  /\ i <= last => Place(m, e, i) <= DataBefore(m, x) + y
         /\ i > last => x < Len(m) /\ i > Sums(m)[x] + y
<1>0. m \in Seq(Nat) /\ x \in 0 .. Len(m) /\ y \in Nat /\ Len(m) \in Nat
  BY LenProperties DEF MapOk, Position
<1>1. PICK n \in Nat : n = Len(m)
  BY <1>0
<1>2. PICK p \in Nat : p = Sums(m)[x]
  BY <1>0, SumsNat
<1>3. last \in Nat /\ last <= p + y
  BY <1>2, PositionBounds
<1>4. i \in Nat \ {0} /\ i > Sums(m)[e - 1] /\ i <= Sums(m)[e] /\ i <= Sum(m)
  BY <1>0, PlaceIn
<1>5. PICK c \in Nat : c = DataBefore(m, x)
  BY <1>0, DataGrows
<1>6. e \in 1 .. n
  BY <1>1
<1>7. PICK a \in Nat : a = Sums(m)[e - 1]
  BY <1>0, EntryBounds
<1>8. ASSUME i <= last PROVE Place(m, e, i) <= c + y
  <2>1. CASE e <= x
    <3>1. Place(m, e, i) \in Nat /\ Place(m, e, i) <= DataBefore(m, e)
      <4>1. Place(m, e, i) \in DataBefore(m, e - 1) + 1 .. DataBefore(m, e)
        BY <1>0, PlaceIn
      <4>2. Place(m, e, i) \in Nat
        BY <1>0, PlaceIn
      <4> QED BY <4>1, <4>2
    <3>2. e \in 0 .. n
      BY <1>6
    <3>3. PICK d \in Nat : d = DataBefore(m, e)
      BY <1>0, <1>1, <3>2, DataGrows
    <3>4. d <= c
      BY <1>0, <1>1, <1>5, <2>1, <3>2, <3>3, DataGrows
    <3>5. PICK k \in Nat : k = Place(m, e, i)
      BY <3>1
    <3> QED BY <1>0, <3>1, <3>3, <3>4, <3>5
  <2>2. CASE e = x + 1
    <3>1. e - 1 = x
      BY <1>0, <2>2
    <3>2. Place(m, e, i) = i - p + c
      BY <1>2, <1>5, <3>1 DEF Place
    <3> QED BY <1>0, <1>3, <1>4, <1>8, <3>2
  <2>3. CASE e > x + 1
    <3>1. PICK f \in 1 .. n : f = x + 1
      BY <1>0, <1>1, <1>6, <2>3
    <3>2. f < e /\ f - 1 = x /\ x < n
      BY <1>0, <1>1, <1>6, <2>3, <3>1
    <3>3. Sums(m)[f] <= Sums(m)[e - 1]
      BY <1>0, <1>1, <3>2, EntryOrder
    <3>4. Sums(m)[f] = p + m[f] /\ m[f] \in Nat
      BY <1>0, <1>1, <1>2, <3>2, EntryBounds
    <3>5. y < m[f]
      BY <1>1, <3>1, <3>2 DEF Position
    <3>6. PICK l \in Nat : l = m[f]
      BY <3>4
    <3>7. p + l <= a /\ y < l /\ i > a
      BY <1>4, <1>7, <3>3, <3>4, <3>5, <3>6
    <3> QED BY <1>0, <1>3, <1>4, <1>8, <3>7
  <2> QED BY <1>0, <1>6, <2>1, <2>2, <2>3
<1>9. ASSUME i > last PROVE i > p + y
  <2> SUFFICES ASSUME ~(i > p + y) PROVE FALSE
    OBVIOUS
  <2>1. last # p + y
    BY <1>3, <1>4, <1>9
  <2>2. x > 0 /\ y = 0 /\ last = Sums(m)[x - 1] /\ ~IN_HOLE(x)
    BY <1>2, <2>1, PositionBounds
  <2>3. x \in 1 .. Len(m)
    BY <1>0, <1>1, <2>2
  <2>4. i \in Entry(m, x)
    BY <1>2, <1>3, <1>4, <1>9, <2>2 DEF Entry
  <2>5. e = x
    BY <1>0, <2>3, <2>4, OneEntry
  <2>6. PICK k \in Nat : k = e - 1
    BY <1>6
  <2>7. e = k + 1
    BY <1>6, <2>6
  <2> QED BY <2>2, <2>5, <2>6, <2>7, Parity
<1>10. ASSUME i > last PROVE x < n
  <2> SUFFICES ASSUME ~(x < n) PROVE FALSE
    OBVIOUS
  <2>1. x = n
    BY <1>0, <1>1
  <2>2. y = 0 /\ p = Sum(m)
    BY <1>1, <1>2, <2>1 DEF Position, Sum
  <2> QED BY <1>4, <1>9, <1>10, <2>2
<1> QED BY <1>1, <1>2, <1>5, <1>8, <1>9, <1>10

\* z more bytes of the entry are read.
LEMMA Advance ==
  ASSUME NEW m, MapOk(m), NEW x, NEW y, NEW last, Position(m, x, y, last), x < Len(m),
         NEW z \in Nat \ {0}, y + z <= m[x + 1]
  PROVE  /\ y + z # m[x + 1] => Position(m, x, y + z, Sums(m)[x] + y + z)
         /\ y + z = m[x + 1] /\ x + 1 = Len(m) =>
              /\ Position(m, x + 1, 0, Sums(m)[x] + y + z)
              /\ DataBefore(m, x + 1) = DataBefore(m, x) + y + z
         /\ y + z = m[x + 1] /\ x + 1 # Len(m) =>
              /\ Position(m, x + 2, 0, Sums(m)[x] + y + z)
              /\ DataBefore(m, x + 2) = DataBefore(m, x) + y + z
              /\ Sums(m)[x + 2] = Sums(m)[x] + y + z + m[x + 2] /\ m[x + 2] \in Nat
<1>0. /\ m \in Seq(Nat) /\ x \in 0 .. Len(m) /\ y \in Nat /\ Len(m) \in Nat
      /\ ~IN_HOLE(x) /\ y < m[x + 1] /\ \A k \in 2 .. Len(m) : m[k] > 0
  BY LenProperties DEF MapOk, Position
<1>1. PICK n \in Nat : n = Len(m)
  BY <1>0
<1>2. PICK p \in Nat : p = Sums(m)[x]
  BY <1>0, SumsNat
<1>3. PICK c \in Nat : c = DataBefore(m, x)
  BY <1>0, DataGrows
<1>4. PICK f \in 1 .. n : f = x + 1 /\ f - 1 = x /\ f \in Nat
  BY <1>0, <1>1
<1>5. PICK l \in Nat : l = m[f]
  BY <1>0, <1>1, EntryBounds
<1>6. Sums(m)[f] = p + l /\ DataBefore(m, f) = c + l /\ IN_HOLE(f)
  <2>1. Sums(m)[f] = Sums(m)[f - 1] + m[f]
    BY <1>0, <1>1, EntryBounds
  <2>2. DataBefore(m, f) = DataBefore(m, f - 1) + IF IN_HOLE(f - 1) THEN 0 ELSE m[f]
    BY <1>0, <1>1, DataGrows
  <2>3. IN_HOLE(f)
    BY <1>0, <1>4, Parity
  <2> QED BY <1>0, <1>2, <1>3, <1>4, <1>5, <2>1, <2>2, <2>3
<1>7. ASSUME y + z # l PROVE Position(m, x, y + z, p + y + z)
  <2>1. PICK k \in Nat : k = y + z
    BY <1>0
  <2>2. k > 0 /\ k < m[x + 1] /\ p + y + z = p + k /\ x # n
    BY <1>0, <1>1, <1>4, <1>5, <1>7, <2>1
  <2>3. Position(m, x, k, p + k)
    BY <1>0, <1>1, <1>2, <2>2 DEF Position
  <2> QED BY <2>1, <2>2, <2>3
<1>8. ASSUME y + z = l, f = n
      PROVE  Position(m, f, 0, p + y + z) /\ DataBefore(m, f) = c + y + z
  <2>1. p + y + z = p + l /\ c + y + z = c + l
    BY <1>0, <1>8
  <2>2. EndOf(m, f) = p + l
    BY <1>4, <1>6 DEF EndOf
  <2>3. Position(m, f, 0, p + l)
    BY <1>1, <1>4, <1>8, <2>2 DEF Position
  <2> QED BY <1>6, <2>1, <2>3
<1>9. ASSUME y + z = l, f # n
      PROVE  /\ Position(m, x + 2, 0, p + y + z) /\ DataBefore(m, x + 2) = c + y + z
             /\ Sums(m)[x + 2] = p + y + z + m[x + 2] /\ m[x + 2] \in Nat
  <2>1. p + y + z = p + l /\ c + y + z = c + l
    BY <1>0, <1>9
  <2>2. PICK g \in 1 .. n : g = x + 2 /\ g - 1 = f /\ g = f + 1 /\ g # 0
    BY <1>0, <1>1, <1>4, <1>9
  <2>3. Sums(m)[g] = p + l + m[g] /\ m[g] \in Nat
    BY <1>0, <1>1, <1>6, <2>2, EntryBounds
  <2>4. ~IN_HOLE(g)
    BY <1>4, <1>6, <2>2, Parity
  <2>5. DataBefore(m, g) = c + l
    <3>1. DataBefore(m, g) = DataBefore(m, g - 1) + IF IN_HOLE(g - 1) THEN 0 ELSE m[g]
      BY <1>0, <1>1, DataGrows
    <3> QED BY <1>6, <2>2, <3>1
  <2>6. EndOf(m, g) = p + l
    BY <1>6, <2>2, <2>4 DEF EndOf
  <2>7. g < n => 0 < m[g + 1]
    <3>1. g < n => g + 1 \in 2 .. n
      BY <2>2
    <3>2. g < n => m[g + 1] > 0
      BY <1>0, <1>1, <3>1
    <3>3. g < n => m[g + 1] \in Nat
      <4>1. g < n => g + 1 \in 1 .. n
        BY <2>2
      <4> QED BY <1>0, <1>1, <4>1, SumsNat
    <3> QED BY <3>2, <3>3
  <2>8. g \in 0 .. n
    BY <2>2
  <2>9. Position(m, g, 0, p + l)
    BY <1>1, <2>4, <2>6, <2>7, <2>8 DEF Position
  <2> QED BY <2>1, <2>2, <2>3, <2>5, <2>9
<1> QED BY <1>1, <1>2, <1>3, <1>4, <1>5, <1>7, <1>8, <1>9

\* Where reading starts.
LEMMA Started ==
  ASSUME NEW m, MapOk(m)
  PROVE  /\ m[1] # 0 => Position(m, 0, 0, 0) /\ Sums(m)[0] = 0 /\ DataBefore(m, 0) = 0
         /\ m[1] = 0 /\ Len(m) > 2 => /\ Position(m, 2, 0, 0) /\ DataBefore(m, 2) = 0
                                      /\ Sums(m)[2] = m[2] /\ m[2] \in Nat
         /\ m[1] = 0 /\ ~(Len(m) > 2) => Position(m, Len(m), 0, 0) /\ DataBefore(m, Len(m)) = 0
<1>0. m \in Seq(Nat) /\ \A k \in 2 .. Len(m) : m[k] > 0
  BY DEF MapOk
<1>1. PICK n \in Nat \ {0} : n = Len(m)
  <2>1. Len(m) \in Nat \ {0}
    BY <1>0, LenProperties, EmptySeq DEF MapOk
  <2> QED BY <2>1
<1>2. 1 \in 1 .. n /\ 0 \in 0 .. n /\ 1 - 1 = 0
  BY <1>1
<1>3. Sums(m)[0] = 0 /\ DataBefore(m, 0) = 0 /\ m[1] \in Nat
  BY <1>0, <1>1, <1>2, SumsNat, DataGrows
<1>4. Sums(m)[1] = m[1] /\ DataBefore(m, 1) = m[1]
  <2>1. Sums(m)[1] = Sums(m)[1 - 1] + m[1]
    BY <1>0, <1>1, <1>2, SumsNat
  <2>2. DataBefore(m, 1) = DataBefore(m, 1 - 1) + IF IN_HOLE(1 - 1) THEN 0 ELSE m[1]
    BY <1>0, <1>1, <1>2, DataGrows
  <2>3. ~IN_HOLE(1 - 1)
    BY <1>2, Parity
  <2> QED BY <1>2, <1>3, <2>1, <2>2, <2>3
<1>5. ASSUME m[1] # 0 PROVE Position(m, 0, 0, 0)
  <2>1. ~IN_HOLE(0) /\ 0 < m[0 + 1] /\ 0 # n /\ EndOf(m, 0) = 0
    BY <1>1, <1>3, <1>5, Parity DEF EndOf
  <2> QED BY <1>1, <1>2, <2>1 DEF Position
<1>6. ~IN_HOLE(2)
  <2>1. 1 \in Nat /\ 2 = 1 + 1
    OBVIOUS
  <2> QED BY <2>1, Parity
<1>7. ASSUME m[1] = 0, n >= 2
      PROVE  DataBefore(m, 2) = 0 /\ Sums(m)[2] = m[2] /\ m[2] \in Nat /\ EndOf(m, 2) = 0
  <2>1. 2 \in 1 .. n /\ 2 - 1 = 1
    BY <1>7
  <2>2. Sums(m)[2] = Sums(m)[2 - 1] + m[2] /\ m[2] \in Nat
    BY <1>0, <1>1, <2>1, SumsNat
  <2>3. DataBefore(m, 2) = DataBefore(m, 2 - 1) + IF IN_HOLE(2 - 1) THEN 0 ELSE m[2]
    BY <1>0, <1>1, <2>1, DataGrows
  <2>4. EndOf(m, 2) = Sums(m)[2 - 1]
    BY <1>6 DEF EndOf
  <2>5. IN_HOLE(2 - 1)
    BY <2>1, Parity
  <2> QED BY <1>4, <1>7, <2>1, <2>2, <2>3, <2>4, <2>5
<1>8. ASSUME m[1] = 0, n > 2 PROVE Position(m, 2, 0, 0)
  <2>1. 3 \in 2 .. n /\ 3 \in 1 .. n /\ 2 \in 0 .. n /\ 2 + 1 = 3 /\ 2 # n /\ n >= 2
    BY <1>8
  <2>2. m[3] > 0 /\ m[3] \in Nat
    BY <1>0, <1>1, <2>1, SumsNat
  <2>3. EndOf(m, 2) = 0
    BY <1>7, <1>8, <2>1
  <2> QED BY <1>1, <1>6, <2>1, <2>2, <2>3 DEF Position
<1>9. ASSUME m[1] = 0, ~(n > 2) PROVE Position(m, n, 0, 0) /\ DataBefore(m, n) = 0
  <2>1. CASE n = 1
    <3>1. EndOf(m, 1) = 0
      BY <1>4, <1>9, Parity DEF EndOf
    <3>2. 1 \in 0 .. 1 /\ ~(1 < 1) /\ Len(m) = 1
      BY <1>1, <2>1
    <3>3. Position(m, 1, 0, 0)
      BY <3>1, <3>2 DEF Position
    <3> QED BY <1>4, <1>9, <2>1, <3>3
  <2>2. CASE n = 2
    <3>1. EndOf(m, 2) = 0 /\ DataBefore(m, 2) = 0
      BY <1>7, <1>9, <2>2
    <3>2. 2 \in 0 .. 2 /\ ~(2 < 2) /\ Len(m) = 2
      BY <1>1, <2>2
    <3>3. Position(m, 2, 0, 0)
      BY <3>1, <3>2 DEF Position
    <3> QED BY <2>2, <3>1, <3>3
  <2> QED BY <1>1, <1>9, <2>1, <2>2
<1> QED BY <1>1, <1>3, <1>5, <1>7, <1>8, <1>9

----------------------------------------------------------------------------
(* What is shown of the destination                                        *)

\* The data that was read is where the map says, up to byte n ...
PlacedIn(v, g, m, n) ==
  \A e \in 1 .. Len(m) : ~IN_HOLE(e - 1) =>
    \A i \in Entry(m, e) : i <= n => Shown(v, i) = g[Place(m, e, i)]
\* ... and at all other places there are zeros or what raw_write found.
DataUpTo(m, i, n) == \E e \in 1 .. Len(m) : ~IN_HOLE(e - 1) /\ i \in Entry(m, e) /\ i <= n
RestOf(v, m, n, s) ==
  \A i \in Nat \ {0} : ~DataUpTo(m, i, n) => Shown(v, i) = 0 \/ (s = "raw" /\ Shown(v, i) = Old)

\* buf goes on with the data of entry x + 1, at off.
Chunk(m, x, y, last, g, buf, off) ==
  /\ MapOk(m) /\ Position(m, x, y, last) /\ x < Len(m)
  /\ g \in Bytes /\ Len(g) = DataBefore(m, x) + y
  /\ buf \in Bytes /\ buf # <<>> /\ y + Len(buf) <= m[x + 1] /\ off = Sums(m)[x] + y

LEMMA InChunk ==
  ASSUME NEW i \in Nat \ {0}, NEW off \in Nat, NEW l \in Nat \ {0}, NEW b, b = off + l, i > off, i <= b
  PROVE  i \in off + 1 .. b /\ i - off \in 1 .. l
OBVIOUS

LEMMA InSecond ==
  ASSUME NEW k \in Nat, NEW l \in Nat \ {0}, NEW h \in 1 .. l, NEW j, j = k + h
  PROVE  j - k = h /\ j \in 1 .. k + l /\ ~(j <= k)
OBVIOUS

LEMMA PlacedWritten ==
  ASSUME NEW m, NEW x, NEW y, NEW last, NEW g, NEW buf, NEW off, Chunk(m, x, y, last, g, buf, off),
         NEW u, NEW v, NEW s, Puts(u, v, buf, off, last), PlacedIn(v, g, m, last), RestOf(v, m, last, s)
  PROVE  PlacedIn(u, g \o buf, m, off + Len(buf)) /\ RestOf(u, m, off + Len(buf), s)
<1>s SUFFICES ASSUME MapOk(m), Position(m, x, y, last), x < Len(m), g \in Bytes, Len(g) = DataBefore(m, x) + y,
                     buf \in Bytes, buf # <<>>, y + Len(buf) <= m[x + 1], off = Sums(m)[x] + y
              PROVE  PlacedIn(u, g \o buf, m, off + Len(buf)) /\ RestOf(u, m, off + Len(buf), s)
  BY DEF Chunk
<1>0. /\ m \in Seq(Nat) /\ x \in 0 .. Len(m) /\ y \in Nat /\ Len(m) \in Nat
      /\ ~IN_HOLE(x) /\ y < m[x + 1]
  BY <1>s, LenProperties DEF MapOk, Position
<1>1. PICK p \in Nat : p = Sums(m)[x]
  BY <1>0, SumsNat
<1>2. PICK c \in Nat : c = DataBefore(m, x)
  BY <1>0, DataGrows
<1>3. PICK l \in Nat \ {0} : l = Len(buf)
  <2>1. Len(buf) \in Nat \ {0}
    BY <1>s, BytesLen
  <2> QED BY <2>1
<1>4. off \in Nat /\ off = p + y /\ last \in Nat /\ last <= off
  <2>1. off = p + y
    BY <1>s, <1>1
  <2>2. last \in Nat /\ last <= Sums(m)[x] + y
    BY <1>s, PositionBounds
  <2>3. last <= p + y /\ y \in Nat
    BY <1>0, <1>1, <2>2
  <2> QED BY <2>1, <2>2, <2>3
<1>a. y \in Nat
  BY <1>0
<1>5. PICK b \in Nat : b = off + l
  BY <1>3, <1>4
<1>6. PICK k \in Nat : k = Len(g)
  BY <1>s, BytesLen
<1>7. k = c + y
  BY <1>s, <1>2, <1>6
<1>8. \A i \in 1 .. k + l : (g \o buf)[i] = IF i <= k THEN g[i] ELSE buf[i - k]
  BY <1>s, <1>3, <1>6, Joined
<1>9. PICK f \in 1 .. Len(m) : f = x + 1 /\ f - 1 = x
  BY <1>s, <1>0
<1>10. \A i \in Nat : i \in off + 1 .. b => i \in Entry(m, f)
  <2>1. PICK q \in Nat : q = m[f]
    BY <1>0, EntryBounds
  <2>2. Sums(m)[f] = p + q /\ Sums(m)[f - 1] = p
    BY <1>0, <1>1, <1>9, <2>1, EntryBounds
  <2>3. y + l <= q
    BY <1>s, <1>3, <1>9, <2>1
  <2>4. Entry(m, f) = p + 1 .. p + q
    BY <2>2 DEF Entry
  <2>5. off >= p /\ b <= p + q
    BY <1>a, <1>4, <1>5, <2>3
  <2>6. \A i \in Nat : i \in off + 1 .. b => i \in p + 1 .. p + q
    BY <1>4, <2>5
  <2> QED BY <2>4, <2>6
<1>11. ASSUME NEW i \in Nat \ {0}
       PROVE  IF i \in off + 1 .. b THEN Shown(u, i) = buf[i - off]
              ELSE Shown(u, i) = Shown(v, i) \/ (i > last /\ Shown(u, i) = 0)
  BY <1>3, <1>5 DEF Puts
<1>12. ASSUME NEW e \in 1 .. Len(m), ~IN_HOLE(e - 1), NEW i \in Entry(m, e), i <= b
       PROVE  Shown(u, i) = (g \o buf)[Place(m, e, i)]
  <2>1. PICK j \in Nat \ {0} : j = Place(m, e, i)
    BY <1>0, <1>12, PlaceIn
  <2>2. i \in Nat \ {0}
    BY <1>0, <1>12, PlaceIn
  <2>3. CASE i <= last
    <3>1. j <= k
      BY <1>s, <1>2, <1>7, <1>12, <2>1, <2>3, PositionCovers
    <3>2. i \notin off + 1 .. b /\ ~(i > last)
      BY <1>4, <2>2, <2>3
    <3>3. Shown(u, i) = Shown(v, i)
      BY <1>11, <2>2, <3>2
    <3>4. Shown(v, i) = g[j]
      BY <1>12, <2>1, <2>3 DEF PlacedIn
    <3>5. (g \o buf)[j] = g[j]
      <4>1. j \in 1 .. k + l
        BY <3>1
      <4> QED BY <1>8, <3>1, <4>1
    <3> QED BY <2>1, <3>3, <3>4, <3>5
  <2>4. CASE i > last
    <3>1. i > off
      BY <1>s, <1>1, <1>4, <1>12, <2>4, PositionCovers
    <3>2. i \in off + 1 .. b /\ i - off \in 1 .. l
      <4>1. off \in Nat /\ i <= b
        BY <1>4, <1>12
      <4> QED BY <1>5, <2>2, <3>1, <4>1, InChunk
    <3>3. e = f
      BY <1>0, <1>10, <2>2, <3>2, OneEntry
    <3>4. j = i - p + c
      BY <1>1, <1>2, <1>9, <2>1, <3>3 DEF Place
    <3>5. j = k + (i - off) /\ j - k = i - off /\ j \in 1 .. k + l /\ ~(j <= k)
      <4>1. j = k + (i - off)
        BY <1>a, <1>4, <1>7, <2>2, <3>4
      <4>2. i - off \in 1 .. l
        BY <3>2
      <4> QED BY <4>1, <4>2, InSecond
    <3>6. (g \o buf)[j] = buf[i - off]
      BY <1>8, <3>5
    <3>7. Shown(u, i) = buf[i - off]
      BY <1>11, <2>2, <3>2
    <3> QED BY <2>1, <3>6, <3>7
  <2>5. i <= last \/ i > last
    BY <1>4, <2>2
  <2> QED BY <2>3, <2>4, <2>5
<1>13. PlacedIn(u, g \o buf, m, b)
  BY <1>12 DEF PlacedIn
<1>14. ASSUME NEW i \in Nat \ {0}, ~DataUpTo(m, i, b)
       PROVE  Shown(u, i) = 0 \/ (s = "raw" /\ Shown(u, i) = Old)
  <2>1. i \notin off + 1 .. b
    <3> SUFFICES ASSUME i \in off + 1 .. b PROVE FALSE
      OBVIOUS
    <3>1. i \in Entry(m, f) /\ i <= b /\ ~IN_HOLE(f - 1)
      BY <1>0, <1>4, <1>5, <1>9, <1>10
    <3> QED BY <1>14, <3>1 DEF DataUpTo
  <2>2. ~DataUpTo(m, i, last)
    <3>1. last <= b
      BY <1>3, <1>4, <1>5
    <3>2. i <= last => i <= b
      BY <1>4, <3>1
    <3> QED BY <1>14, <3>2 DEF DataUpTo
  <2>3. Shown(v, i) = 0 \/ (s = "raw" /\ Shown(v, i) = Old)
    BY <2>2 DEF RestOf
  <2>4. Shown(u, i) = Shown(v, i) \/ Shown(u, i) = 0
    BY <1>11, <2>1
  <2> QED BY <2>3, <2>4
<1>15. RestOf(u, m, b, s)
  BY <1>14 DEF RestOf
<1> QED BY <1>3, <1>5, <1>13, <1>15

LEMMA PlacedZeroed ==
  ASSUME NEW m \in Seq(Nat), NEW g, NEW last \in Nat, NEW n \in Nat, last <= n, NEW u, NEW v, NEW s, Zeroed(u, v, n),
         PlacedIn(v, g, m, last), RestOf(v, m, last, s)
  PROVE  PlacedIn(u, g, m, last) /\ RestOf(u, m, last, s)
<1>1. ASSUME NEW e \in 1 .. Len(m), ~IN_HOLE(e - 1), NEW i \in Entry(m, e), i <= last
      PROVE  Shown(u, i) = g[Place(m, e, i)]
  <2>1. i \in Nat \ {0}
    BY <1>1, PlaceIn
  <2>2. ~(i > n)
    BY <1>1, <2>1
  <2>3. Shown(u, i) = Shown(v, i)
    BY <2>1, <2>2 DEF Zeroed
  <2> QED BY <1>1, <2>3 DEF PlacedIn
<1>2. ASSUME NEW i \in Nat \ {0}, ~DataUpTo(m, i, last)
      PROVE  Shown(u, i) = 0 \/ (s = "raw" /\ Shown(u, i) = Old)
  <2>1. Shown(v, i) = 0 \/ (s = "raw" /\ Shown(v, i) = Old)
    BY <1>2 DEF RestOf
  <2>2. Shown(u, i) = Shown(v, i) \/ Shown(u, i) = 0
    BY DEF Zeroed
  <2> QED BY <2>1, <2>2
<1> QED BY <1>1, <1>2 DEF PlacedIn, RestOf

LEMMA InThree ==
  ASSUME NEW s \in Bytes, NEW t \in Bytes, NEW u \in Bytes
  PROVE  (s \o t) \o u = s \o (t \o u)
BY ConcatAssociative DEF Bytes

LEMMA WithNothing ==
  ASSUME NEW s \in Bytes
  PROVE  s \o <<>> = s
BY ConcatEmptySeq DEF Bytes

LEMMA Rejoined ==
  ASSUME NEW b \in Bytes, NEW n \in 0 .. Len(b)
  PROVE  Take(b, n) \o Drop(b, n) = b
<1>1. PICK l \in Nat : l = Len(b)
  BY BytesLen
<1>2. PICK s \in Bytes : s = Take(b, n)
  BY TakeDrop
<1>3. PICK t \in Bytes : t = Drop(b, n)
  BY TakeDrop
<1>4. Len(s) = n /\ Len(t) = l - n /\ (\A i \in 1 .. n : s[i] = b[i]) /\ \A i \in 1 .. l - n : t[i] = b[n + i]
  BY <1>1, <1>2, <1>3, TakeDrop
<1>5. PICK c \in Bytes : c = s \o t
  BY Joined
<1>6. Len(c) = n + (l - n) /\ \A i \in 1 .. n + (l - n) : c[i] = IF i <= n THEN s[i] ELSE t[i - n]
  BY <1>4, <1>5, Joined
<1>7. n + (l - n) = l /\ n \in Nat
  BY <1>1
<1>8. ASSUME NEW i \in 1 .. l PROVE c[i] = b[i]
  <2>1. CASE i <= n
    BY <1>4, <1>6, <1>7, <2>1
  <2>2. CASE ~(i <= n)
    <3>1. i - n \in 1 .. l - n /\ n + (i - n) = i
      BY <1>7, <2>2
    <3> QED BY <1>4, <1>6, <1>7, <2>2, <3>1
  <2> QED BY <2>1, <2>2
<1>9. c = b
  BY <1>1, <1>6, <1>7, <1>8, SeqEqual DEF Bytes
<1> QED BY <1>2, <1>3, <1>5, <1>9

----------------------------------------------------------------------------
(* The invariant of the apply side                                         *)

\* The map covers the files; its holes are holes of the files.
HolesOk(m) == \A e \in 1 .. Len(m) : IN_HOLE(e - 1) => \A i \in Entry(m, e) : ~Whole[i]
LengthOk ==
  /\ MapOk(length) /\ Sum(length) <= Total
  /\ ~BadConcat => Sum(length) = Total /\ HolesOk(length)

\* d has the data of the map's entries, up to byte n of the files.
Byte(i) == IF Whole[i] THEN i ELSE 0
DataOk(d, m, n) ==
  \A e \in 1 .. Len(m) : ~IN_HOLE(e - 1) =>
    \A i \in Entry(m, e) : i <= n => d[Place(m, e, i)] = Byte(i)

\* What is in the archive.
Delivered ==
  /\ LengthOk /\ data \in Bytes
  /\ blake2b \in Bytes /\ Len(blake2b) = sparse_file_data_size(length)
  /\ DataOk(blake2b, length, Sum(length))
Fresh == got = <<>> /\ last_offset = 0 /\ units = 0

\* What was read and where reading goes on.
Reader == [map_ix : Nat, in_block : Nat, actual : Nat, leftover : Bytes]
Reading ==
  /\ rd \in Reader /\ got \in Bytes
  /\ Position(length, rd.map_ix, rd.in_block, last_offset)
  /\ rd.map_ix < Len(length) => rd.actual = Sums(length)[rd.map_ix] + rd.in_block
  /\ Len(got) = DataBefore(length, rd.map_ix) + rd.in_block
  /\ damage = "none" => got \o rd.leftover \o data = blake2b
Placed == PlacedIn(w, got, length, last_offset) /\ RestOf(w, length, last_offset, sink)
Applying == Delivered /\ sink \in Functions5 /\ Reading /\ Placed

\* The hole at the end, what was written with it, and what was reported.
Hole == sparse_ending_hole_size(length)
Extent == IF Hole > 0 THEN Sum(length) ELSE last_offset
Reported(n) == IF count_holes THEN n ELSE Len(got)

\* Nothing is left in the buffer.
Flushed(v, n) ==
  /\ v \in WriterState /\ v.ok /\ v.index = 0 /\ n \in Nat /\ n <= Len(v.out)
  /\ IF sink = "raw" THEN Behind(v.out, n) ELSE Len(v.out) = n

Excused == damage # "none" \/ (sink = "pipe" /\ HasHoles)

\* By the point process_resource has come to.
ApplyInv ==
  /\ pc = "header" => Delivered /\ Fresh /\ (damage = "none" => data = blake2b)
  /\ pc \in {"read", "hole", "check", "done"} => Applying
  /\ pc \in {"read", "hole"} => Written(w, last_offset) /\ units = Reported(last_offset)
  /\ pc \in {"check", "done"} => units = Reported(last_offset + Hole)
  /\ pc = "check" => Written(w, Extent)
  /\ pc = "done" => Flushed(w, Extent) /\ Verified
  /\ pc \in {"hole", "check", "done"} /\ damage = "none" => got = blake2b
  /\ pc = "failed" => Excused

\* A map with more than one entry has a hole.
LEMMA ManyEntries ==
  ASSUME MapOk(length)
  PROVE  Len(length) \in Nat \ {0} /\ (Len(length) > 1 => HasHoles)
<1>1. length \in Seq(Nat) /\ length # <<>>
  BY DEF MapOk
<1>2. Len(length) \in Nat \ {0} /\ DOMAIN length = 1 .. Len(length)
  BY <1>1, LenProperties, EmptySeq
<1>3. ASSUME Len(length) > 1 PROVE HasHoles
  <2>1. 2 \in DOMAIN length
    BY <1>2, <1>3
  <2>2. IN_HOLE(2 - 1)
    BY DEF IN_HOLE
  <2> QED BY <2>1, <2>2 DEF HasHoles
<1> QED BY <1>2, <1>3

ReaderAt(r, x, y, a, l) == r \in Reader /\ r.map_ix = x /\ r.in_block = y /\ r.actual = a /\ r.leftover = l

LEMMA ReaderMoved ==
  ASSUME NEW r \in Reader, NEW x \in Nat, NEW y \in Nat, NEW a \in Nat, NEW l \in Bytes, NEW q
  PROVE  /\ q = [[r EXCEPT !.map_ix = x, !.in_block = y, !.actual = a] EXCEPT !.leftover = l] => ReaderAt(q, x, y, a, l)
         /\ q = [[r EXCEPT !.in_block = y, !.actual = a] EXCEPT !.leftover = l] => ReaderAt(q, r.map_ix, y, a, l)
<1>1. ASSUME NEW p, p = [r EXCEPT !.map_ix = x, !.in_block = y, !.actual = a], q = [p EXCEPT !.leftover = l]
      PROVE  ReaderAt(q, x, y, a, l)
  <2>1. p \in Reader /\ p.map_ix = x /\ p.in_block = y /\ p.actual = a
    BY <1>1 DEF Reader
  <2> QED BY <1>1, <2>1 DEF Reader, ReaderAt
<1>2. ASSUME NEW p, p = [r EXCEPT !.in_block = y, !.actual = a], q = [p EXCEPT !.leftover = l]
      PROVE  ReaderAt(q, r.map_ix, y, a, l)
  <2>1. p \in Reader /\ p.map_ix = r.map_ix /\ p.in_block = y /\ p.actual = a
    BY <1>2 DEF Reader
  <2> QED BY <1>2, <2>1 DEF Reader, ReaderAt
<1> QED BY <1>1, <1>2

\* Reading all of a data entry, or part of it.
CanRead(last, n) ==
  /\ MapOk(length) /\ rd \in Reader /\ Position(length, rd.map_ix, rd.in_block, last)
  /\ rd.map_ix < Len(length) /\ rd.actual = Sums(length)[rd.map_ix] + rd.in_block
  /\ rd.in_block + n <= length[rd.map_ix + 1]
HasRead(r, n, l) ==
  /\ r \in Reader /\ r.leftover = l
  /\ Position(length, r.map_ix, r.in_block, rd.actual + n)
  /\ r.map_ix < Len(length) => r.actual = Sums(length)[r.map_ix] + r.in_block
  /\ DataBefore(length, r.map_ix) + r.in_block = DataBefore(length, rd.map_ix) + rd.in_block + n

LEMMA HoleAdded ==
  ASSUME NEW p \in Nat, NEW y \in Nat, NEW n \in Nat \ {0}, NEW h \in Nat, NEW c \in Nat,
         NEW b, NEW f, b = p + y + n, f = b + h
  PROVE  c + y + n + 0 = c + y + n /\ p + y + n + h + 0 = f
OBVIOUS

LEMMA AdvancedRight ==
  ASSUME NEW last, NEW n \in Nat \ {0}, CanRead(last, n), NEW l \in Bytes,
         NEW r, r = [Advanced(rd, n) EXCEPT !.leftover = l]
  PROVE  HasRead(r, n, l)
<1> SUFFICES ASSUME MapOk(length), rd \in Reader, Position(length, rd.map_ix, rd.in_block, last),
                    rd.map_ix < Len(length), rd.actual = Sums(length)[rd.map_ix] + rd.in_block,
                    rd.in_block + n <= length[rd.map_ix + 1]
             PROVE  /\ r \in Reader /\ r.leftover = l
                    /\ Position(length, r.map_ix, r.in_block, rd.actual + n)
                    /\ r.map_ix < Len(length) => r.actual = Sums(length)[r.map_ix] + r.in_block
                    /\ DataBefore(length, r.map_ix) + r.in_block = DataBefore(length, rd.map_ix) + rd.in_block + n
  BY DEF CanRead, HasRead
<1>0. /\ length \in Seq(Nat) /\ rd.map_ix \in 0 .. Len(length) /\ Len(length) \in Nat /\ rd.leftover \in Bytes
      /\ rd.actual \in Nat /\ rd.in_block \in Nat /\ rd.map_ix \in Nat
  BY LenProperties DEF MapOk, Position, Reader
<1>1. PICK x \in Nat : x = rd.map_ix
  BY <1>0
<1>2. PICK y \in Nat : y = rd.in_block
  BY <1>0
<1>3. PICK p \in Nat : p = Sums(length)[x]
  BY <1>0, <1>1, SumsNat
<1>4. PICK c \in Nat : c = DataBefore(length, x)
  BY <1>0, <1>1, DataGrows
<1>5. PICK a \in Nat : a = rd.actual
  BY <1>0
<1>6. a = p + y /\ a + n = p + y + n
  BY <1>1, <1>2, <1>3, <1>5
<1>b. PICK b \in Nat : b = a + n
  OBVIOUS
<1>8. CASE y + n # length[x + 1]
  <2>1. PICK k \in Nat : k = y + n
    OBVIOUS
  <2>2. ReaderAt(r, x, k, b, l)
    <3>1. Advanced(rd, n) = [rd EXCEPT !.in_block = rd.in_block + n, !.actual = rd.actual + n]
      BY <1>1, <1>2, <1>8, Zenon DEF Advanced
    <3>2. rd.in_block + n = k /\ rd.actual + n = b
      BY <1>2, <1>5, <1>b, <2>1
    <3>3. r = [[rd EXCEPT !.in_block = k, !.actual = b] EXCEPT !.leftover = l]
      BY <3>1, <3>2, Zenon
    <3> QED BY <1>1, <3>3, ReaderMoved
  <2>3. Position(length, x, y + n, a + n)
    BY <1>1, <1>2, <1>3, <1>6, <1>8, Advance
  <2>4. p + (y + n) = a + n /\ c + (y + n) = c + y + n
    BY <1>6
  <2> QED BY <1>1, <1>2, <1>3, <1>4, <1>5, <1>b, <2>1, <2>2, <2>3, <2>4 DEF ReaderAt
<1>9. CASE y + n = length[x + 1] /\ x + 1 = Len(length)
  <2>1. PICK k \in Nat : k = x + 1
    OBVIOUS
  <2>2. ReaderAt(r, k, 0, b, l)
    <3>1. Advanced(rd, n) = [rd EXCEPT !.map_ix = rd.map_ix + 1, !.in_block = 0, !.actual = rd.actual + n]
      BY <1>1, <1>2, <1>9, Zenon DEF Advanced
    <3>2. rd.map_ix + 1 = k /\ rd.actual + n = b
      BY <1>1, <1>5, <1>b, <2>1
    <3>3. r = [[rd EXCEPT !.map_ix = k, !.in_block = 0, !.actual = b] EXCEPT !.leftover = l]
      BY <3>1, <3>2, Zenon
    <3> QED BY <3>3, ReaderMoved
  <2>3. Position(length, k, 0, b) /\ DataBefore(length, k) = c + y + n
    BY <1>1, <1>2, <1>3, <1>4, <1>6, <1>9, <1>b, <2>1, Advance
  <2>4. ~(k < Len(length))
    BY <1>0, <1>9, <2>1
  <2>5. c + y + n + 0 = c + y + n
    OBVIOUS
  <2> QED BY <1>1, <1>2, <1>4, <1>5, <1>b, <2>2, <2>3, <2>4, <2>5 DEF ReaderAt
<1>10. CASE y + n = length[x + 1] /\ x + 1 # Len(length)
  <2>1. PICK h : h = length[x + 2]
    OBVIOUS
  <2>2. /\ Position(length, x + 2, 0, a + n) /\ DataBefore(length, x + 2) = c + y + n
        /\ Sums(length)[x + 2] = p + y + n + h /\ h \in Nat
    <3>1. Position(length, x, y, last) /\ x < Len(length) /\ y + n <= length[x + 1]
      BY <1>1, <1>2
    <3>2. /\ Position(length, x + 2, 0, Sums(length)[x] + y + n)
          /\ DataBefore(length, x + 2) = DataBefore(length, x) + y + n
          /\ Sums(length)[x + 2] = Sums(length)[x] + y + n + length[x + 2] /\ length[x + 2] \in Nat
      BY <1>10, <3>1, Advance
    <3> QED BY <1>3, <1>4, <1>6, <2>1, <3>2
  <2>3. PICK k \in Nat : k = x + 2
    OBVIOUS
  <2>a. h \in Nat
    BY <2>2
  <2>4. PICK f \in Nat : f = b + h
    BY <2>a
  <2>5. ReaderAt(r, k, 0, f, l)
    <3>1. rd.map_ix + 1 + 1 = k /\ rd.actual + n = b
      BY <1>1, <1>5, <1>b, <2>3
    <3>2. Advanced(rd, n) = [rd EXCEPT !.map_ix = rd.map_ix + 1 + 1, !.in_block = 0,
                                       !.actual = rd.actual + n + length[rd.map_ix + 1 + 1]]
      BY <1>1, <1>2, <1>10, Zenon DEF Advanced
    <3>3. rd.actual + n + length[rd.map_ix + 1 + 1] = f
      BY <2>1, <2>3, <2>4, <3>1
    <3>4. r = [[rd EXCEPT !.map_ix = k, !.in_block = 0, !.actual = f] EXCEPT !.leftover = l]
      BY <3>1, <3>2, <3>3, Zenon
    <3> QED BY <3>4, ReaderMoved
  <2>6. c + y + n + 0 = c + y + n /\ p + y + n + h + 0 = f
    <3>1. b = p + y + n
      BY <1>6, <1>b
    <3> QED BY <2>a, <2>4, <3>1, HoleAdded
  <2>7. Position(length, k, 0, b) /\ DataBefore(length, k) = c + y + n /\ Sums(length)[k] + 0 = f
    BY <1>b, <2>2, <2>3, <2>6
  <2> QED BY <1>1, <1>2, <1>4, <1>5, <1>b, <2>5, <2>6, <2>7 DEF ReaderAt
<1> QED BY <1>8, <1>9, <1>10

\* One iteration of process_resource: the chunk is placed, or pipe_write fails.
LEMMA ProcessedRight ==
  ASSUME MapOk(length), sink \in Functions5, Reading, Placed, Written(w, last_offset),
         units = Reported(last_offset), pc = "read", rd.map_ix < Len(length),
         NEW buf \in Bytes, buf # <<>>, rd.in_block + Len(buf) <= length[rd.map_ix + 1],
         Processed(buf, rd.actual), length' = length, sink' = sink
  PROVE  /\ w'.ok
         /\ \/ /\ pc' = "read" /\ got' = got \o buf /\ last_offset' = rd.actual + Len(buf)
               /\ Written(w, last_offset)' /\ Placed' /\ units' = Reported(last_offset)'
            \/ /\ pc' = "failed" /\ sink = "pipe" /\ HasHoles'
<1>0. /\ rd \in Reader /\ got \in Bytes /\ Position(length, rd.map_ix, rd.in_block, last_offset)
      /\ Len(got) = DataBefore(length, rd.map_ix) + rd.in_block
      /\ PlacedIn(w, got, length, last_offset) /\ RestOf(w, length, last_offset, sink)
  BY DEF Reading, Placed
<1>1. PICK x \in Nat : x = rd.map_ix
  BY <1>0 DEF Reader
<1>2. PICK y \in Nat : y = rd.in_block
  BY <1>0 DEF Reader
<1>3. PICK off \in Nat : off = rd.actual
  BY <1>0 DEF Reader
<1>4. off = Sums(length)[x] + y
  BY <1>1, <1>2, <1>3 DEF Reading
<1>5. last_offset \in Nat /\ last_offset <= off
  BY <1>0, <1>1, <1>2, <1>4, PositionBounds
<1>6. PICK l \in Nat \ {0} : l = Len(buf)
  <2>1. Len(buf) \in Nat \ {0}
    BY BytesLen
  <2> QED BY <2>1
<1>7. PICK s : s = pwrite_callback(buf, off)
  OBVIOUS
<1>8. /\ s.ok \in BOOLEAN /\ s.w.ok
      /\ s.ok => Written(s.w, off + Len(buf)) /\ Puts(s.w, w, buf, off, last_offset)
      /\ sink # "pipe" \/ off = last_offset => s.ok
  BY <1>5, <1>7, PwriteRight
<1>9. /\ w' = s.w
      /\ \/ /\ s.ok /\ got' = got \o buf /\ units' = units + ChunkUnits(buf, off)
            /\ last_offset' = off + Len(buf) /\ pc' = pc
         \/ /\ ~s.ok /\ pc' = "failed"
  BY <1>3, <1>7, Zenon DEF Processed
<1>10. CASE s.ok
  <2>1. Written(w', off + l) /\ Puts(w', w, buf, off, last_offset)
    BY <1>6, <1>8, <1>9, <1>10
  <2>2. PICK b \in Nat : b = off + l
    OBVIOUS
  <2>3. last_offset' = b /\ got' = got \o buf /\ pc' = "read" /\ units' = units + ChunkUnits(buf, off)
    BY <1>6, <1>9, <1>10, <2>2
  <2>4. PlacedIn(w', got \o buf, length, off + Len(buf)) /\ RestOf(w', length, off + Len(buf), sink)
    <3>1. PICK u : u = w'
      OBVIOUS
    <3>2. PICK v : v = w
      OBVIOUS
    <3>3. PICK g \in Bytes : g = got
      BY <1>0
    <3>4. PICK last : last = last_offset
      OBVIOUS
    <3>5. /\ Position(length, x, y, last) /\ x < Len(length) /\ Len(g) = DataBefore(length, x) + y
          /\ y + Len(buf) <= length[x + 1] /\ Puts(u, v, buf, off, last)
          /\ PlacedIn(v, g, length, last) /\ RestOf(v, length, last, sink)
      BY <1>0, <1>1, <1>2, <2>1, <3>1, <3>2, <3>3, <3>4
    <3>7. PICK m : m = length
      OBVIOUS
    <3>8. PICK k : k = sink
      OBVIOUS
    <3>9. MapOk(m) /\ Position(m, x, y, last) /\ x < Len(m) /\ Len(g) = DataBefore(m, x) + y
      BY <3>5, <3>7
    <3>10. y + Len(buf) <= m[x + 1] /\ off = Sums(m)[x] + y
      BY <1>4, <3>5, <3>7
    <3>11. Puts(u, v, buf, off, last) /\ PlacedIn(v, g, m, last) /\ RestOf(v, m, last, k)
      BY <3>5, <3>7, <3>8
    <3>6. PlacedIn(u, g \o buf, m, off + Len(buf)) /\ RestOf(u, m, off + Len(buf), k)
      <4>1. Chunk(m, x, y, last, g, buf, off)
        BY <3>9, <3>10 DEF Chunk
      <4> QED BY <3>11, <4>1, PlacedWritten
    <3> QED BY <3>1, <3>3, <3>6, <3>7, <3>8
  <2>5. Placed'
    BY <1>6, <2>2, <2>3, <2>4 DEF Placed
  <2>6. Written(w, last_offset)'
    BY <2>1, <2>2, <2>3 DEF Written
  <2>7. units' = Reported(last_offset)'
    <3>1. count_holes' = count_holes
      BY DEF count_holes
    <3>2. CASE count_holes
      <4>1. units = last_offset /\ ChunkUnits(buf, off) = b - last_offset
        <5>1. units = last_offset
          BY <3>2 DEF Reported
        <5>2. ChunkUnits(buf, off) = off + Len(buf) - last_offset
          BY <3>2 DEF ChunkUnits
        <5>3. PICK last \in Nat : last = last_offset
          BY <1>5
        <5>4. off + l - last = b - last
          BY <2>2
        <5> QED BY <1>6, <5>1, <5>2, <5>3, <5>4
      <4>2. units' = b
        BY <1>5, <2>3, <4>1
      <4> QED BY <2>3, <3>1, <3>2, <4>2 DEF Reported
    <3>3. CASE ~count_holes
      <4>1. units = Len(got) /\ ChunkUnits(buf, off) = l
        <5>1. units = Len(got)
          BY <3>3 DEF Reported
        <5>2. ChunkUnits(buf, off) = Len(buf)
          BY <3>3 DEF ChunkUnits
        <5> QED BY <1>6, <5>1, <5>2
      <4>2. units' = Len(got \o buf)
        <5>1. PICK g \in Bytes : g = got
          BY <1>0
        <5>2. Len(g \o buf) = Len(g) + Len(buf)
          BY Joined
        <5> QED BY <1>6, <2>3, <4>1, <5>1, <5>2
      <4> QED BY <2>3, <3>1, <3>3, <4>2 DEF Reported
    <3> QED BY <3>2, <3>3
  <2> QED BY <1>3, <1>6, <1>8, <1>9, <2>2, <2>3, <2>5, <2>6, <2>7
<1>11. CASE ~s.ok
  <2>1. pc' = "failed" /\ sink = "pipe" /\ off # last_offset
    BY <1>8, <1>9, <1>11
  <2>2. x > 0
    BY <1>0, <1>1, <1>2, <1>4, <2>1, PositionBounds
  <2>3. Len(length) > 1
    BY <1>1, <2>2, ManyEntries
  <2>4. HasHoles
    BY <2>3, ManyEntries
  <2>5. HasHoles'
    BY <2>4 DEF HasHoles
  <2> QED BY <1>8, <1>9, <2>1, <2>5
<1> QED BY <1>8, <1>10, <1>11

LEMMA FilesKept ==
  ASSUME UNCHANGED input
  PROVE  /\ files' = files /\ skip_holes' = skip_holes /\ Total' = Total /\ Whole' = Whole
         /\ (BadConcat') = BadConcat /\ (Inputs => Inputs') /\ \A j : Before(j)' = Before(j)
<1>1. files' = files /\ skip_holes' = skip_holes
  BY DEF input
<1>2. \A j : Before(j)' = Before(j)
  BY <1>1 DEF Before
<1>3. Total' = Total
  BY <1>1, <1>2 DEF Total, Before
<1>4. Whole' = Whole
  BY <1>1 DEF Whole, Before
<1>5. (BadConcat') = BadConcat
  BY <1>1 DEF BadConcat, IsHole
<1>6. Inputs => Inputs'
  BY <1>1 DEF Inputs
<1> QED BY <1>1, <1>2, <1>3, <1>4, <1>5, <1>6

LEMMA LengthKept ==
  ASSUME LengthOk, UNCHANGED input, length' = length
  PROVE  LengthOk'
<1>1. Total' = Total /\ Whole' = Whole /\ (BadConcat') = BadConcat
  BY FilesKept
<1>2. HolesOk(length) => HolesOk(length)'
  BY <1>1 DEF HolesOk
<1> QED BY <1>1, <1>2 DEF LengthOk

LEMMA DataKept ==
  ASSUME NEW d, NEW m, NEW n, DataOk(d, m, n), UNCHANGED input
  PROVE  DataOk(d, m, n)'
<1>1. Whole' = Whole
  BY FilesKept
<1> QED BY <1>1 DEF DataOk, Byte

LEMMA DeliveredKept ==
  ASSUME Delivered, UNCHANGED input, length' = length, blake2b' = blake2b, data' \in Bytes
  PROVE  Delivered'
<1>1. LengthOk'
  BY LengthKept DEF Delivered
<1>2. DataOk(blake2b, length, Sum(length))'
  <2>1. Whole' = Whole
    BY FilesKept
  <2> QED BY <2>1 DEF Delivered, DataOk, Byte
<1> QED BY <1>1, <1>2 DEF Delivered

\* An iteration in which n bytes were read, and l are left over.
LEMMA ReadStep ==
  ASSUME ApplyInv, pc = "read", rd.map_ix < Len(length), NEW n \in Nat \ {0},
         rd.in_block + n <= length[rd.map_ix + 1], NEW buf \in Bytes, Len(buf) = n, NEW l \in Bytes,
         rd' = [Advanced(rd, n) EXCEPT !.leftover = l], Processed(buf, rd.actual), data' \in Bytes,
         damage = "none" => (got \o buf) \o l \o data' = blake2b,
         UNCHANGED <<input, length, damage, blake2b, sink>>
  PROVE  ApplyInv' /\ w'.ok
<1>1. Delivered /\ sink \in Functions5 /\ Reading /\ Placed /\ Written(w, last_offset) /\ units = Reported(last_offset)
  BY DEF ApplyInv, Applying
<1>2. MapOk(length)
  BY <1>1 DEF Delivered, LengthOk
<1>3. buf # <<>>
  BY NoBytes
<1>4. UNCHANGED input /\ length' = length /\ damage' = damage /\ blake2b' = blake2b /\ sink' = sink
  OBVIOUS
<1>5. /\ w'.ok
      /\ \/ /\ pc' = "read" /\ got' = got \o buf /\ last_offset' = rd.actual + Len(buf)
            /\ Written(w, last_offset)' /\ Placed' /\ units' = Reported(last_offset)'
         \/ /\ pc' = "failed" /\ sink = "pipe" /\ HasHoles'
  BY <1>1, <1>2, <1>3, <1>4, ProcessedRight
<1>6. CASE pc' = "failed" /\ sink = "pipe" /\ HasHoles'
  <2>1. Excused'
    BY <1>4, <1>6 DEF Excused
  <2> QED BY <1>5, <1>6, <2>1 DEF ApplyInv
<1>7. CASE /\ pc' = "read" /\ got' = got \o buf /\ last_offset' = rd.actual + Len(buf)
           /\ Written(w, last_offset)' /\ Placed' /\ units' = Reported(last_offset)'
  <2>1. Delivered'
    BY <1>1, <1>4, DeliveredKept
  <2>2. /\ rd \in Reader /\ got \in Bytes /\ Position(length, rd.map_ix, rd.in_block, last_offset)
        /\ rd.actual = Sums(length)[rd.map_ix] + rd.in_block
        /\ Len(got) = DataBefore(length, rd.map_ix) + rd.in_block
    BY <1>1 DEF Reading
  <2>3. /\ rd' \in Reader /\ rd'.leftover = l
        /\ Position(length, rd'.map_ix, rd'.in_block, rd.actual + n)
        /\ rd'.map_ix < Len(length) => rd'.actual = Sums(length)[rd'.map_ix] + rd'.in_block
        /\ DataBefore(length, rd'.map_ix) + rd'.in_block = DataBefore(length, rd.map_ix) + rd.in_block + n
    <3>1. PICK r : r = rd'
      OBVIOUS
    <3>2. PICK last : last = last_offset
      OBVIOUS
    <3>3. r = [Advanced(rd, n) EXCEPT !.leftover = l] /\ Position(length, rd.map_ix, rd.in_block, last)
      BY <2>2, <3>1, <3>2
    <3>4. rd \in Reader /\ rd.actual = Sums(length)[rd.map_ix] + rd.in_block
      BY <2>2
    <3>5. CanRead(last, n)
      BY <1>2, <3>3, <3>4 DEF CanRead
    <3>6. HasRead(r, n, l)
      BY <3>3, <3>5, AdvancedRight
    <3> QED BY <3>1, <3>6 DEF HasRead
  <2>4. got' \in Bytes /\ Len(got') = Len(got) + n
    BY <1>7, <2>2, Joined
  <2>5. Position(length, rd.map_ix, rd.in_block, last_offset)'
    BY <1>4, <1>7, <2>3
  <2>6. (rd.map_ix < Len(length) => rd.actual = Sums(length)[rd.map_ix] + rd.in_block)'
    BY <1>4, <2>3
  <2>7. (Len(got) = DataBefore(length, rd.map_ix) + rd.in_block)'
    BY <1>4, <2>2, <2>3, <2>4
  <2>8. (damage = "none" => got \o rd.leftover \o data = blake2b)'
    BY <1>4, <1>7, <2>3
  <2>9. Reading'
    BY <2>3, <2>4, <2>5, <2>6, <2>7, <2>8 DEF Reading
  <2> QED BY <1>1, <1>4, <1>5, <1>7, <2>1, <2>9 DEF ApplyInv, Applying
<1> QED BY <1>5, <1>6, <1>7

LEMMA ReadLeftover ==
  ASSUME ApplyInv, read_leftover
  PROVE  ApplyInv' /\ w'.ok
<1>1. pc = "read" /\ rd.map_ix < Len(length) /\ rd.leftover # <<>>
  BY DEF read_leftover
<1>2. Delivered /\ Reading
  BY <1>1 DEF ApplyInv, Applying
<1>3. PICK b \in Bytes : b = rd.leftover
  BY <1>2 DEF Reading, Reader
<1>4. PICK k \in Nat \ {0} : k = Len(b)
  <2>1. Len(b) \in Nat \ {0}
    BY <1>1, <1>3, BytesLen
  <2> QED BY <2>1
<1>5. PICK q \in Nat : q = length[rd.map_ix + 1]
  <2>1. length \in Seq(Nat) /\ rd.map_ix \in 0 .. Len(length) /\ Len(length) \in Nat
    BY <1>2, LenProperties DEF Delivered, LengthOk, MapOk, Reading, Position
  <2>2. PICK e \in 1 .. Len(length) : e = rd.map_ix + 1
    BY <1>1, <2>1
  <2> QED BY <2>1, <2>2, EntryBounds
<1>6. PICK y \in Nat : y = rd.in_block
  BY <1>2 DEF Reading, Reader
<1>7. y < q
  BY <1>1, <1>2, <1>5, <1>6 DEF Reading, Position
<1>8. PICK n \in Nat \ {0} : n = Least(q - y, k) /\ n <= k /\ y + n <= q
  <2>1. q - y \in Nat \ {0}
    BY <1>7
  <2>2. Least(q - y, k) \in Nat \ {0} /\ Least(q - y, k) <= k /\ y + Least(q - y, k) <= q
    BY <1>7, <2>1 DEF Least
  <2> QED BY <2>2
<1>9. n = Least(Remaining, Len(rd.leftover))
  BY <1>3, <1>4, <1>5, <1>6, <1>8 DEF Remaining
<1>10. PICK t \in Bytes : t = Take(b, n)
  BY <1>4, <1>8, TakeDrop
<1>11. PICK l \in Bytes : l = Drop(b, n)
  BY <1>4, <1>8, TakeDrop
<1>12. Len(t) = n /\ t \o l = b
  <2>1. n \in 0 .. Len(b)
    BY <1>4, <1>8
  <2> QED BY <1>10, <1>11, <2>1, TakeDrop, Rejoined
<1>13. /\ rd' = [Advanced(rd, n) EXCEPT !.leftover = Drop(Advanced(rd, n).leftover, n)]
       /\ Processed(Take(rd.leftover, n), rd.actual)
       /\ UNCHANGED <<input, createVars, archive, sink>>
  BY <1>9, Zenon DEF read_leftover
<1>14. Advanced(rd, n).leftover = b
  <2>1. rd \in Reader
    BY <1>2 DEF Reading
  <2> QED BY <1>3, <2>1 DEF Advanced, Reader
<1>15. rd' = [Advanced(rd, n) EXCEPT !.leftover = l] /\ Processed(t, rd.actual)
  BY <1>3, <1>10, <1>11, <1>13, <1>14
<1>16. UNCHANGED <<input, length, damage, blake2b, sink>> /\ data' = data
  BY <1>13 DEF archive
<1>17. data \in Bytes /\ got \in Bytes
  BY <1>2 DEF Delivered, Reading
<1>18. ASSUME damage = "none" PROVE (got \o t) \o l \o data = blake2b
  <2>1. got \o b \o data = blake2b
    BY <1>2, <1>3, <1>18 DEF Reading
  <2>2. PICK g \in Bytes : g = got
    BY <1>17
  <2>3. (g \o t) \o l = g \o (t \o l)
    BY InThree
  <2> QED BY <1>12, <2>1, <2>2, <2>3
<1>19. rd.in_block + n <= length[rd.map_ix + 1]
  BY <1>5, <1>6, <1>8
<1> QED BY <1>1, <1>12, <1>15, <1>16, <1>17, <1>18, <1>19, ReadStep

LEMMA ReadMore ==
  ASSUME ApplyInv, read_more
  PROVE  ApplyInv' /\ w'.ok
<1>1. pc = "read" /\ rd.map_ix < Len(length) /\ rd.leftover = <<>> /\ data # <<>>
  BY DEF read_more
<1>2. Delivered /\ Reading
  BY <1>1 DEF ApplyInv, Applying
<1>3. PICK b \in Bytes : b = data
  BY <1>2 DEF Delivered
<1>4. PICK len \in 1 .. Len(b) :
        /\ data' = Drop(data, len)
        /\ rd' = [Advanced(rd, Least(Remaining, len)) EXCEPT !.leftover = Drop(Take(data, len), Least(Remaining, len))]
        /\ Processed(Take(data, Least(Remaining, len)), rd.actual)
  BY <1>3, Zenon DEF read_more
<1>5. PICK q \in Nat : q = length[rd.map_ix + 1]
  <2>1. length \in Seq(Nat) /\ rd.map_ix \in 0 .. Len(length) /\ Len(length) \in Nat
    BY <1>2, LenProperties DEF Delivered, LengthOk, MapOk, Reading, Position
  <2>2. PICK e \in 1 .. Len(length) : e = rd.map_ix + 1
    BY <1>1, <2>1
  <2> QED BY <2>1, <2>2, EntryBounds
<1>6. PICK y \in Nat : y = rd.in_block
  BY <1>2 DEF Reading, Reader
<1>7. y < q
  BY <1>1, <1>2, <1>5, <1>6 DEF Reading, Position
<1>a. Len(b) \in Nat
  BY BytesLen
<1>b. PICK k \in Nat \ {0} : k = len /\ k <= Len(b)
  <2>1. len \in Nat \ {0} /\ len <= Len(b)
    BY <1>a
  <2> QED BY <2>1
<1>8. PICK n \in Nat \ {0} : n = Least(q - y, k) /\ n <= k /\ y + n <= q
  <2>1. q - y \in Nat \ {0}
    BY <1>7
  <2>2. Least(q - y, k) \in Nat \ {0} /\ Least(q - y, k) <= k /\ y + Least(q - y, k) <= q
    BY <1>7, <2>1 DEF Least
  <2> QED BY <2>2
<1>9. n = Least(Remaining, len)
  BY <1>5, <1>6, <1>8, <1>b DEF Remaining
<1>10. k \in 0 .. Len(b) /\ n \in 0 .. Len(b)
  BY <1>a, <1>b, <1>8
<1>11. PICK f \in Bytes : f = Take(b, k)
  BY <1>10, TakeDrop
<1>12. PICK d \in Bytes : d = Drop(b, k)
  BY <1>10, TakeDrop
<1>13. Len(f) = k /\ f \o d = b /\ \A i \in 1 .. k : f[i] = b[i]
  BY <1>10, <1>11, <1>12, TakeDrop, Rejoined
<1>14. n \in 0 .. Len(f)
  BY <1>8, <1>13
<1>15. PICK t \in Bytes : t = Take(f, n)
  BY <1>14, TakeDrop
<1>16. PICK l \in Bytes : l = Drop(f, n)
  BY <1>14, TakeDrop
<1>17. Len(t) = n /\ t \o l = f /\ \A i \in 1 .. n : t[i] = f[i]
  BY <1>14, <1>15, <1>16, TakeDrop, Rejoined
<1>18. t = Take(b, n)
  <2>1. PICK e \in Bytes : e = Take(b, n)
    BY <1>10, TakeDrop
  <2>2. Len(e) = n /\ \A i \in 1 .. n : e[i] = b[i]
    BY <1>10, <2>1, TakeDrop
  <2>3. \A i \in 1 .. n : t[i] = e[i]
    BY <1>8, <1>13, <1>17, <2>2
  <2>4. t = e
    BY <1>17, <2>2, <2>3, SeqEqual DEF Bytes
  <2> QED BY <2>1, <2>4
<1>19. rd' = [Advanced(rd, n) EXCEPT !.leftover = l] /\ Processed(t, rd.actual) /\ data' = d
  BY <1>3, <1>4, <1>9, <1>11, <1>12, <1>16, <1>18, <1>b
<1>20. UNCHANGED <<input, length, damage, blake2b, sink>>
  BY DEF read_more
<1>21. got \in Bytes
  BY <1>2 DEF Reading
<1>22. ASSUME damage = "none" PROVE (got \o t) \o l \o d = blake2b
  <2>1. got \o <<>> \o b = blake2b
    BY <1>1, <1>2, <1>3, <1>22 DEF Reading
  <2>a. PICK g : g = got
    OBVIOUS
  <2>b. g \in Bytes
    BY <1>21, <2>a
  <2>2. g \o <<>> = g
    BY <2>b, WithNothing
  <2>3. (g \o t) \o l = g \o (t \o l)
    BY <2>b, InThree
  <2>4. (g \o f) \o d = g \o (f \o d)
    BY <2>b, InThree
  <2>5. g \o b = blake2b
    BY <2>1, <2>2, <2>a
  <2>6. g \o (t \o l) = g \o f /\ g \o (f \o d) = g \o b
    BY <1>13, <1>17
  <2>7. (g \o t) \o l \o d = blake2b
    BY <2>3, <2>4, <2>5, <2>6
  <2> QED BY <2>7, <2>a
<1>23. rd.in_block + n <= length[rd.map_ix + 1]
  BY <1>5, <1>6, <1>8
<1> QED BY <1>1, <1>17, <1>19, <1>20, <1>22, <1>23, ReadStep

LEMMA WholePrefix ==
  ASSUME NEW s \in Bytes, NEW t \in Bytes, NEW u \in Bytes, NEW b, s \o t \o u = b, Len(s) = Len(b)
  PROVE  s = b
<1>1. s \o t \in Bytes /\ Len(s \o t) = Len(s) + Len(t)
  BY Joined
<1>2. Len(s \o t \o u) = Len(s \o t) + Len(u)
  BY <1>1, Joined
<1>3. Len(s) \in Nat /\ Len(t) \in Nat /\ Len(u) \in Nat
  BY BytesLen
<1>4. Len(t) = 0 /\ Len(u) = 0
  BY <1>1, <1>2, <1>3
<1>5. t = <<>> /\ u = <<>>
  BY <1>4, BytesLen
<1>6. s \o <<>> = s
  BY WithNothing
<1> QED BY <1>5, <1>6

LEMMA ReadError ==
  ASSUME ApplyInv, read_error
  PROVE  ApplyInv'
BY DEF read_error, archive, ApplyInv, Excused

LEMMA ReadEof ==
  ASSUME ApplyInv, read_eof
  PROVE  ApplyInv'
<1>1. pc = "read" /\ pc' = "hole" /\ (rd.map_ix = Len(length) \/ (rd.leftover = <<>> /\ data = <<>>))
  BY DEF read_eof
<1>2. UNCHANGED input /\ length' = length /\ data' = data /\ damage' = damage /\ blake2b' = blake2b
  BY DEF read_eof, archive
<1>3. sink' = sink /\ rd' = rd /\ got' = got /\ last_offset' = last_offset /\ w' = w /\ units' = units
  BY DEF read_eof, applyVars
<1>4. Delivered /\ sink \in Functions5 /\ Reading /\ Placed /\ Written(w, last_offset) /\ units = Reported(last_offset)
  BY <1>1 DEF ApplyInv, Applying
<1>5. ASSUME damage = "none" PROVE got = blake2b
  <2>1. PICK g \in Bytes : g = got
    BY <1>4 DEF Reading
  <2>2. PICK l \in Bytes : l = rd.leftover
    BY <1>4 DEF Reading, Reader
  <2>3. PICK d \in Bytes : d = data
    BY <1>4 DEF Delivered
  <2>4. g \o l \o d = blake2b
    BY <1>4, <1>5, <2>1, <2>2, <2>3 DEF Reading
  <2>5. CASE rd.map_ix = Len(length)
    <3>1. length \in Seq(Nat)
      BY <1>4 DEF Delivered, LengthOk, MapOk
    <3>2. rd.in_block = 0
      BY <1>4, <2>5 DEF Reading, Position
    <3>3. Len(length) \in Nat
      BY <3>1, LenProperties
    <3>4. DataBefore(length, Len(length)) \in Nat /\ sparse_file_data_size(length) = DataBefore(length, Len(length))
      BY <3>1, <3>3, DataGrows
    <3>5. Len(g) = DataBefore(length, Len(length)) + 0
      BY <1>4, <2>1, <2>5, <3>2 DEF Reading
    <3>6. Len(g) = Len(blake2b)
      BY <1>4, <3>4, <3>5 DEF Delivered
    <3> QED BY <2>1, <2>4, <3>6, WholePrefix
  <2>6. CASE rd.leftover = <<>> /\ data = <<>>
    <3>1. g \o <<>> = g
      BY WithNothing
    <3> QED BY <2>1, <2>2, <2>3, <2>4, <2>6, <3>1
  <2> QED BY <1>1, <2>5, <2>6
<1>6. Delivered'
  BY <1>2, <1>4, DeliveredKept DEF Delivered
<1>7. Reading' /\ Placed' /\ Written(w, last_offset)' /\ (units = Reported(last_offset))'
  BY <1>2, <1>3, <1>4 DEF Reading, Placed, Written, Reported, count_holes
<1> QED BY <1>1, <1>2, <1>3, <1>4, <1>5, <1>6, <1>7 DEF ApplyInv, Applying

\* The hole at the end of a map.
LEMMA HoleRight ==
  ASSUME MapOk(length)
  PROVE  /\ Hole \in Nat /\ (Hole > 0 <=> ~IN_HOLE(Len(length))) /\ (Hole = 0 <=> IN_HOLE(Len(length)))
         /\ Hole > 0 => Sum(length) - Hole = Sums(length)[Len(length) - 1] /\ Len(length) > 1
         /\ sparse_file_size(length) = Sum(length) /\ Sum(length) \in Nat
<1>0. length \in Seq(Nat) /\ length # <<>> /\ \A k \in 2 .. Len(length) : length[k] > 0
  BY DEF MapOk
<1>1. PICK n \in Nat \ {0} : n = Len(length)
  BY ManyEntries
<1>2. Last(length) = length[n] /\ n \in 1 .. n
  BY <1>0, <1>1, SumsFront
<1>3. PICK a \in Nat : a = Sums(length)[n - 1]
  BY <1>0, <1>1, <1>2, EntryBounds
<1>4. PICK h \in Nat : h = length[n]
  BY <1>0, <1>1, <1>2, EntryBounds
<1>5. Sum(length) = a + h
  BY <1>0, <1>1, <1>2, <1>3, <1>4, EntryBounds DEF Sum
<1>6. Hole = IF IN_HOLE(n) THEN 0 ELSE h
  <2>1. (n % 2 = 0) <=> ~IN_HOLE(n)
    BY Parity
  <2> QED BY <1>1, <1>2, <1>4, <2>1 DEF Hole, sparse_ending_hole_size
<1>7. ASSUME ~IN_HOLE(n) PROVE n > 1 /\ h > 0
  <2>1. n # 1
    BY <1>7, Parity
  <2>2. n \in 2 .. n
    BY <2>1
  <2> QED BY <1>0, <1>1, <1>4, <2>2
<1>8. CASE IN_HOLE(n)
  BY <1>1, <1>5, <1>6, <1>8 DEF sparse_file_size
<1>9. CASE ~IN_HOLE(n)
  <2>1. Hole = h /\ h > 0 /\ n > 1 /\ a + h - h = a
    BY <1>6, <1>7, <1>9
  <2> QED BY <1>1, <1>3, <1>5, <1>9, <2>1 DEF sparse_file_size
<1> QED BY <1>8, <1>9

LEMMA FinalHole ==
  ASSUME ApplyInv, w.ok, final_hole
  PROVE  ApplyInv' /\ w'.ok
<1>1. pc = "hole"
  BY DEF final_hole
<1>2. UNCHANGED input /\ length' = length /\ data' = data /\ damage' = damage /\ blake2b' = blake2b
  BY DEF final_hole, archive
<1>3. sink' = sink /\ rd' = rd /\ got' = got /\ last_offset' = last_offset
  BY DEF final_hole
<1>4. /\ Delivered /\ sink \in Functions5 /\ Reading /\ Placed /\ Written(w, last_offset) /\ units = Reported(last_offset)
      /\ damage = "none" => got = blake2b
  BY <1>1 DEF ApplyInv, Applying
<1>5. MapOk(length) /\ Position(length, rd.map_ix, rd.in_block, last_offset) /\ got \in Bytes
  BY <1>4 DEF Delivered, LengthOk, Reading
<1>6. Delivered'
  BY <1>2, <1>4, DeliveredKept DEF Delivered
<1>7. Reading'
  BY <1>2, <1>3, <1>4 DEF Reading
<1>8. PICK h \in Nat : h = Hole
  BY <1>5, HoleRight
<1>9. PICK size \in Nat : size = Sum(length) /\ size = sparse_file_size(length)
  BY <1>5, HoleRight
<1>10. PICK last \in Nat : last = last_offset
  BY <1>5, PositionBounds
<1>11. PICK s : s = final_hole_callback(h, size)
  OBVIOUS
<1>12. \/ h = 0 /\ pc' = "check" /\ w' = w /\ units' = units
       \/ h > 0 /\ s.ok /\ w' = s.w /\ units' = units + (IF count_holes THEN h ELSE 0) /\ pc' = "check"
       \/ h > 0 /\ ~s.ok /\ w' = s.w /\ pc' = "failed"
  BY <1>8, <1>9, <1>11, Zenon DEF final_hole, Hole
<1>13. Hole' = Hole /\ (Extent') = Extent /\ \A n : Reported(n)' = Reported(n)
  BY <1>2, <1>3 DEF Hole, Extent, Reported, count_holes
<1>14. h > 0 => last <= size - h
  <2>1. h > 0 => size - h = Sums(length)[Len(length) - 1] /\ ~IN_HOLE(Len(length))
    BY <1>5, <1>8, <1>9, HoleRight
  <2> QED BY <1>5, <1>10, <2>1, PositionBounds
<1>15. Extent = IF h > 0 THEN size ELSE last
  BY <1>8, <1>9, <1>10 DEF Extent
<1>16. CASE h = 0
  <2>1. pc' = "check" /\ w' = w /\ units' = units
    BY <1>12, <1>16
  <2>2. Placed' /\ Written(w, Extent)'
    BY <1>2, <1>3, <1>4, <1>10, <1>13, <1>15, <1>16, <2>1 DEF Placed, Written
  <2>3. (units = Reported(last_offset + Hole))'
    <3>1. last_offset + Hole = last_offset
      BY <1>8, <1>10, <1>16
    <3>2. units' = units /\ last_offset' = last_offset /\ Hole' = Hole
      BY <1>3, <1>13, <2>1
    <3> QED BY <1>2, <1>3, <1>4, <3>1, <3>2 DEF Reported, count_holes
  <2> QED BY <1>2, <1>3, <1>4, <1>6, <1>7, <2>1, <2>2, <2>3 DEF ApplyInv, Applying
<1>17. CASE h > 0
  <2>1. Written(w, last) /\ h \in Nat \ {0} /\ last <= size - h
    BY <1>4, <1>10, <1>14, <1>17
  <2>2. /\ s.ok \in BOOLEAN /\ s.w.ok
        /\ s.ok => Written(s.w, size) /\ Zeroed(s.w, w, last)
        /\ sink # "pipe" => s.ok
    BY <1>4, <1>11, <2>1, FinalRight
  <2>3. CASE s.ok
    <3>1. w' = s.w /\ units' = units + (IF count_holes THEN h ELSE 0) /\ pc' = "check"
      BY <1>12, <1>17, <2>3
    <3>2. PICK u : u = w'
      OBVIOUS
    <3>3. Zeroed(u, w, last) /\ PlacedIn(w, got, length, last) /\ RestOf(w, length, last, sink)
      BY <1>4, <1>10, <2>2, <2>3, <3>1, <3>2 DEF Placed
    <3>4. PlacedIn(u, got, length, last) /\ RestOf(u, length, last, sink)
      BY <1>5, <3>3, PlacedZeroed DEF MapOk
    <3>5. Placed'
      BY <1>2, <1>3, <1>10, <3>2, <3>4 DEF Placed
    <3>6. Written(w, Extent)'
      BY <1>3, <1>13, <1>15, <1>17, <2>2, <2>3, <3>1 DEF Written
    <3>7. (units = Reported(last_offset + Hole))'
      <4>1. count_holes' = count_holes
        BY <1>3 DEF count_holes
      <4>2. CASE count_holes
        <5>1. units = last /\ units' = units + h
          BY <1>4, <1>10, <3>1, <4>2 DEF Reported
        <5> QED BY <1>3, <1>8, <1>10, <1>13, <4>1, <4>2, <5>1 DEF Reported
      <4>3. CASE ~count_holes
        <5>1. units = Len(got) /\ units' = units + 0
          BY <1>4, <3>1, <4>3 DEF Reported
        <5>2. units' = Len(got)
          BY <1>5, <5>1, BytesLen
        <5> QED BY <1>3, <4>1, <4>3, <5>2 DEF Reported
      <4> QED BY <4>2, <4>3
    <3> QED BY <1>2, <1>3, <1>4, <1>6, <1>7, <2>2, <3>1, <3>5, <3>6, <3>7 DEF ApplyInv, Applying
  <2>4. CASE ~s.ok
    <3>1. w' = s.w /\ pc' = "failed" /\ sink = "pipe"
      BY <1>12, <1>17, <2>2, <2>4
    <3>2. HasHoles'
      <4>1. Len(length) > 1
        BY <1>5, <1>8, <1>17, HoleRight
      <4>2. HasHoles
        BY <1>5, <4>1, ManyEntries
      <4> QED BY <1>2, <4>2 DEF HasHoles
    <3>3. Excused'
      BY <1>3, <3>1, <3>2 DEF Excused
    <3> QED BY <2>2, <3>1, <3>3 DEF ApplyInv
  <2> QED BY <2>2, <2>3, <2>4
<1> QED BY <1>8, <1>16, <1>17

\* When all of the data was read, the map is at its end.
LEMMA AtEnd ==
  ASSUME Delivered, Reading, Verified
  PROVE  /\ rd.map_ix = Len(length) /\ Extent = Sum(length) /\ last_offset \in Nat /\ last_offset <= Extent
         /\ Extent \in Nat
<1>0. MapOk(length) /\ length \in Seq(Nat) /\ Position(length, rd.map_ix, rd.in_block, last_offset)
  BY DEF Delivered, LengthOk, MapOk, Reading
<1>1. PICK n \in Nat \ {0} : n = Len(length)
  BY <1>0, ManyEntries
<1>2. PICK x \in 0 .. n : x = rd.map_ix
  BY <1>0, <1>1 DEF Position
<1>3. PICK y \in Nat : y = rd.in_block
  BY <1>0 DEF Position
<1>4. x = n
  <2> SUFFICES ASSUME x # n PROVE FALSE
    OBVIOUS
  <2>1. x < n
    BY <1>2
  <2>2. ~IN_HOLE(x) /\ y < length[x + 1]
    BY <1>0, <1>1, <1>2, <1>3, <2>1 DEF Position
  <2>3. PICK e \in 1 .. n : e = x + 1 /\ e - 1 = x /\ e \in 0 .. n
    BY <1>2, <2>1
  <2>4. PICK q \in Nat : q = length[e]
    BY <1>0, <1>1, EntryBounds
  <2>5. PICK c \in Nat : c = DataBefore(length, x)
    BY <1>0, <1>1, DataGrows
  <2>6. DataBefore(length, e) = c + q
    BY <1>0, <1>1, <2>2, <2>3, <2>4, <2>5, DataGrows
  <2>7. n \in 0 .. n /\ e <= n
    BY <1>1, <2>3
  <2>8. PICK d \in Nat : d = DataBefore(length, n)
    BY <1>0, <1>1, <2>7, DataGrows
  <2>9. c + q <= d
    BY <1>0, <1>1, <2>3, <2>6, <2>7, <2>8, DataGrows
  <2>10. Len(got) = c + y
    BY <1>2, <1>3, <2>5 DEF Reading
  <2>11. Len(got) = d
    BY <1>0, <1>1, <2>8, DataGrows DEF Verified
  <2>12. y < q
    BY <2>2, <2>3, <2>4
  <2> QED BY <2>9, <2>10, <2>11, <2>12
<1>5. PICK t \in Nat : t = Sum(length)
  BY <1>0, HoleRight
<1>6. PICK last \in Nat : last = last_offset
  BY <1>0, PositionBounds
<1>7. Extent = t
  <2>1. CASE IN_HOLE(n)
    <3>1. Hole = 0 /\ last = t
      BY <1>0, <1>1, <1>2, <1>4, <1>5, <1>6, <2>1, HoleRight, PositionBounds
    <3> QED BY <1>6, <3>1 DEF Extent
  <2>2. CASE ~IN_HOLE(n)
    BY <1>0, <1>1, <1>5, <2>2, HoleRight DEF Extent
  <2> QED BY <2>1, <2>2
<1>8. last <= t
  <2>1. PICK p \in Nat : p = Sums(length)[rd.map_ix]
    BY <1>0, PositionBounds
  <2>2. last <= p + y /\ p + y <= t
    BY <1>0, <1>3, <1>5, <1>6, <2>1, PositionBounds
  <2> QED BY <2>2
<1> QED BY <1>1, <1>2, <1>4, <1>5, <1>6, <1>7, <1>8

LEMMA Finish ==
  ASSUME ApplyInv, w.ok, finish
  PROVE  ApplyInv' /\ w'.ok
<1>1. pc = "check"
  BY DEF finish
<1>2. UNCHANGED input /\ length' = length /\ data' = data /\ damage' = damage /\ blake2b' = blake2b
  BY DEF finish, archive
<1>3. sink' = sink /\ rd' = rd /\ got' = got /\ last_offset' = last_offset /\ units' = units
  BY DEF finish
<1>4. /\ Delivered /\ sink \in Functions5 /\ Reading /\ Placed /\ Written(w, Extent)
      /\ units = Reported(last_offset + Hole)
      /\ damage = "none" => got = blake2b
  BY <1>1 DEF ApplyInv, Applying
<1>5. \/ ~Verified /\ pc' = "failed" /\ w' = w
      \/ /\ Verified
         /\ w' = (IF sink = "raw" THEN ptbw_flush(w) ELSE w)
         /\ pc' = IF sink = "ubi" /\ Len(w.out) # sparse_file_size(length) THEN "failed" ELSE "done"
  BY DEF finish
<1>6. CASE ~Verified
  <2>1. pc' = "failed" /\ w' = w
    BY <1>5, <1>6
  <2>2. damage # "none"
    BY <1>4, <1>6 DEF Verified, Delivered
  <2>3. Excused'
    BY <1>2, <2>2 DEF Excused
  <2> QED BY <2>1, <2>3 DEF ApplyInv
<1>7. CASE Verified
  <2>1. PICK n \in Nat : n = Extent /\ n = Sum(length) /\ last_offset <= n
    BY <1>4, <1>7, AtEnd
  <2>2. PICK last \in Nat : last = last_offset
    BY <1>4, <1>7, AtEnd
  <2>3. MapOk(length)
    BY <1>4 DEF Delivered, LengthOk
  <2>4. sparse_file_size(length) = n
    BY <2>1, <2>3, HoleRight
  <2>5. pc' = "done"
    <3>1. sink = "ubi" => Len(w.out) = n
      BY <1>4, <2>1 DEF Written, Plain
    <3> QED BY <1>5, <1>7, <2>4, <3>1
  <2>6. PICK u : u = w'
    OBVIOUS
  <2>7. Flushed(u, n) /\ Zeroed(u, w, n)
    <3>1. CASE sink = "raw"
      <4>1. RawWriter(w, n) /\ u = ptbw_flush(w)
        BY <1>4, <1>5, <1>7, <2>1, <2>6, <3>1 DEF Written
      <4>2. PICK m \in Nat : RawWriter(u, m) /\ u.index = 0 /\ n <= m /\ Behind(u.out, n) /\ Puts(u, w, <<>>, 0, n)
        BY <4>1, FlushRight
      <4>3. n <= Len(u.out)
        <5>1. u.out \in Bytes /\ m <= Len(u.out)
          BY <4>2 DEF RawWriter, WriterState
        <5> QED BY <4>2, <5>1, BytesLen
      <4>4. Zeroed(u, w, n)
        <5>1. \A i \in Nat \ {0} : i \notin 0 + 1 .. 0 + 0
          OBVIOUS
        <5> QED BY <4>2, <5>1, NoBytes DEF Puts, Zeroed
      <4> QED BY <3>1, <4>2, <4>3, <4>4 DEF Flushed, RawWriter
    <3>2. CASE sink # "raw"
      <4>1. Plain(w, n) /\ u = w
        BY <1>4, <1>5, <1>7, <2>1, <2>6, <3>2 DEF Written
      <4>2. Zeroed(u, w, n)
        BY <4>1 DEF Zeroed
      <4> QED BY <3>2, <4>1, <4>2 DEF Flushed, Plain
    <3> QED BY <3>1, <3>2
  <2>8. PlacedIn(w, got, length, last) /\ RestOf(w, length, last, sink)
    BY <1>4, <2>2 DEF Placed
  <2>9. last <= n
    BY <2>1, <2>2
  <2>10. PlacedIn(u, got, length, last) /\ RestOf(u, length, last, sink)
    BY <2>3, <2>7, <2>8, <2>9, PlacedZeroed DEF MapOk
  <2>11. Placed'
    BY <1>2, <1>3, <2>2, <2>6, <2>10 DEF Placed
  <2>12. Delivered'
    BY <1>2, <1>4, DeliveredKept DEF Delivered
  <2>13. Reading'
    BY <1>2, <1>3, <1>4 DEF Reading
  <2>14. Verified'
    BY <1>2, <1>3, <1>7 DEF Verified
  <2>15. Flushed(w, Extent)'
    <3>1. (Extent') = n
      BY <1>2, <1>3, <2>1 DEF Extent, Hole
    <3> QED BY <1>3, <2>6, <2>7, <3>1 DEF Flushed
  <2>16. (units = Reported(last_offset + Hole))'
    BY <1>2, <1>3, <1>4 DEF Reported, count_holes, Hole
  <2>17. w'.ok
    BY <2>6, <2>7 DEF Flushed
  <2> QED BY <1>2, <1>3, <1>4, <2>5, <2>11, <2>12, <2>13, <2>14, <2>15, <2>16, <2>17 DEF ApplyInv, Applying
<1> QED BY <1>6, <1>7

LEMMA Starts ==
  ASSUME ApplyInv, w.ok, StartResource
  PROVE  ApplyInv' /\ w'.ok
<1>1. pc = "header"
  BY DEF StartResource
<1>2. UNCHANGED input /\ length' = length /\ data' = data /\ damage' = damage /\ blake2b' = blake2b
  BY DEF StartResource, archive
<1>3. got' = got /\ last_offset' = last_offset /\ units' = units
  BY DEF StartResource
<1>4. Delivered /\ got = <<>> /\ last_offset = 0 /\ units = 0 /\ (damage = "none" => data = blake2b)
  BY <1>1 DEF ApplyInv, Fresh
<1>5. MapOk(length)
  BY <1>4 DEF Delivered, LengthOk
<1>6. \/ Len(length) = 1 /\ Len(data) # sparse_file_data_size(length) /\ pc' = "failed" /\ w' = w /\ sink' = sink
      \/ \E s \in Sinks : /\ sink' = s /\ w' = ptbw_init(IF s = "raw" THEN [i \in 1 .. DestLen |-> Old] ELSE <<>>)
                          /\ rd' = StartOfData /\ pc' = "read"
  BY Zenon DEF StartResource
<1>7. CASE Len(length) = 1 /\ Len(data) # sparse_file_data_size(length) /\ pc' = "failed" /\ w' = w /\ sink' = sink
  <2>1. damage # "none"
    BY <1>4, <1>7 DEF Delivered
  <2>2. Excused'
    BY <1>2, <2>1 DEF Excused
  <2> QED BY <1>7, <2>2 DEF ApplyInv
<1>8. ASSUME NEW s \in Sinks, sink' = s, pc' = "read", rd' = StartOfData,
             w' = ptbw_init(IF s = "raw" THEN [i \in 1 .. DestLen |-> Old] ELSE <<>>)
      PROVE  ApplyInv' /\ w'.ok
  <2>1. s \in Functions5 /\ DestLen \in Nat
    BY ResourceAssumption DEF Functions5
  <2>2. PICK o : o = IF s = "raw" THEN [i \in 1 .. DestLen |-> Old] ELSE <<>>
    OBVIOUS
  <2>3. o \in Bytes /\ \A i \in 1 .. Len(o) : s = "raw" /\ o[i] = Old
    <3>1. CASE s = "raw"
      <4>1. o = [i \in 1 .. DestLen |-> Old]
        BY <2>2, <3>1
      <4>2. o \in [1 .. DestLen -> Int] /\ \A i \in 1 .. DestLen : o[i] = Old
        BY <4>1 DEF Old
      <4>3. o \in Seq(Int) /\ Len(o) = DestLen
        BY <2>1, <4>2
      <4> QED BY <3>1, <4>2, <4>3 DEF Bytes
    <3>2. CASE s # "raw"
      <4>1. o = <<>>
        BY <2>2, <3>2
      <4> QED BY <4>1, NoBytes
    <3> QED BY <3>1, <3>2
  <2>4. PICK u : u = w'
    OBVIOUS
  <2>5. u = [buffer |-> <<>>, index |-> 0, offset |-> 0, out |-> o, ok |-> TRUE]
    BY <1>8, <2>2, <2>4 DEF ptbw_init
  <2>6. u \in WriterState /\ u.ok /\ u.index = 0 /\ u.offset = 0 /\ u.out = o /\ u.buffer = <<>>
    <3>1. [buffer |-> <<>>, index |-> 0, offset |-> 0, out |-> o, ok |-> TRUE] \in WriterState
      BY <2>3, NoBytes DEF WriterState
    <3> QED BY <2>5, <3>1
  <2>7. Len(o) \in Nat
    BY <2>3, BytesLen
  <2>8. Written(w, last_offset)'
    <3>1. CASE s = "raw"
      <4>1. Behind(u.out, 0)
        BY <2>3, <2>6 DEF Behind
      <4>2. RawWriter(u, 0)
        BY <2>6, <2>7, <4>1, AlignedBlock, Multiple, NoBytes DEF RawWriter
      <4> QED BY <1>3, <1>4, <1>8, <2>4, <3>1, <4>2 DEF Written
    <3>2. CASE s # "raw"
      <4>1. Len(o) = 0
        <5>1. 1 \notin 1 .. Len(o)
          BY <2>3, <3>2
        <5> QED BY <2>7, <5>1
      <4>2. Plain(u, 0)
        BY <2>6, <4>1 DEF Plain
      <4> QED BY <1>3, <1>4, <1>8, <2>4, <3>2, <4>2 DEF Written
    <3> QED BY <3>1, <3>2
  <2>9. PlacedIn(u, <<>>, length, 0)
    <3> SUFFICES ASSUME NEW e \in 1 .. Len(length), ~IN_HOLE(e - 1), NEW i \in Entry(length, e), i <= 0 PROVE FALSE
      BY DEF PlacedIn
    <3>1. i \in Nat \ {0}
      BY <1>5, PlaceIn DEF MapOk
    <3> QED BY <3>1
  <2>10. RestOf(u, length, 0, s)
    <3> SUFFICES ASSUME NEW i \in Nat \ {0} PROVE Shown(u, i) = 0 \/ (s = "raw" /\ Shown(u, i) = Old)
      BY DEF RestOf
    <3>1. Shown(u, i) = IF i <= Len(o) THEN o[i] ELSE 0
      BY <2>6 DEF Shown, Buffered, At
    <3>2. i <= Len(o) => i \in 1 .. Len(o)
      BY <2>7
    <3> QED BY <2>3, <3>1, <3>2
  <2>11. Placed'
    BY <1>2, <1>3, <1>4, <1>8, <2>4, <2>9, <2>10 DEF Placed
  <2>12. PICK r : r = rd'
    OBVIOUS
  <2>13. /\ r \in Reader /\ r.leftover = <<>> /\ Position(length, r.map_ix, r.in_block, 0)
         /\ r.map_ix < Len(length) => r.actual = Sums(length)[r.map_ix] + r.in_block
         /\ DataBefore(length, r.map_ix) + r.in_block = 0
    <3>0. r = StartOfData /\ Len(length) \in Nat
      BY <1>5, <1>8, <2>12, ManyEntries
    <3>1. CASE length[1] # 0
      <4>1. r = [map_ix |-> 0, in_block |-> 0, actual |-> 0, leftover |-> <<>>]
        BY <3>0, <3>1 DEF StartOfData
      <4>2. Position(length, 0, 0, 0) /\ Sums(length)[0] = 0 /\ DataBefore(length, 0) = 0
        BY <1>5, <3>1, Started
      <4> QED BY <4>1, <4>2, NoBytes DEF Reader
    <3>2. CASE length[1] = 0 /\ Len(length) > 2
      <4>1. PICK h \in Nat : h = length[2]
        BY <1>5, <3>2, Started
      <4>2. r = [map_ix |-> 2, in_block |-> 0, actual |-> h, leftover |-> <<>>]
        BY <3>0, <3>2, <4>1 DEF StartOfData
      <4>3. Position(length, 2, 0, 0) /\ DataBefore(length, 2) = 0 /\ Sums(length)[2] = h
        BY <1>5, <3>2, <4>1, Started
      <4>4. r \in Reader
        BY <4>2, NoBytes DEF Reader
      <4> QED BY <4>1, <4>2, <4>3, <4>4
    <3>3. CASE length[1] = 0 /\ ~(Len(length) > 2)
      <4>1. PICK n \in Nat : n = Len(length)
        BY <3>0
      <4>2. r = [map_ix |-> n, in_block |-> 0, actual |-> 0, leftover |-> <<>>]
        BY <3>0, <3>3, <4>1 DEF StartOfData
      <4>3. Position(length, n, 0, 0) /\ DataBefore(length, n) = 0 /\ ~(n < Len(length))
        BY <1>5, <3>3, <4>1, Started
      <4>4. r \in Reader
        BY <4>2, NoBytes DEF Reader
      <4> QED BY <4>1, <4>2, <4>3, <4>4
    <3> QED BY <3>1, <3>2, <3>3
  <2>14. (damage = "none" => got \o rd.leftover \o data = blake2b)'
    <3> SUFFICES ASSUME damage = "none" PROVE <<>> \o <<>> \o data = blake2b
      BY <1>2, <1>3, <1>4, <2>12, <2>13
    <3>1. PICK d \in Bytes : d = data
      BY <1>4 DEF Delivered
    <3>2. <<>> \o d = d /\ <<>> \o <<>> = <<>>
      BY ConcatEmptySeq, NoBytes DEF Bytes
    <3> QED BY <1>4, <3>1, <3>2
  <2>15. Reading'
    <3>1. Len(<<>>) = 0 /\ <<>> \in Bytes
      BY NoBytes
    <3> QED BY <1>2, <1>3, <1>4, <2>12, <2>13, <2>14, <3>1 DEF Reading
  <2>16. Delivered'
    BY <1>2, <1>4, DeliveredKept DEF Delivered
  <2>17. (units = Reported(last_offset))'
    BY <1>3, <1>4, NoBytes DEF Reported
  <2> QED BY <1>8, <2>1, <2>4, <2>6, <2>8, <2>11, <2>15, <2>16, <2>17 DEF ApplyInv, Applying
<1> QED BY <1>6, <1>7, <1>8

----------------------------------------------------------------------------
(* The invariant of the create side                                        *)

\* Where in the files the work has come to.
Where ==
  /\ file \in 1 .. Len(files) + 1 /\ offset \in Nat
  /\ file <= Len(files) => offset <= Len(files[file])
  /\ file > Len(files) => offset = 0
Here == Before(file) + offset
Ahead == offset < Len(files[file])

\* A map that is being built covers the files up to byte h, together with the
\* part l of its next entry.
NoData(a, b) == \A i \in a + 1 .. b : ~Whole[i]
Partial(m) == m = <<>> \/ MapOk(m)
BuiltTo(m, l, h) ==
  /\ Partial(m) /\ l \in Nat /\ h \in Nat /\ Sum(m) + l <= h
  /\ ~BadConcat => /\ Sum(m) + l = h /\ HolesOk(m)
                   /\ IN_HOLE(Len(m)) => NoData(Sum(m), h)

\* An entry that is not the first has at least a byte: what was left over, or
\* the byte ahead is not what the entry is to end with.
Seeking ==
  /\ leftover > 0 => offset = 0
  /\ leftover = 0 /\ map # <<>> =>
       /\ Ahead => files[file][offset + 1] # IN_HOLE(Len(map))
       /\ IN_HOLE(Len(map)) \/ Ahead

Building ==
  /\ Where /\ BuiltTo(map, leftover, Here) /\ data = <<>> /\ started \in BOOLEAN
  /\ pc = "open" => /\ leftover = 0 /\ offset = 0 /\ Len(map) < MapMax
                    /\ ~skip_holes => Len(map) <= 1
                    /\ ~started => map = <<>>
  /\ pc # "open" => started /\ file <= Len(files) /\ Len(map) <= MapMax - 2
  /\ pc = "seek" => skip_holes /\ Seeking
  /\ pc = "end" => /\ ~IN_HOLE(Len(map)) /\ (~skip_holes => map = <<>>)
                   /\ leftover > 0 \/ map = <<>> \/ Ahead

\* d has the data up to y bytes into entry x + 1.
Copied(d, m, x, y) ==
  /\ x \in 0 .. Len(m) /\ y \in Nat
  /\ x < Len(m) => y <= m[x + 1]
  /\ x = Len(m) => y = 0
  /\ d \in Bytes /\ Len(d) = DataBefore(m, x) + IF IN_HOLE(x) THEN 0 ELSE y
  /\ DataOk(d, m, Sums(m)[x] + y)
Copying ==
  /\ Where /\ LengthOk
  /\ it \in [map_ix : Nat, in_segment : Nat]
  /\ Copied(data, length, it.map_ix, it.in_segment)
  /\ it.map_ix < Len(length) => Here = Sums(length)[it.map_ix] + it.in_segment

CreateInv ==
  /\ pc \in {"open", "seek", "end"} => Building /\ Fresh
  /\ pc = "copy" => Copying /\ Fresh

LEMMA HereBounds ==
  ASSUME Inputs, Where
  PROVE  /\ Here \in Nat /\ Before(file) \in Nat /\ Here <= Total /\ Total \in Nat
         /\ file > Len(files) => file = Len(files) + 1 /\ Here = Total
         /\ file <= Len(files) => /\ file \in 1 .. Len(files) /\ Len(files[file]) \in Nat
                                  /\ Before(file + 1) = Before(file) + Len(files[file])
<1>1. PICK n \in Nat \ {0} : n = Len(files)
  BY FilesTyped
<1>2. file \in 1 .. n + 1 /\ offset \in Nat
  BY <1>1 DEF Where
<1>3. PICK b \in Nat : b = Before(file) /\ b <= Total
  BY <1>1, <1>2, BeforeGrows
<1>4. PICK t \in Nat : t = Total
  BY BeforeGrows
<1>5. CASE file > n
  <2>1. file = n + 1 /\ offset = 0
    BY <1>1, <1>2, <1>5 DEF Where
  <2>2. b = t
    BY <1>1, <1>3, <1>4, <2>1 DEF Total
  <2> QED BY <1>1, <1>3, <1>4, <1>5, <2>1, <2>2 DEF Here
<1>6. CASE ~(file > n)
  <2>1. file \in 1 .. n /\ file <= n
    BY <1>2, <1>6
  <2>2. PICK l \in Nat : l = Len(files[file])
    BY <1>1, <2>1, FilesTyped
  <2>3. offset <= l
    BY <1>1, <2>1, <2>2 DEF Where
  <2>4. PICK x \in 1 .. n + 1 : x = file + 1
    BY <2>1
  <2>5. Before(x) = b + l
    BY <1>1, <1>3, <2>1, <2>2, <2>4, BeforeGrows
  <2>6. b + l <= t
    BY <1>1, <1>4, <2>4, <2>5, BeforeGrows
  <2>7. b + offset \in Nat /\ b + offset <= t
    BY <1>2, <2>3, <2>6
  <2> QED BY <1>1, <1>3, <1>4, <1>6, <2>1, <2>2, <2>4, <2>5, <2>7 DEF Here
<1> QED BY <1>5, <1>6

\* The next file
LEMMA NextWhere ==
  ASSUME Inputs, Where, file <= Len(files), UNCHANGED input, file' = file + 1, offset' = 0
  PROVE  Where' /\ Here' = Here + (Len(files[file]) - offset)
<1>1. PICK n \in Nat \ {0} : n = Len(files)
  BY FilesTyped
<1>2. file \in 1 .. n /\ Len(files[file]) \in Nat /\ offset \in Nat
  BY <1>1, HereBounds DEF Where
<1>3. PICK b \in Nat : b = Before(file)
  BY HereBounds
<1>4. PICK l \in Nat : l = Len(files[file])
  BY <1>2
<1>5. Before(file + 1) = b + l
  BY <1>3, <1>4, HereBounds
<1>6. PICK g : g = file'
  OBVIOUS
<1>7. g = file + 1
  BY <1>6
<1>8. Before(g)' = Before(g)
  BY FilesKept
<1>9. Here' = b + l
  <2>1. Here' = Before(g)' + 0
    BY <1>6 DEF Here
  <2>2. Before(g) = b + l
    BY <1>5, <1>7
  <2> QED BY <1>8, <2>1, <2>2
<1>10. Here = b + offset
  BY <1>3 DEF Here
<1>11. Where'
  <2>1. files' = files
    BY DEF input
  <2>2. g \in 1 .. n + 1
    BY <1>2, <1>7
  <2>3. g <= n => offset' <= Len(files[g])
    <3> SUFFICES ASSUME g <= n PROVE 0 <= Len(files[g])
      OBVIOUS
    <3>1. g \in 1 .. n
      BY <2>2
    <3>2. Len(files[g]) \in Nat
      BY <1>1, <3>1, FilesTyped
    <3> QED BY <3>2
  <2> QED BY <1>1, <1>6, <2>1, <2>2, <2>3 DEF Where
<1>12. PICK o \in Nat : o = offset
  BY <1>2
<1>13. b + l = (b + o) + (l - o)
  OBVIOUS
<1>14. Here' = Here + (l - o)
  BY <1>9, <1>10, <1>12, <1>13
<1> QED BY <1>4, <1>11, <1>12, <1>14

\* n bytes on in the same file
LEMMA OnWhere ==
  ASSUME Inputs, Where, file <= Len(files), UNCHANGED input, file' = file, NEW n \in Nat,
         n <= Len(files[file]) - offset, offset' = offset + n
  PROVE  Where' /\ Here' = Here + n
<1>1. PICK l \in Nat : l = Len(files[file])
  BY HereBounds
<1>2. offset \in Nat /\ offset + n <= l /\ file \in 1 .. Len(files) + 1
  BY <1>1 DEF Where
<1>3. files' = files /\ Before(file)' = Before(file)
  BY FilesKept
<1>4. PICK g : g = file
  OBVIOUS
<1>5. PICK b \in Nat : b = Before(file)
  BY HereBounds
<1>6. Before(g)' = b
  BY <1>4, <1>5, FilesKept
<1>7. Here' = b + (offset + n)
  BY <1>4, <1>6 DEF Here
<1>8. Here = b + offset
  BY <1>5 DEF Here
<1>9. Where'
  <2>1. file' = file /\ files' = files /\ offset' = offset + n /\ offset + n \in Nat /\ offset + n <= Len(files[file])
    BY <1>1, <1>2, <1>3
  <2>2. Len(files) \in Nat
    BY FilesTyped
  <2> QED BY <1>2, <2>1, <2>2 DEF Where
<1> QED BY <1>2, <1>7, <1>8, <1>9

LEMMA SameWhere ==
  ASSUME Where, UNCHANGED input, file' = file, offset' = offset
  PROVE  Where' /\ Here' = Here
<1>1. files' = files
  BY DEF input
<1>2. Where'
  BY <1>1 DEF Where
<1>3. Here' = Here
  BY <1>1 DEF Here, Before
<1> QED BY <1>2, <1>3

\* A byte of the file that is being read
LEMMA ByteHere ==
  ASSUME Inputs, Where, file <= Len(files), NEW k \in Nat \ {0}, offset + k <= Len(files[file])
  PROVE  /\ offset + k \in 1 .. Len(files[file]) /\ Here + k = Before(file) + offset + k
         /\ Whole[Here + k] = files[file][offset + k] /\ files[file][offset + k] \in BOOLEAN
<1>1. PICK l \in Nat : l = Len(files[file])
  BY HereBounds
<1>2. PICK b \in Nat : b = Before(file)
  BY HereBounds
<1>3. offset \in Nat
  BY DEF Where
<1>4. PICK q \in 1 .. l : q = offset + k
  BY <1>1, <1>3
<1>5. b + q = (b + offset) + k
  BY <1>3, <1>4
<1>6. file \in 1 .. Len(files)
  BY HereBounds
<1>7. Whole[b + q] = files[file][q]
  BY <1>1, <1>2, <1>4, <1>6, WholeAt
<1>8. files[file][q] \in BOOLEAN
  BY <1>1, <1>4, <1>6, FilesTyped
<1> QED BY <1>1, <1>2, <1>4, <1>5, <1>7, <1>8 DEF Here

\* What lseek finds
Finds(f, off, kind, k) ==
  /\ k \in Int
  /\ k < 0 => off >= Len(f) \/ (kind /\ \A l \in off + 1 .. Len(f) : ~f[l])
  /\ ~(k < 0) => /\ off < Len(f) /\ k \in off .. Len(f) /\ k \in Nat
                 /\ \A l \in off + 1 .. k : f[l] # kind
                 /\ k = Len(f) => ~kind
                 /\ k < Len(f) => f[k + 1] = kind

LEMMA Found ==
  ASSUME NEW f \in Seq(BOOLEAN), NEW off \in Nat, NEW kind \in BOOLEAN
  PROVE  Finds(f, off, kind, FirstFrom(f, off, kind))
<1>0. PICK k : k = FirstFrom(f, off, kind)
  OBVIOUS
<1>1. PICK n \in Nat : n = Len(f)
  BY LenProperties
<1>2. \A l \in 1 .. n : f[l] \in BOOLEAN
  BY <1>1, ElementOfSeq
<1> DEFINE S == {l \in off .. n : IF l = n THEN ~kind ELSE f[l + 1] = kind}
<1>3. k = IF off >= n \/ S = {} THEN -1 ELSE CHOOSE x \in S : \A l \in S : x <= l
  BY <1>0, <1>1 DEF FirstFrom
<1>4. S \subseteq Nat /\ \A l \in off .. n : l \in S <=> IF l = n THEN ~kind ELSE f[l + 1] = kind
  BY <1>1
<1> HIDE DEF S
<1>5. ASSUME off >= n PROVE Finds(f, off, kind, k)
  BY <1>1, <1>3, <1>5 DEF Finds
<1>6. ASSUME ~(off >= n) /\ S = {} PROVE Finds(f, off, kind, k)
  <2>1. n \in off .. n
    BY <1>6
  <2>2. kind = TRUE
    BY <1>4, <1>6, <2>1
  <2>3. ASSUME NEW l \in off + 1 .. n PROVE ~f[l]
    <3>1. PICK j \in off .. n : j = l - 1 /\ j # n /\ j + 1 = l /\ l \in 1 .. n
      OBVIOUS
    <3>2. f[j + 1] # kind
      BY <1>4, <1>6, <3>1
    <3> QED BY <1>2, <2>2, <3>1, <3>2
  <2> QED BY <1>1, <1>3, <1>6, <2>2, <2>3 DEF Finds
<1>7. ASSUME ~(off >= n) /\ S # {} PROVE Finds(f, off, kind, k)
  <2>1. PICK x \in S : \A l \in S : x <= l
    BY <1>4, <1>7, LeastNumber
  <2>2. k \in S /\ \A l \in S : k <= l
    BY <1>3, <1>7, <2>1
  <2>3. k \in off .. n /\ k \in Nat
    BY <2>2 DEF S
  <2>4. IF k = n THEN ~kind ELSE f[k + 1] = kind
    BY <1>4, <2>2, <2>3
  <2>5. ASSUME NEW l \in off + 1 .. k PROVE f[l] # kind
    <3>1. PICK j \in off .. n : j = l - 1 /\ j # n /\ j + 1 = l /\ ~(k <= j)
      BY <2>3
    <3> QED BY <1>4, <2>2, <3>1
  <2> QED BY <1>1, <1>7, <2>3, <2>4, <2>5 DEF Finds
<1> QED BY <1>0, <1>5, <1>6, <1>7

----------------------------------------------------------------------------
(* The map grows                                                           *)

LEMMA PartialTyped ==
  ASSUME NEW m, Partial(m)
  PROVE  /\ m \in Seq(Nat) /\ Len(m) \in Nat /\ Sum(m) \in Nat /\ (m = <<>> <=> Len(m) = 0)
         /\ \A k \in 2 .. Len(m) : m[k] > 0
<1>1. m \in Seq(Nat)
  BY EmptySeq DEF Partial, MapOk
<1>2. Len(m) \in Nat /\ (m = <<>> <=> Len(m) = 0)
  BY <1>1, LenProperties, EmptySeq
<1>3. Sum(m) \in Nat
  BY <1>1, <1>2, SumsNat DEF Sum
<1>4. \A k \in 2 .. Len(m) : m[k] > 0
  <2>1. CASE m = <<>>
    <3>1. Len(m) = 0
      BY <1>2, <2>1
    <3> QED BY <3>1
  <2>2. CASE MapOk(m)
    BY <2>2 DEF MapOk
  <2> QED BY <2>1, <2>2 DEF Partial
<1> QED BY <1>1, <1>2, <1>3, <1>4

LEMMA PartialAppend ==
  ASSUME NEW m, Partial(m), NEW x \in Nat, m = <<>> \/ x > 0
  PROVE  MapOk(Append(m, x))
<1>1. m \in Seq(Nat)
  BY PartialTyped
<1>2. PICK n \in Nat : n = Len(m) /\ (m = <<>> => n = 0)
  BY PartialTyped
<1>3. PICK t : t = Append(m, x)
  OBVIOUS
<1>4. /\ t \in Seq(Nat) /\ Len(t) = n + 1 /\ t[n + 1] = x
      /\ \A k \in 1 .. n : t[k] = m[k]
  BY <1>1, <1>2, <1>3, SumsAppend
<1>5. t # <<>>
  <2>1. n + 1 # 0 /\ Len(<<>>) = 0
    BY EmptySeq
  <2> QED BY <1>4, <2>1
<1>6. ASSUME NEW k \in 2 .. Len(t) PROVE t[k] > 0
  <2>1. CASE k = n + 1
    <3>1. n # 0
      BY <1>4, <2>1
    <3> QED BY <1>2, <1>4, <2>1, <3>1
  <2>2. CASE k # n + 1
    <3>1. k \in 2 .. n /\ k \in 1 .. n
      BY <1>4, <2>2
    <3>2. m[k] > 0
      BY <1>2, <3>1, PartialTyped
    <3> QED BY <1>4, <3>1, <3>2
  <2> QED BY <2>1, <2>2
<1> QED BY <1>3, <1>4, <1>5, <1>6 DEF MapOk

LEMMA HolesAppend ==
  ASSUME NEW m \in Seq(Nat), NEW x \in Nat, HolesOk(m), IN_HOLE(Len(m)) => NoData(Sum(m), Sum(m) + x)
  PROVE  HolesOk(Append(m, x))
<1>1. PICK n \in Nat : n = Len(m)
  BY LenProperties
<1>2. PICK t : t = Append(m, x)
  OBVIOUS
<1>3. /\ Len(t) = n + 1
      /\ \A k \in 0 .. n : Sums(t)[k] = Sums(m)[k]
      /\ Sums(t)[n + 1] = Sum(m) + x
  BY <1>1, <1>2, SumsAppend
<1>4. Sum(m) = Sums(m)[n]
  BY <1>1 DEF Sum
<1>5. ASSUME NEW e \in 1 .. n + 1, IN_HOLE(e - 1), NEW i \in Entry(t, e)
      PROVE  ~Whole[i]
  <2>1. CASE e = n + 1
    <3>1. e - 1 = n /\ n \in 0 .. n
      BY <2>1
    <3>2. Entry(t, e) = Sum(m) + 1 .. Sum(m) + x
      BY <1>3, <1>4, <2>1, <3>1 DEF Entry
    <3> QED BY <1>1, <1>5, <3>1, <3>2 DEF NoData
  <2>2. CASE e # n + 1
    <3>1. e \in 1 .. n /\ e - 1 \in 0 .. n /\ e \in 0 .. n
      BY <2>2
    <3>2. Entry(t, e) = Entry(m, e)
      BY <1>3, <3>1 DEF Entry
    <3> QED BY <1>1, <1>5, <3>1, <3>2 DEF HolesOk
  <2> QED BY <2>1, <2>2
<1> QED BY <1>2, <1>3, <1>5 DEF HolesOk

\* An entry that ends n bytes on from h
LEMMA BuiltAppend ==
  ASSUME NEW m, NEW l, NEW h, BuiltTo(m, l, h), NEW n \in Nat, m = <<>> \/ n + l > 0,
         IN_HOLE(Len(m)) => NoData(h, h + n)
  PROVE  /\ BuiltTo(Append(m, n + l), 0, h + n) /\ MapOk(Append(m, n + l))
         /\ Len(Append(m, n + l)) = Len(m) + 1
<1>1. Partial(m) /\ l \in Nat /\ h \in Nat /\ Sum(m) + l <= h
  BY DEF BuiltTo
<1>2. m \in Seq(Nat) /\ Len(m) \in Nat
  BY <1>1, PartialTyped
<1>3. PICK x \in Nat : x = n + l
  BY <1>1
<1>4. PICK s \in Nat : s = Sum(m)
  BY <1>1, PartialTyped
<1>5. PICK t : t = Append(m, x)
  OBVIOUS
<1>6. Len(t) = Len(m) + 1 /\ Sum(t) = s + x
  BY <1>2, <1>4, <1>5, SumsAppend DEF Sum
<1>7. MapOk(t)
  BY <1>1, <1>3, <1>5, PartialAppend
<1>8. s + x + 0 <= h + n /\ (s + l = h => s + x + 0 = h + n)
  BY <1>1, <1>3, <1>4
<1>9. ASSUME ~BadConcat PROVE /\ Sum(t) + 0 = h + n /\ HolesOk(t)
                              /\ IN_HOLE(Len(t)) => NoData(Sum(t), h + n)
  <2>1. s + l = h /\ HolesOk(m) /\ (IN_HOLE(Len(m)) => NoData(s, h))
    BY <1>4, <1>9 DEF BuiltTo
  <2>2. s + x = h + n
    BY <1>1, <1>3, <2>1
  <2>3. ASSUME IN_HOLE(Len(m)) PROVE NoData(s, s + x)
    <3> SUFFICES ASSUME NEW i \in s + 1 .. s + x PROVE ~Whole[i]
      BY DEF NoData
    <3>1. NoData(s, h) /\ NoData(h, h + n)
      BY <2>1, <2>3
    <3>2. i \in s + 1 .. h \/ i \in h + 1 .. h + n
      BY <1>1, <2>2
    <3> QED BY <3>1, <3>2 DEF NoData
  <2>4. HolesOk(t)
    BY <1>2, <1>4, <1>5, <2>1, <2>3, HolesAppend
  <2>5. NoData(Sum(t), h + n)
    <3>1. Sum(t) = h + n /\ \A i \in (h + n) + 1 .. h + n : FALSE
      BY <1>1, <1>6, <2>2
    <3> QED BY <3>1 DEF NoData
  <2> QED BY <1>6, <1>8, <2>1, <2>4, <2>5
<1>10. BuiltTo(t, 0, h + n)
  BY <1>1, <1>6, <1>7, <1>8, <1>9 DEF BuiltTo, Partial
<1> QED BY <1>3, <1>5, <1>6, <1>7, <1>10

\* A further file takes the last entry back.
LEMMA BuiltFront ==
  ASSUME NEW m, NEW h, BuiltTo(m, 0, h), m # <<>>
  PROVE  BuiltTo(Front(m), Last(m), h)
<1>1. Partial(m) /\ h \in Nat /\ Sum(m) + 0 <= h
  BY DEF BuiltTo
<1>2. m \in Seq(Nat)
  BY <1>1, PartialTyped
<1>3. PICK n \in Nat \ {0} : n = Len(m)
  BY <1>2, SumsFront
<1>4. PICK t : t = Front(m)
  OBVIOUS
<1>5. PICK l \in Nat : l = Last(m)
  BY <1>2, SumsFront
<1>6. /\ t \in Seq(Nat) /\ Len(t) = n - 1 /\ l = m[n]
      /\ \A k \in 1 .. n - 1 : t[k] = m[k]
      /\ \A k \in 0 .. n - 1 : Sums(t)[k] = Sums(m)[k]
      /\ Sum(m) = Sum(t) + l
  BY <1>2, <1>3, <1>4, <1>5, SumsFront
<1>7. Partial(t)
  <2> SUFFICES ASSUME t # <<>> PROVE MapOk(t)
    BY DEF Partial
  <2>1. \A k \in 2 .. n : m[k] > 0
    BY <1>1, <1>3, PartialTyped
  <2>2. \A k \in 2 .. n - 1 : t[k] > 0
    <3> SUFFICES ASSUME NEW k \in 2 .. n - 1 PROVE t[k] > 0
      OBVIOUS
    <3>1. k \in 1 .. n - 1 /\ k \in 2 .. n
      OBVIOUS
    <3> QED BY <1>6, <2>1, <3>1
  <2> QED BY <1>6, <2>2 DEF MapOk
<1>8. PICK s \in Nat : s = Sum(t)
  BY <1>7, PartialTyped
<1>9. s + l <= h
  BY <1>1, <1>6, <1>8
<1>10. ASSUME ~BadConcat PROVE /\ s + l = h /\ HolesOk(t)
                               /\ IN_HOLE(Len(t)) => NoData(s, h)
  <2>1. Sum(m) + 0 = h /\ HolesOk(m)
    BY <1>10 DEF BuiltTo
  <2>2. s + l = h
    BY <1>6, <1>8, <2>1
  <2>3. HolesOk(t)
    <3> SUFFICES ASSUME NEW e \in 1 .. n - 1, IN_HOLE(e - 1), NEW i \in Entry(t, e) PROVE ~Whole[i]
      BY <1>6 DEF HolesOk
    <3>1. e \in 1 .. n /\ e - 1 \in 0 .. n - 1 /\ e \in 0 .. n - 1
      BY <1>3
    <3>2. Entry(t, e) = Entry(m, e)
      BY <1>6, <3>1 DEF Entry
    <3> QED BY <1>3, <2>1, <3>1, <3>2 DEF HolesOk
  <2>4. ASSUME IN_HOLE(Len(t)) PROVE NoData(s, h)
    <3>1. n \in 1 .. n /\ IN_HOLE(n - 1) /\ n - 1 \in 0 .. n - 1
      BY <1>6, <2>4
    <3>2. Sums(m)[n - 1] = s
      BY <1>6, <1>8, <3>1 DEF Sum
    <3>3. Sums(m)[n] = h
      BY <1>1, <1>2, <1>3, <1>6, <1>8, <2>1, <2>2 DEF Sum
    <3>4. Entry(m, n) = s + 1 .. h
      BY <3>2, <3>3 DEF Entry
    <3> QED BY <1>3, <2>1, <3>1, <3>4 DEF HolesOk, NoData
  <2> QED BY <2>2, <2>3, <2>4
<1> QED BY <1>1, <1>4, <1>5, <1>7, <1>8, <1>9, <1>10 DEF BuiltTo

LEMMA BuiltKept ==
  ASSUME NEW m, NEW l, NEW h, BuiltTo(m, l, h), UNCHANGED input
  PROVE  BuiltTo(m, l, h)'
<1>1. Whole' = Whole /\ (BadConcat') = BadConcat
  BY FilesKept
<1> QED BY <1>1 DEF BuiltTo, HolesOk, NoData

\* What comes to be of the fields of CreateInv while the map is built.
LEMMA BuildingNext ==
  ASSUME CreateInv, pc \in {"open", "seek", "end"}, UNCHANGED <<input, archive, applyVars>>,
         Where', NEW m, NEW l, NEW h, m = map', l = leftover', h = Here', BuiltTo(m, l, h),
         started' \in BOOLEAN
  PROVE  Where' /\ BuiltTo(map, leftover, Here)' /\ (data = <<>>)' /\ (started \in BOOLEAN)' /\ Fresh'
<1>1. data' = data /\ data = <<>> /\ UNCHANGED input /\ Fresh
  BY DEF CreateInv, Building, archive
<1>2. Fresh'
  BY <1>1 DEF Fresh, applyVars
<1>3. BuiltTo(m, l, h)'
  BY <1>1, BuiltKept
<1> QED BY <1>1, <1>2, <1>3

LEMMA MapStart ==
  ASSUME Inputs, CreateInv, build_map_start
  PROVE  CreateInv' /\ pc' \in {"seek", "end", "undefined"}
<1>1. pc = "open" /\ file <= Len(files) /\ UNCHANGED <<input, file, offset, it, archive, applyVars>>
  BY DEF build_map_start
<1>2. Building
  BY <1>1 DEF CreateInv
<1>3. /\ Where /\ BuiltTo(map, leftover, Here) /\ leftover = 0 /\ offset = 0 /\ Len(map) < MapMax
      /\ (~skip_holes => Len(map) <= 1) /\ (~started => map = <<>>)
  BY <1>1, <1>2 DEF Building
<1>4. UNCHANGED input /\ files' = files /\ skip_holes' = skip_holes /\ file' = file /\ offset' = offset
  BY <1>1 DEF input
<1>5. Where' /\ Here' = Here
  BY <1>3, <1>4, SameWhere
<1>6. Partial(map)
  BY <1>3 DEF BuiltTo
<1>7. MapMax \in Nat /\ MapMax > 2 /\ skip_holes \in BOOLEAN
  BY ResourceAssumption DEF Inputs
<1>8. \/ /\ ~started /\ started' = TRUE /\ map' = map /\ leftover' = leftover
         /\ pc' = IF skip_holes THEN "seek" ELSE "end"
      \/ /\ started /\ map # <<>> /\ leftover' = Last(map) /\ map' = Front(map) /\ started' = started
         /\ pc' = IF skip_holes THEN "seek" ELSE "end"
      \/ pc' = "undefined"
  BY DEF build_map_start
<1>9. CASE ~started /\ started' = TRUE /\ map' = map /\ leftover' = leftover /\ pc' = IF skip_holes THEN "seek" ELSE "end"
  <2>1. map = <<>> /\ Len(map) = 0
    BY <1>3, <1>9, EmptySeq
  <2>2. Where' /\ BuiltTo(map, leftover, Here)' /\ (data = <<>>)' /\ (started \in BOOLEAN)' /\ Fresh'
    BY <1>1, <1>2, <1>3, <1>5, <1>9, BuildingNext DEF Building
  <2>3. pc' \in {"seek", "end"} /\ started' /\ (file <= Len(files))' /\ (Len(map) <= MapMax - 2)'
    BY <1>1, <1>4, <1>7, <1>9, <2>1
  <2>4. (pc = "seek" => skip_holes /\ Seeking)'
    BY <1>3, <1>4, <1>7, <1>9, <2>1 DEF Seeking
  <2>5. (pc = "end" => /\ ~IN_HOLE(Len(map)) /\ (~skip_holes => map = <<>>)
                       /\ leftover > 0 \/ map = <<>> \/ Ahead)'
    BY <1>4, <1>9, <2>1, Parity
  <2>6. Building'
    BY <2>2, <2>3, <2>4, <2>5 DEF Building
  <2> QED BY <2>2, <2>3, <2>6 DEF CreateInv
<1>10. CASE /\ started /\ map # <<>> /\ leftover' = Last(map) /\ map' = Front(map) /\ started' = started
            /\ pc' = IF skip_holes THEN "seek" ELSE "end"
  <2>1. map \in Seq(Nat) /\ \A k \in 2 .. Len(map) : map[k] > 0
    BY <1>6, PartialTyped
  <2>2. PICK n \in Nat \ {0} : n = Len(map)
    BY <1>10, <2>1, SumsFront
  <2>3. PICK t : t = Front(map)
    OBVIOUS
  <2>4. PICK l \in Nat : l = Last(map)
    BY <1>10, <2>1, SumsFront
  <2>5. t \in Seq(Nat) /\ Len(t) = n - 1 /\ l = map[n]
    BY <1>10, <2>1, <2>2, <2>3, <2>4, SumsFront
  <2>6. n - 1 <= MapMax - 2 /\ (~skip_holes => n - 1 = 0)
    BY <1>3, <1>7, <2>2
  <2>7. n - 1 = 0 => t = <<>>
    BY <2>5, EmptySeq
  <2>8. l > 0 \/ t = <<>>
    <3>1. CASE n >= 2
      <4>1. n \in 2 .. n
        BY <3>1
      <4> QED BY <2>1, <2>2, <2>5, <4>1
    <3>2. CASE ~(n >= 2)
      BY <2>7, <3>2
    <3> QED BY <3>1, <3>2
  <2>9. map' = t /\ leftover' = l
    BY <1>10, <2>3, <2>4
  <2>10. PICK h : h = Here
    OBVIOUS
  <2>11. BuiltTo(t, l, h)
    BY <1>3, <1>10, <2>3, <2>4, <2>10, BuiltFront
  <2>12. Where' /\ BuiltTo(map, leftover, Here)' /\ (data = <<>>)' /\ (started \in BOOLEAN)' /\ Fresh'
    BY <1>1, <1>2, <1>5, <1>10, <2>9, <2>10, <2>11, BuildingNext DEF Building
  <2>13. pc' \in {"seek", "end"} /\ started' /\ (file <= Len(files))' /\ (Len(map) <= MapMax - 2)'
    BY <1>1, <1>4, <1>10, <2>5, <2>6, <2>9
  <2>14. (pc = "seek" => skip_holes /\ Seeking)'
    <3>1. pc' = "seek" => skip_holes'
      BY <1>4, <1>10
    <3>2. leftover' > 0 \/ map' = <<>>
      BY <2>8, <2>9
    <3>3. ~(leftover' = 0 /\ map' # <<>>)
      BY <3>2
    <3> QED BY <1>3, <1>4, <3>1, <3>3 DEF Seeking
  <2>15. (pc = "end" => /\ ~IN_HOLE(Len(map)) /\ (~skip_holes => map = <<>>)
                        /\ leftover > 0 \/ map = <<>> \/ Ahead)'
    <3> SUFFICES ASSUME pc' = "end" PROVE ~IN_HOLE(Len(t)) /\ t = <<>>
      BY <2>9
    <3>1. ~skip_holes
      BY <1>10
    <3>2. Len(t) = 0
      BY <2>5, <2>6, <3>1
    <3> QED BY <2>6, <2>7, <3>1, <3>2, Parity
  <2>16. Building'
    BY <2>12, <2>13, <2>14, <2>15 DEF Building
  <2> QED BY <2>12, <2>13, <2>16 DEF CreateInv
<1>11. CASE pc' = "undefined"
  BY <1>11 DEF CreateInv
<1> QED BY <1>8, <1>9, <1>10, <1>11

\* The rest of a file becomes data.
LEMMA MapEnd ==
  ASSUME Inputs, CreateInv, build_map_end
  PROVE  CreateInv' /\ pc' = "open"
<1>1. /\ pc = "end" /\ pc' = "open" /\ file' = file + 1 /\ offset' = 0 /\ leftover' = 0 /\ started' = started
      /\ map' = Append(map, Len(files[file]) - offset + leftover)
      /\ UNCHANGED <<input, archive, applyVars>>
  BY DEF build_map_end, NextFile
<1>2. Building
  BY <1>1 DEF CreateInv
<1>3. /\ Where /\ BuiltTo(map, leftover, Here) /\ started /\ file <= Len(files) /\ Len(map) <= MapMax - 2
      /\ ~IN_HOLE(Len(map)) /\ (~skip_holes => map = <<>>)
      /\ leftover > 0 \/ map = <<>> \/ Ahead
  BY <1>1, <1>2 DEF Building
<1>4. UNCHANGED input /\ skip_holes' = skip_holes
  BY <1>1 DEF input
<1>5. Where' /\ Here' = Here + (Len(files[file]) - offset)
  BY <1>1, <1>3, <1>4, NextWhere
<1>6. PICK size \in Nat : size = Len(files[file])
  BY <1>3, HereBounds
<1>7. PICK o \in Nat : o = offset /\ o <= size
  BY <1>3, <1>6 DEF Where
<1>8. PICK n \in Nat : n = size - o
  BY <1>7
<1>9. PICK l \in Nat : l = leftover
  BY <1>3 DEF BuiltTo
<1>10. map = <<>> \/ n + l > 0
  BY <1>3, <1>6, <1>7, <1>8, <1>9 DEF Ahead
<1>11. PICK m : m = map
  OBVIOUS
<1>12. PICK h \in Nat : h = Here
  BY <1>3, HereBounds
<1>13. BuiltTo(m, l, h)
  BY <1>3, <1>9, <1>11, <1>12
<1>14. PICK t : t = Append(m, n + l)
  OBVIOUS
<1>15. BuiltTo(t, 0, h + n) /\ Len(t) = Len(m) + 1
  BY <1>3, <1>10, <1>11, <1>13, <1>14, BuiltAppend
<1>16. map' = t /\ Here' = h + n
  BY <1>1, <1>5, <1>6, <1>7, <1>8, <1>9, <1>11, <1>12, <1>14
<1>17. Where' /\ BuiltTo(map, leftover, Here)' /\ (data = <<>>)' /\ (started \in BOOLEAN)' /\ Fresh'
  BY <1>1, <1>2, <1>5, <1>15, <1>16, BuildingNext DEF Building
<1>18. Len(map) \in Nat /\ (map = <<>> => Len(map) = 0) /\ MapMax \in Nat
  BY <1>3, PartialTyped, ResourceAssumption DEF BuiltTo
<1>19. Len(map') < MapMax /\ (~skip_holes => Len(map') <= 1)
  BY <1>3, <1>11, <1>15, <1>16, <1>18
<1>20. Building'
  BY <1>1, <1>3, <1>4, <1>17, <1>19 DEF Building
<1> QED BY <1>1, <1>17, <1>20 DEF CreateInv

\* Nothing is left over at the end of a file that is sought through to its end:
\* it would be an empty file behind others.
LEMMA NothingLeft ==
  ASSUME Inputs, Where, Seeking, skip_holes, file <= Len(files), BuiltTo(map, leftover, Here), ~BadConcat,
         offset = Len(files[file])
  PROVE  leftover = 0
<1> SUFFICES ASSUME leftover # 0 PROVE FALSE
  OBVIOUS
<1>1. PICK l \in Nat : l = leftover
  BY DEF BuiltTo
<1>2. l > 0 /\ offset = 0
  BY <1>1 DEF Seeking
<1>3. file \in 1 .. Len(files) /\ Len(files) \in Nat
  BY FilesTyped, HereBounds
<1>4. files[file] \in Seq(BOOLEAN) /\ Len(files[file]) = 0
  BY <1>2, <1>3, FilesTyped
<1>5. files[file] = <<>>
  BY <1>4, EmptySeq
<1>6. file # 1
  <2> SUFFICES ASSUME file = 1 PROVE FALSE
    OBVIOUS
  <2>1. Here = 0
    BY <1>2, BeforeGrows DEF Here
  <2>2. PICK s \in Nat : s = Sum(map)
    BY PartialTyped DEF BuiltTo
  <2>3. s + l <= 0
    BY <1>1, <2>1, <2>2 DEF BuiltTo
  <2> QED BY <1>2, <2>3
<1>7. Len(files) > 1 /\ file \in DOMAIN files
  BY <1>3, <1>6, FilesTyped
<1> QED BY <1>5, <1>7 DEF BadConcat

\* The early exit is not taken: there would be data right behind files that are
\* a hole.
LEMMA NoEarlyExit ==
  ASSUME Inputs, Where, Seeking, skip_holes, file <= Len(files), BuiltTo(map, leftover, Here), ~BadConcat,
         Len(map) = 1, map[1] = 0, Ahead, files[file][offset + 1] = TRUE
  PROVE  FALSE
<1>1. PICK l \in Nat : l = leftover
  BY DEF BuiltTo
<1>2. IN_HOLE(Len(map)) /\ map # <<>> /\ map \in Seq(Nat)
  <2>1. Partial(map)
    BY DEF BuiltTo
  <2>2. 1 # 0
    OBVIOUS
  <2> QED BY <2>1, <2>2, Parity, PartialTyped
<1>3. l # 0
  BY <1>1, <1>2 DEF Seeking
<1>4. offset = 0 /\ leftover # 0
  BY <1>1, <1>3 DEF Seeking
<1>5. Sum(map) = 0
  <2>1. 1 \in 1 .. Len(map) /\ 1 - 1 = 0
    OBVIOUS
  <2>2. Sums(map)[1] = Sums(map)[0] + map[1]
    BY <1>2, <2>1, SumsNat
  <2> QED BY <1>2, <2>2, SumsNat DEF Sum
<1>6. PICK b \in Nat : b = Before(file)
  BY HereBounds
<1>7. Here = b
  BY <1>4, <1>6 DEF Here
<1>8. b = l /\ NoData(0, b)
  <2>1. Sum(map) + leftover = Here /\ NoData(Sum(map), Here)
    BY <1>2 DEF BuiltTo
  <2> QED BY <1>1, <1>5, <1>7, <2>1
<1>9. PICK n \in Nat \ {0} : n = Len(files)
  BY FilesTyped
<1>10. file \in 1 .. n
  BY <1>9, HereBounds
<1>11. file # 1
  BY <1>3, <1>6, <1>8, BeforeGrows
<1>12. files[file][1]
  BY <1>4
<1>13. ASSUME NEW j \in 1 .. file - 1 PROVE IsHole(files[j])
  <2>1. j \in 1 .. n /\ j \in 1 .. Len(files)
    BY <1>9, <1>10
  <2> SUFFICES ASSUME NEW k \in 1 .. Len(files[j]) PROVE ~files[j][k]
    BY <2>1, FilesTyped DEF IsHole
  <2>2. PICK z \in Nat : z = Len(files[j])
    BY <2>1, FilesTyped
  <2>3. PICK s \in Seq(Nat) : s = Sizes
    BY BeforeSums
  <2>4. Len(s) = n /\ Before(file) = Sums(s)[file - 1] /\ Before(j) = Sums(s)[j - 1] /\ s[j] = z
    BY <1>9, <2>1, <2>2, <2>3, BeforeSums
  <2>5. j \in 1 .. Len(s) /\ file \in 1 .. Len(s) /\ j < file
    BY <1>10, <2>1, <2>4
  <2>6. Sums(s)[j] <= Sums(s)[file - 1]
    BY <2>5, EntryOrder
  <2>7. PICK c \in Nat : c = Sums(s)[j - 1]
    BY <2>5, EntryBounds
  <2>8. Sums(s)[j] = c + z
    BY <2>4, <2>5, <2>7, EntryBounds
  <2>9. c + z <= b
    BY <1>6, <2>4, <2>6, <2>8
  <2>10. c + k \in 0 + 1 .. b
    BY <2>2, <2>9
  <2>11. ~Whole[c + k]
    BY <1>8, <2>10 DEF NoData
  <2>12. Before(j) = c
    BY <2>4, <2>7
  <2>13. Whole[Before(j) + k] = files[j][k]
    BY <2>1, WholeAt
  <2> QED BY <2>11, <2>12, <2>13
<1>14. file \in 2 .. Len(files) /\ Len(files) > 1
  BY <1>9, <1>10, <1>11
<1> QED BY <1>12, <1>13, <1>14 DEF BadConcat

\* What was sought through in the file that is being read
LEMMA SoughtThrough ==
  ASSUME Inputs, Where, file <= Len(files), NEW n \in Nat, offset + n <= Len(files[file]),
         \A k \in offset + 1 .. offset + n : ~files[file][k]
  PROVE  NoData(Here, Here + n)
<1>1. PICK h \in Nat : h = Here
  BY HereBounds
<1> SUFFICES ASSUME NEW i \in h + 1 .. h + n PROVE ~Whole[i]
  BY <1>1 DEF NoData
<1>2. PICK k \in Nat \ {0} : k = i - h /\ k <= n
  OBVIOUS
<1>3. PICK size \in Nat : size = Len(files[file])
  BY HereBounds
<1>4. PICK o \in Nat : o = offset
  BY DEF Where
<1>5. o + k <= size /\ o + k \in o + 1 .. o + n
  BY <1>2, <1>3, <1>4
<1>6. Whole[h + k] = files[file][o + k]
  BY <1>1, <1>3, <1>4, <1>5, ByteHere
<1>7. ~files[file][o + k]
  BY <1>4, <1>5
<1>8. h + k = i
  BY <1>2
<1> QED BY <1>6, <1>7, <1>8

\* The next file, with what was made of this one
LEMMA OpensNext ==
  ASSUME Inputs, Building, Fresh, pc = "seek", pc' = "open", file' = file + 1, offset' = 0, leftover' = 0,
         started' = started, UNCHANGED <<input, archive, applyVars>>,
         NEW m, m = map', Len(m) < MapMax, BuiltTo(m, 0, Here + (Len(files[file]) - offset))
  PROVE  CreateInv' /\ pc' = "open"
<1>1. Where /\ skip_holes /\ started /\ file <= Len(files)
  BY DEF Building
<1>2. UNCHANGED input /\ skip_holes' = skip_holes
  BY DEF input
<1>3. Where' /\ Here' = Here + (Len(files[file]) - offset)
  BY <1>1, <1>2, NextWhere
<1>4. CreateInv
  BY DEF CreateInv
<1>5. Where' /\ BuiltTo(map, leftover, Here)' /\ (data = <<>>)' /\ (started \in BOOLEAN)' /\ Fresh'
  BY <1>3, <1>4, BuildingNext DEF Building
<1>6. Building'
  BY <1>1, <1>2, <1>5 DEF Building
<1> QED BY <1>5, <1>6 DEF CreateInv

LEMMA MapSeek ==
  ASSUME Inputs, CreateInv, build_map_seek
  PROVE  CreateInv' /\ pc' \in {"open", "seek", "end"}
<1>1. pc = "seek" /\ started' = started /\ UNCHANGED <<input, archive, applyVars>>
  BY DEF build_map_seek
<1>2. Building /\ Fresh
  BY <1>1 DEF CreateInv
<1>3. /\ Where /\ BuiltTo(map, leftover, Here) /\ started /\ file <= Len(files) /\ Len(map) <= MapMax - 2
      /\ skip_holes /\ Seeking
  BY <1>1, <1>2 DEF Building
<1>4. UNCHANGED input /\ skip_holes' = skip_holes /\ files' = files
  BY <1>1 DEF input
<1>5. PICK m : m = map /\ Partial(m)
  BY <1>3 DEF BuiltTo
<1>6. /\ m \in Seq(Nat) /\ \A k \in 2 .. Len(m) : m[k] > 0
  BY <1>5, PartialTyped
<1>7. PICK i \in Nat : i = Len(m) /\ (m = <<>> <=> i = 0)
  BY <1>5, PartialTyped
<1>8. PICK f \in Seq(BOOLEAN) : f = files[file]
  BY <1>3, FilesTyped, HereBounds
<1>9. PICK size \in Nat : size = Len(f)
  BY <1>8, LenProperties
<1>10. PICK o \in Nat : o = offset /\ o <= size
  BY <1>3, <1>8, <1>9 DEF Where
<1>11. PICK l \in Nat : l = leftover
  BY <1>3 DEF BuiltTo
<1>12. PICK h \in Nat : h = Here
  BY <1>3, HereBounds
<1>13. PICK kind \in BOOLEAN : kind = IN_HOLE(i)
  BY DEF IN_HOLE
<1>14. PICK next : next = FirstFrom(f, o, kind)
  OBVIOUS
<1>15. /\ next \in Int
       /\ next < 0 => o >= size \/ (kind /\ \A k \in o + 1 .. size : ~f[k])
       /\ ~(next < 0) => /\ o < size /\ next \in o .. size /\ next \in Nat
                         /\ \A k \in o + 1 .. next : f[k] # kind
                         /\ next = size => ~kind
                         /\ next < size => f[next + 1] = kind
  <2>1. Finds(f, o, kind, next)
    BY <1>14, Found
  <2> QED BY <1>9, <2>1 DEF Finds
<1>16. MapMax \in Nat /\ MapMax > 2 /\ (MapMax % 2) = 0
  BY ResourceAssumption
<1>17. BuiltTo(m, l, h)
  BY <1>3, <1>5, <1>11, <1>12
<1>18. \/ /\ i < MapMax - 2 /\ next < 0
          /\ map' = IF size # o THEN Append(m, size - o + l) ELSE m
          /\ leftover' = 0 /\ pc' = "open" /\ file' = file + 1 /\ offset' = 0
       \/ /\ i < MapMax - 2 /\ next >= 0 /\ i >= 1 /\ o = next /\ m[i] = 0
          /\ leftover' = 0 /\ pc' = "open" /\ file' = file + 1 /\ offset' = 0 /\ map' = m
       \/ /\ i < MapMax - 2 /\ next >= 0 /\ map' = Append(m, next - o + l) /\ leftover' = 0
          /\ offset' = next /\ pc' = pc /\ file' = file
       \/ /\ i >= MapMax - 2 /\ pc' = "end" /\ map' = map /\ leftover' = leftover /\ offset' = offset /\ file' = file
  BY <1>5, <1>7, <1>8, <1>9, <1>10, <1>11, <1>13, <1>14, Zenon DEF build_map_seek, NextFile, Lseek
<1>19. ASSUME i < MapMax - 2, next < 0, map' = IF size # o THEN Append(m, size - o + l) ELSE m,
              leftover' = 0, pc' = "open", file' = file + 1, offset' = 0
       PROVE  CreateInv' /\ pc' \in {"open", "seek", "end"}
  <2>1. CASE size # o
    <3>1. PICK n \in Nat : n = size - o /\ n > 0
      BY <1>10, <2>1
    <3>2. \A k \in o + 1 .. size : ~f[k]
      BY <1>10, <1>15, <1>19, <2>1
    <3>3. NoData(h, h + n)
      <4>1. o + n = size
        BY <3>1
      <4> QED BY <1>3, <1>8, <1>9, <1>10, <1>12, <3>2, <4>1, SoughtThrough
    <3>4. n + l > 0
      BY <3>1
    <3>5. PICK t : t = Append(m, n + l)
      OBVIOUS
    <3>6. BuiltTo(t, 0, h + n) /\ Len(t) = i + 1
      BY <1>7, <1>17, <3>3, <3>4, <3>5, BuiltAppend
    <3>7. t = map' /\ Len(t) < MapMax
      BY <1>16, <1>19, <2>1, <3>1, <3>5, <3>6
    <3>8. h + n = Here + (Len(files[file]) - offset)
      BY <1>8, <1>9, <1>10, <1>12, <3>1
    <3> QED BY <1>1, <1>2, <1>19, <3>6, <3>7, <3>8, OpensNext
  <2>2. CASE size = o
    <3>1. BuiltTo(m, 0, h)
      <4>1. PICK s \in Nat : s = Sum(m)
        BY <1>5, PartialTyped
      <4>2. s + 0 <= h
        BY <1>17, <4>1 DEF BuiltTo
      <4>3. ~BadConcat => l = 0
        BY <1>3, <1>8, <1>9, <1>10, <1>11, <2>2, NothingLeft
      <4> QED BY <1>17, <4>1, <4>2, <4>3 DEF BuiltTo
    <3>2. map' = m /\ Len(m) < MapMax
      BY <1>7, <1>16, <1>19, <2>2
    <3>3. h = Here + (Len(files[file]) - offset)
      BY <1>8, <1>9, <1>10, <1>12, <2>2
    <3> QED BY <1>1, <1>2, <1>19, <3>1, <3>2, <3>3, OpensNext
  <2> QED BY <2>1, <2>2
<1>20. ASSUME i < MapMax - 2, next >= 0, i >= 1, o = next, m[i] = 0,
              leftover' = 0, pc' = "open", file' = file + 1, offset' = 0, map' = m
       PROVE  CreateInv' /\ pc' \in {"open", "seek", "end"}
  <2>1. i = 1
    <3> SUFFICES ASSUME i # 1 PROVE FALSE
      OBVIOUS
    <3>1. i \in 2 .. Len(m)
      BY <1>7, <1>20
    <3>2. m[i] > 0
      BY <1>6, <3>1
    <3> QED BY <1>20, <3>2
  <2>2. ~(next < 0)
    BY <1>15, <1>20
  <2>3. o < size /\ kind = TRUE
    BY <1>13, <1>15, <2>1, <2>2, Parity
  <2>4. f[o + 1] = TRUE
    BY <1>15, <1>20, <2>2, <2>3
  <2>5. BadConcat
    <3> SUFFICES ASSUME ~BadConcat PROVE FALSE
      OBVIOUS
    <3>1. Len(map) = 1 /\ map[1] = 0 /\ Ahead /\ files[file][offset + 1] = TRUE
      BY <1>5, <1>7, <1>8, <1>9, <1>10, <1>20, <2>1, <2>3, <2>4 DEF Ahead
    <3> QED BY <1>3, <3>1, NoEarlyExit
  <2>6. PICK n \in Nat : n = size - o
    BY <1>10
  <2>7. BuiltTo(m, 0, h + n)
    <3>1. PICK s \in Nat : s = Sum(m)
      BY <1>5, PartialTyped
    <3>2. s + l <= h
      BY <1>17, <3>1 DEF BuiltTo
    <3>3. s + 0 <= h + n /\ h + n \in Nat /\ 0 \in Nat
      BY <3>2
    <3> QED BY <1>5, <2>5, <3>1, <3>3 DEF BuiltTo
  <2>8. map' = m /\ Len(m) < MapMax
    BY <1>7, <1>16, <1>20
  <2>9. h + n = Here + (Len(files[file]) - offset)
    BY <1>8, <1>9, <1>10, <1>12, <2>6
  <2> QED BY <1>1, <1>2, <1>20, <2>7, <2>8, <2>9, OpensNext
<1>21. ASSUME i < MapMax - 2, next >= 0, map' = Append(m, next - o + l), leftover' = 0,
              offset' = next, pc' = pc, file' = file
       PROVE  CreateInv' /\ pc' \in {"open", "seek", "end"}
  <2>1. ~(next < 0)
    BY <1>15, <1>21
  <2>2. /\ o < size /\ next \in o .. size /\ next \in Nat /\ \A k \in o + 1 .. next : f[k] # kind
        /\ (next = size => ~kind) /\ (next < size => f[next + 1] = kind)
    BY <1>15, <2>1
  <2>3. PICK n \in Nat : n = next - o
    BY <2>2
  <2>4. m = <<>> \/ n + l > 0
    <3> SUFFICES ASSUME m # <<>>, l = 0 PROVE n > 0
      BY <1>11
    <3>1. f[o + 1] # kind
      BY <1>3, <1>5, <1>7, <1>8, <1>9, <1>10, <1>11, <1>13, <2>2 DEF Seeking, Ahead
    <3>2. next # o
      BY <2>2, <3>1
    <3> QED BY <2>2, <2>3, <3>2
  <2>5. IN_HOLE(Len(m)) => NoData(h, h + n)
    <3> SUFFICES ASSUME IN_HOLE(Len(m)) PROVE NoData(h, h + n)
      OBVIOUS
    <3>1. kind = TRUE
      BY <1>7, <1>13
    <3>2. o + n = next /\ o + n <= size
      BY <2>2, <2>3
    <3>3. \A k \in o + 1 .. o + n : ~f[k]
      <4> SUFFICES ASSUME NEW k \in o + 1 .. next PROVE ~f[k]
        BY <3>2
      <4>1. k \in 1 .. size
        BY <2>2
      <4>2. f[k] \in BOOLEAN
        BY <1>9, <4>1, ElementOfSeq
      <4> QED BY <2>2, <3>1, <4>2
    <3> QED BY <1>3, <1>8, <1>9, <1>10, <1>12, <3>2, <3>3, SoughtThrough
  <2>6. PICK t : t = Append(m, n + l)
    OBVIOUS
  <2>7. BuiltTo(t, 0, h + n) /\ MapOk(t) /\ Len(t) = i + 1
    BY <1>7, <1>17, <2>4, <2>5, <2>6, BuiltAppend
  <2>8. t = map'
    BY <1>21, <2>3, <2>6
  <2>9. Where' /\ Here' = h + n
    <3>1. n <= Len(files[file]) - offset /\ offset' = offset + n
      <4>1. next \in Nat /\ next <= size
        BY <2>2
      <4>2. next = o + n /\ n <= size - o
        BY <2>3, <4>1
      <4>3. size = Len(files[file])
        BY <1>8, <1>9
      <4> QED BY <1>10, <1>21, <4>2, <4>3
    <3> QED BY <1>3, <1>4, <1>12, <1>21, <3>1, OnWhere
  <2>10. CreateInv /\ pc \in {"open", "seek", "end"}
    BY <1>1, <1>2 DEF CreateInv
  <2>11. Where' /\ BuiltTo(map, leftover, Here)' /\ (data = <<>>)' /\ (started \in BOOLEAN)' /\ Fresh'
    BY <1>1, <1>3, <1>21, <2>7, <2>8, <2>9, <2>10, BuildingNext
  <2>12. Seeking'
    <3>1. leftover' = 0
      BY <1>21
    <3>2. Ahead' => next < size
      BY <1>4, <1>8, <1>9, <1>21 DEF Ahead
    <3>3. next < size => Ahead'
      BY <1>4, <1>8, <1>9, <1>21 DEF Ahead
    <3>4. IN_HOLE(Len(t)) <=> ~IN_HOLE(i)
      BY <2>7, Parity
    <3>5. (Ahead => files[file][offset + 1] # IN_HOLE(Len(map)))'
      <4> SUFFICES ASSUME next < size PROVE f[next + 1] # IN_HOLE(Len(t))
        BY <1>4, <1>8, <1>21, <2>8, <3>2
      <4> QED BY <1>13, <2>2, <3>4
    <3>6. (IN_HOLE(Len(map)) \/ Ahead)'
      <4> SUFFICES ASSUME ~IN_HOLE(Len(t)) PROVE next < size
        BY <2>8, <3>3
      <4>1. kind
        BY <1>13, <3>4
      <4> QED BY <2>2, <4>1
    <3> QED BY <3>1, <3>5, <3>6 DEF Seeking
  <2>13. Len(map') <= MapMax - 2
    BY <1>16, <1>21, <2>7, <2>8
  <2>14. Building'
    BY <1>1, <1>3, <1>4, <1>21, <2>11, <2>12, <2>13 DEF Building
  <2> QED BY <1>1, <1>21, <2>11, <2>14 DEF CreateInv
<1>22. ASSUME i >= MapMax - 2, pc' = "end", map' = map, leftover' = leftover, offset' = offset, file' = file
       PROVE  CreateInv' /\ pc' \in {"open", "seek", "end"}
  <2>1. i = MapMax - 2
    BY <1>3, <1>5, <1>7, <1>16, <1>22
  <2>2. (i % 2) = 0
    BY <1>16, <2>1
  <2>3. ~IN_HOLE(i)
    BY <2>2, Parity
  <2>4. Where' /\ Here' = h
    BY <1>3, <1>4, <1>12, <1>22, SameWhere
  <2>5. CreateInv /\ pc \in {"open", "seek", "end"}
    BY <1>1, <1>2 DEF CreateInv
  <2>6. Where' /\ BuiltTo(map, leftover, Here)' /\ (data = <<>>)' /\ (started \in BOOLEAN)' /\ Fresh'
    BY <1>1, <1>3, <1>5, <1>11, <1>17, <1>22, <2>4, <2>5, BuildingNext
  <2>7. l > 0 \/ m = <<>> \/ o < size
    BY <1>3, <1>5, <1>7, <1>8, <1>9, <1>10, <1>11, <2>3 DEF Seeking, Ahead
  <2>8. (leftover > 0 \/ map = <<>> \/ Ahead)'
    BY <1>4, <1>5, <1>8, <1>9, <1>10, <1>11, <1>22, <2>7 DEF Ahead
  <2>9. Building'
    BY <1>1, <1>3, <1>4, <1>5, <1>7, <1>22, <2>3, <2>6, <2>8 DEF Building
  <2> QED BY <1>22, <2>6, <2>9 DEF CreateInv
<1> QED BY <1>18, <1>19, <1>20, <1>21, <1>22

----------------------------------------------------------------------------
(* The data is copied                                                      *)

LEMMA CopiedOn ==
  ASSUME NEW m \in Seq(Nat), NEW d, NEW x, NEW y, Copied(d, m, x, y), x < Len(m), IN_HOLE(x),
         NEW n \in Nat, y + n <= m[x + 1]
  PROVE  Copied(d, m, x, y + n)
<1>1. PICK l \in Nat : l = Len(m)
  BY LenProperties
<1>2. x \in 0 .. l /\ x < l /\ y \in Nat
  BY <1>1 DEF Copied
<1>3. PICK e \in 1 .. l : e = x + 1 /\ e - 1 = x
  BY <1>2
<1>4. PICK p \in Nat : p = Sums(m)[x]
  BY <1>1, <1>3, EntryBounds
<1>5. PICK q \in Nat : q = m[e]
  BY <1>1, EntryBounds
<1>6. Sums(m)[e] = p + q /\ y + n <= q
  BY <1>1, <1>3, <1>4, <1>5, EntryBounds
<1>7. DataOk(d, m, p + (y + n))
  <2> SUFFICES ASSUME NEW g \in 1 .. Len(m), ~IN_HOLE(g - 1), NEW i \in Entry(m, g), i <= p + (y + n)
               PROVE  d[Place(m, g, i)] = Byte(i)
    BY DEF DataOk
  <2>1. i \in Nat \ {0} /\ i > Sums(m)[g - 1]
    BY PlaceIn
  <2>2. g # e /\ g \in Nat
    BY <1>1, <1>3
  <2>3. ~(e < g)
    <3> SUFFICES ASSUME e < g PROVE FALSE
      OBVIOUS
    <3>1. Sums(m)[e] <= Sums(m)[g - 1]
      BY <1>1, EntryOrder
    <3>2. PICK a \in Nat : a = Sums(m)[g - 1]
      BY EntryBounds
    <3> QED BY <1>2, <1>6, <2>1, <3>1, <3>2
  <2>4. g < e
    BY <2>2, <2>3
  <2>5. Sums(m)[g] <= p
    BY <1>1, <1>3, <1>4, <2>4, EntryOrder
  <2>6. i <= Sums(m)[g]
    BY PlaceIn
  <2>7. PICK a \in Nat : a = Sums(m)[g]
    BY EntryBounds
  <2>8. i <= p + y
    BY <1>2, <2>1, <2>5, <2>6, <2>7
  <2>9. DataOk(d, m, p + y)
    BY <1>4 DEF Copied
  <2> QED BY <2>8, <2>9 DEF DataOk
<1>8. y + n \in Nat /\ y + n <= m[x + 1] /\ x # Len(m)
  BY <1>1, <1>2
<1> QED BY <1>4, <1>7, <1>8 DEF Copied

\* To the next entry
LEMMA CopiedOver ==
  ASSUME NEW m \in Seq(Nat), NEW d, NEW x, x < Len(m), Copied(d, m, x, m[x + 1])
  PROVE  Copied(d, m, x + 1, 0) /\ x + 1 \in Nat /\ Sums(m)[x + 1] = Sums(m)[x] + m[x + 1]
<1>0. PICK y : y = m[x + 1] /\ Copied(d, m, x, y)
  OBVIOUS
<1>1. PICK l \in Nat : l = Len(m)
  BY LenProperties
<1>2. x \in 0 .. l /\ x < l /\ y \in Nat
  BY <1>0, <1>1 DEF Copied
<1>3. PICK e \in 1 .. l : e = x + 1 /\ e - 1 = x /\ e \in 0 .. l
  BY <1>2
<1>4. PICK p \in Nat : p = Sums(m)[x]
  BY <1>1, <1>3, EntryBounds
<1>5. Sums(m)[e] = p + y
  BY <1>0, <1>1, <1>3, <1>4, EntryBounds
<1>6. DataOk(d, m, p + y)
  BY <1>0, <1>4 DEF Copied
<1>7. DataOk(d, m, Sums(m)[e] + 0)
  <2>1. (p + y) + 0 = p + y
    BY <1>2
  <2> QED BY <1>5, <1>6, <2>1
<1>8. DataBefore(m, e) = DataBefore(m, x) + IF IN_HOLE(x) THEN 0 ELSE y
  BY <1>0, <1>1, <1>3, DataGrows
<1>9. PICK c \in Nat : c = DataBefore(m, x)
  BY <1>1, <1>2, DataGrows
<1>10. Len(d) = DataBefore(m, e) + 0 /\ d \in Bytes
  <2>1. Len(d) = c + IF IN_HOLE(x) THEN 0 ELSE y
    BY <1>0, <1>9 DEF Copied
  <2> QED BY <1>2, <1>8, <1>9, <2>1, <1>0 DEF Copied
<1>11. Len(d) = DataBefore(m, e) + IF IN_HOLE(e) THEN 0 ELSE 0
  BY <1>10
<1>12. e < Len(m) => 0 <= m[e + 1]
  <2> SUFFICES ASSUME e < l PROVE 0 <= m[e + 1]
    BY <1>1
  <2>1. PICK g \in 1 .. l : g = e + 1
    OBVIOUS
  <2>2. m[g] \in Nat
    BY <1>1, EntryBounds
  <2> QED BY <2>1, <2>2
<1>13. e \in 0 .. Len(m) /\ 0 \in Nat
  BY <1>1, <1>3
<1>14. Copied(d, m, e, 0)
  BY <1>7, <1>10, <1>11, <1>12, <1>13 DEF Copied
<1> QED BY <1>0, <1>3, <1>4, <1>5, <1>14

\* What b has is what the files have n bytes from byte h on.
Read(b, h, n) == b \in Bytes /\ Len(b) = n /\ \A k \in 1 .. n : b[k] = Byte(h + k)

LEMMA CopiedData ==
  ASSUME NEW m \in Seq(Nat), NEW d, NEW x, NEW y, Copied(d, m, x, y), x < Len(m), ~IN_HOLE(x),
         NEW n \in Nat, y + n <= m[x + 1], NEW b, Read(b, Sums(m)[x] + y, n)
  PROVE  Copied(d \o b, m, x, y + n)
<1>1. PICK l \in Nat : l = Len(m)
  BY LenProperties
<1>2. x \in 0 .. l /\ x < l /\ y \in Nat /\ d \in Bytes
  BY <1>1 DEF Copied
<1>3. PICK e \in 1 .. l : e = x + 1 /\ e - 1 = x
  BY <1>2
<1>4. PICK p \in Nat : p = Sums(m)[x]
  BY <1>1, <1>3, EntryBounds
<1>5. PICK c \in Nat : c = DataBefore(m, x)
  BY <1>1, <1>2, DataGrows
<1>6. Len(d) = c + y /\ DataOk(d, m, p + y)
  BY <1>4, <1>5 DEF Copied
<1>7. b \in Bytes /\ Len(b) = n /\ \A k \in 1 .. n : b[k] = Byte((p + y) + k)
  BY <1>4 DEF Read
<1>8. PICK t \in Bytes : t = d \o b
  BY <1>2, <1>7, Joined
<1>9. Len(t) = (c + y) + n /\ \A k \in 1 .. (c + y) + n : t[k] = IF k <= c + y THEN d[k] ELSE b[k - (c + y)]
  <2>1. Len(t) = Len(d) + Len(b) /\ \A k \in 1 .. Len(d) + Len(b) : t[k] = IF k <= Len(d) THEN d[k] ELSE b[k - Len(d)]
    BY <1>2, <1>7, <1>8, Joined
  <2>2. Len(d) = c + y /\ Len(b) = n
    BY <1>6, <1>7
  <2> QED BY <2>1, <2>2
<1>10. PICK q \in Nat : q = m[e] /\ Sums(m)[e] = p + q
  BY <1>1, <1>3, <1>4, EntryBounds
<1>11. DataOk(t, m, p + (y + n))
  <2> SUFFICES ASSUME NEW g \in 1 .. Len(m), ~IN_HOLE(g - 1), NEW i \in Entry(m, g), i <= p + (y + n)
               PROVE  t[Place(m, g, i)] = Byte(i)
    BY DEF DataOk
  <2>1. i \in Nat \ {0} /\ i > Sums(m)[g - 1] /\ i <= Sums(m)[g]
    BY PlaceIn
  <2>2. PICK a \in Nat : a = Sums(m)[g - 1]
    BY EntryBounds
  <2>3. g \in Nat /\ g - 1 \in 0 .. l /\ g \in 0 .. l
    BY <1>1
  <2>4. PICK j \in Nat \ {0} : j = Place(m, g, i)
    BY PlaceIn
  <2>5. j \in DataBefore(m, g - 1) + 1 .. DataBefore(m, g)
    BY <2>4, PlaceIn
  <2>6. ~(e < g)
    <3> SUFFICES ASSUME e < g PROVE FALSE
      OBVIOUS
    <3>1. p + q <= a
      BY <1>1, <1>10, <2>2, EntryOrder
    <3>2. y + n <= q
      BY <1>3, <1>10
    <3> QED BY <1>2, <2>1, <2>2, <3>1, <3>2
  <2>7. CASE i <= p + y
    <3>1. d[j] = Byte(i)
      BY <1>6, <2>4, <2>7 DEF DataOk
    <3>2. j <= c + y
      <4>1. CASE g = e
        <5>1. j = i - p + c
          BY <1>3, <1>4, <1>5, <2>4, <4>1 DEF Place
        <5> QED BY <1>2, <2>1, <2>7, <5>1
      <4>2. CASE g # e
        <5>1. g < e
          BY <2>3, <2>6, <4>2
        <5>2. g <= x
          BY <1>2, <1>3, <2>3, <5>1
        <5>3. PICK z \in Nat : z = DataBefore(m, g)
          BY <1>1, <2>3, DataGrows
        <5>4. z <= c
          BY <1>1, <1>2, <1>5, <2>3, <5>2, <5>3, DataGrows
        <5>5. PICK u \in Nat : u = DataBefore(m, g - 1)
          BY <1>1, <2>3, DataGrows
        <5> QED BY <1>2, <2>5, <5>3, <5>4, <5>5
      <4> QED BY <4>1, <4>2
    <3>3. j \in 1 .. (c + y) + n
      BY <1>2, <2>4, <3>2
    <3>4. t[j] = d[j]
      BY <1>9, <3>2, <3>3
    <3> QED BY <2>4, <3>1, <3>4
  <2>8. CASE ~(i <= p + y)
    <3>1. g = e
      <4> SUFFICES ASSUME g < e PROVE FALSE
        BY <2>3, <2>6
      <4>1. Sums(m)[g] <= p
        BY <1>1, <1>3, <1>4, EntryOrder
      <4>2. PICK z \in Nat : z = Sums(m)[g]
        BY EntryBounds
      <4> QED BY <1>2, <2>1, <2>8, <4>1, <4>2
    <3>2. j = i - p + c
      BY <1>3, <1>4, <1>5, <2>4, <3>1 DEF Place
    <3>3. PICK k \in 1 .. n : k = i - (p + y)
      BY <1>2, <2>1, <2>8
    <3>4. j = (c + y) + k /\ i = (p + y) + k /\ j - (c + y) = k /\ ~(j <= c + y) /\ j \in 1 .. (c + y) + n
      BY <1>2, <2>1, <3>2, <3>3
    <3>5. t[j] = b[k]
      BY <1>9, <3>4
    <3> QED BY <1>7, <2>4, <3>4, <3>5
  <2> QED BY <2>7, <2>8
<1>12. y + n \in Nat /\ y + n <= m[x + 1] /\ x # Len(m) /\ Len(t) = c + (y + n)
  BY <1>1, <1>2, <1>9
<1>13. Copied(t, m, x, y + n)
  <2>1. DataOk(t, m, Sums(m)[x] + (y + n))
    BY <1>4, <1>11
  <2>2. Len(t) = DataBefore(m, x) + IF IN_HOLE(x) THEN 0 ELSE y + n
    BY <1>5, <1>12
  <2>3. x \in 0 .. Len(m) /\ t \in Bytes
    BY <1>1, <1>2, <1>8
  <2> QED BY <1>12, <2>1, <2>2, <2>3 DEF Copied
<1> QED BY <1>8, <1>13

LEMMA SetMap ==
  ASSUME Inputs, CreateInv, set_map_in_resource
  PROVE  CreateInv' /\ pc' = "copy"
<1>1. /\ pc = "open" /\ file > Len(files) /\ length' = (IF map = <<>> THEN <<0>> ELSE map)
      /\ pc' = "copy" /\ file' = 1 /\ offset' = 0 /\ it' = [map_ix |-> 0, in_segment |-> 0]
      /\ UNCHANGED input /\ data' = data /\ UNCHANGED applyVars
  BY DEF set_map_in_resource
<1>2. Where /\ BuiltTo(map, leftover, Here) /\ data = <<>> /\ leftover = 0 /\ Fresh
  BY <1>1 DEF CreateInv, Building
<1>3. PICK m : m = map /\ Partial(m)
  BY <1>2 DEF BuiltTo
<1>4. PICK t : t = length'
  OBVIOUS
<1>5. PICK u \in Nat : u = Total /\ Here = u
  BY <1>1, <1>2, HereBounds
<1>6. PICK s \in Nat : s = Sum(m)
  BY <1>3, PartialTyped
<1>7. s <= u /\ (~BadConcat => s = u /\ HolesOk(m))
  <2>1. s + 0 <= u /\ (~BadConcat => s + 0 = u /\ HolesOk(m))
    BY <1>2, <1>3, <1>5, <1>6 DEF BuiltTo
  <2> QED BY <2>1
<1>8. MapOk(t) /\ Sum(t) = s /\ (HolesOk(m) => HolesOk(t))
  <2>1. CASE m # <<>>
    <3>1. t = m
      BY <1>1, <1>3, <1>4, <2>1
    <3> QED BY <1>3, <1>6, <2>1, <3>1 DEF Partial
  <2>2. CASE m = <<>>
    <3>0. PICK z \in Nat : z = 0
      OBVIOUS
    <3>1. t = Append(m, z)
      <4>1. Append(<<>>, 0) = <<0>>
        OBVIOUS
      <4> QED BY <1>1, <1>3, <1>4, <2>2, <3>0, <4>1
    <3>2. m \in Seq(Nat) /\ Len(m) = 0
      BY <1>3, <2>2, PartialTyped
    <3>3. MapOk(t)
      BY <1>3, <2>2, <3>1, PartialAppend
    <3>4. Sums(t)[Len(m) + 1] = Sum(m) + z /\ Len(t) = Len(m) + 1
      BY <3>1, <3>2, SumsAppend
    <3>5. Sum(t) = s
      BY <1>6, <3>0, <3>4 DEF Sum
    <3>6. HolesOk(m) => HolesOk(t)
      <4>1. ~IN_HOLE(Len(m))
        BY <3>2, Parity
      <4> QED BY <3>1, <3>2, <4>1, HolesAppend
    <3> QED BY <3>3, <3>5, <3>6
  <2> QED BY <2>1, <2>2
<1>9. Total' = Total /\ Whole' = Whole /\ (BadConcat') = BadConcat /\ files' = files /\ Inputs'
  BY <1>1, FilesKept
<1>10. LengthOk'
  <2>1. Sum(t) <= Total /\ (~BadConcat => Sum(t) = Total /\ HolesOk(t))
    BY <1>5, <1>7, <1>8
  <2>2. HolesOk(t) => HolesOk(t)'
    BY <1>9 DEF HolesOk
  <2> QED BY <1>4, <1>8, <1>9, <2>1, <2>2 DEF LengthOk
<1>11. PICK n \in Nat \ {0} : n = Len(files)
  BY FilesTyped
<1>12. Before(1) = 0 /\ \A j : Before(j)' = Before(j)
  BY <1>1, BeforeGrows, FilesKept
<1>13. Here' = 0
  <2>1. Here' = Before(1)' + 0
    BY <1>1 DEF Here
  <2>2. Before(1)' = 0
    BY <1>12
  <2> QED BY <2>1, <2>2
<1>14. Where'
  <2>1. 1 \in 1 .. n + 1 /\ ~(1 > n) /\ 1 \in 1 .. n
    OBVIOUS
  <2>2. 0 <= Len(files[1])
    BY <1>11, <2>1, FilesTyped
  <2> QED BY <1>1, <1>9, <1>11, <2>1, <2>2 DEF Where
<1>15. t \in Seq(Nat) /\ t # <<>>
  BY <1>8 DEF MapOk
<1>16. PICK l \in Nat \ {0} : l = Len(t)
  BY <1>15, LenProperties, EmptySeq
<1>17. Sums(t)[0] = 0 /\ DataBefore(t, 0) = 0 /\ t[1] \in Nat
  <2>1. 1 \in 1 .. Len(t)
    BY <1>16
  <2> QED BY <1>15, <2>1, DataGrows, SumsNat, EntryBounds
<1>18. Copied(<<>>, t, 0, 0)
  <2>1. DataOk(<<>>, t, 0 + 0)
    <3> SUFFICES ASSUME NEW e \in 1 .. Len(t), ~IN_HOLE(e - 1), NEW i \in Entry(t, e), i <= 0 + 0 PROVE FALSE
      BY DEF DataOk
    <3>1. i \in Nat \ {0}
      BY <1>15, PlaceIn
    <3> QED BY <3>1
  <2>2. 0 \in 0 .. l /\ 0 # l /\ 0 + 1 = 1 /\ 0 <= t[1] /\ (IF IN_HOLE(0) THEN 0 ELSE 0) = 0
    BY <1>17
  <2> QED BY <1>16, <1>17, <2>1, <2>2, NoBytes DEF Copied
<1>19. (Copied(data, length, it.map_ix, it.in_segment))'
  <2>1. Copied(<<>>, t, 0, 0)'
    BY <1>9, <1>18 DEF Copied, DataOk, Byte
  <2>2. data' = <<>> /\ (it.map_ix)' = 0 /\ (it.in_segment)' = 0
    BY <1>1, <1>2
  <2> QED BY <1>4, <2>1, <2>2
<1>20. (it \in [map_ix : Nat, in_segment : Nat])'
  BY <1>1
<1>21. (it.map_ix < Len(length) => Here = Sums(length)[it.map_ix] + it.in_segment)'
  BY <1>1, <1>4, <1>13, <1>17
<1>22. Copying'
  BY <1>10, <1>14, <1>19, <1>20, <1>21 DEF Copying
<1>23. Fresh'
  BY <1>1, <1>2 DEF Fresh, applyVars
<1> QED BY <1>1, <1>22, <1>23 DEF CreateInv

\* The state after a step of copying
LEMMA CopyingNext ==
  ASSUME Copying, Fresh, pc' = "copy", UNCHANGED <<input, length, applyVars>>, Where',
         NEW d, NEW x, NEW y, NEW h, d = data', it' = [map_ix |-> x, in_segment |-> y], h = Here',
         Copied(d, length, x, y), x < Len(length) => h = Sums(length)[x] + y
  PROVE  CreateInv' /\ pc' = "copy"
<1>1. UNCHANGED input /\ length' = length /\ Fresh'
  BY DEF Fresh, applyVars
<1>2. LengthOk'
  BY <1>1, LengthKept DEF Copying
<1>3. MapOk(length)
  BY DEF Copying, LengthOk
<1>4. Len(length) \in Nat
  BY <1>3, ManyEntries
<1>5. x \in Nat /\ y \in Nat
  BY <1>4 DEF Copied
<1>6. it'.map_ix = x /\ it'.in_segment = y /\ it' \in [map_ix : Nat, in_segment : Nat]
  BY <1>5
<1>7. Whole' = Whole
  BY <1>1, FilesKept
<1>8. PICK m : m = length
  OBVIOUS
<1>9. Copied(d, m, x, y)'
  BY <1>7, <1>8 DEF Copied, DataOk, Byte
<1>10. (Copied(data, length, it.map_ix, it.in_segment))'
  BY <1>1, <1>6, <1>8, <1>9
<1>11. Copying'
  BY <1>1, <1>2, <1>6, <1>10 DEF Copying
<1> QED BY <1>1, <1>11 DEF CreateInv

\* What Copying says of the numbers
LEMMA CopyingBounds ==
  ASSUME Inputs, Copying
  PROVE  /\ length \in Seq(Nat) /\ Len(length) \in Nat \ {0}
         /\ it.map_ix \in 0 .. Len(length) /\ it.in_segment \in Nat
         /\ it = [map_ix |-> it.map_ix, in_segment |-> it.in_segment]
         /\ it.map_ix < Len(length) => /\ it.map_ix + 1 \in 1 .. Len(length) /\ length[it.map_ix + 1] \in Nat
                                       /\ it.in_segment <= length[it.map_ix + 1]
                                       /\ Sums(length)[it.map_ix] \in Nat
<1>1. MapOk(length)
  BY DEF Copying, LengthOk
<1>2. length \in Seq(Nat)
  BY <1>1 DEF MapOk
<1>3. PICK l \in Nat \ {0} : l = Len(length)
  BY <1>1, ManyEntries
<1>4. PICK x \in 0 .. l : x = it.map_ix
  BY <1>3 DEF Copying, Copied
<1>5. it.in_segment \in Nat /\ (x < l => it.in_segment <= length[x + 1])
  BY <1>3, <1>4 DEF Copying, Copied
<1>6. it = [map_ix |-> it.map_ix, in_segment |-> it.in_segment]
  <2>1. it \in [map_ix : Nat, in_segment : Nat]
    BY DEF Copying
  <2> QED BY <2>1
<1>7. ASSUME x < l PROVE x + 1 \in 1 .. l /\ length[x + 1] \in Nat /\ Sums(length)[x] \in Nat
  <2>1. PICK e \in 1 .. l : e = x + 1 /\ e - 1 = x
    BY <1>7
  <2> QED BY <1>2, <1>3, <2>1, EntryBounds
<1> QED BY <1>2, <1>3, <1>4, <1>5, <1>6, <1>7

LEMMA ReadSkip ==
  ASSUME Inputs, CreateInv, read_skip
  PROVE  CreateInv' /\ pc' = "copy"
<1>1. /\ pc = "copy" /\ file <= Len(files) /\ it.map_ix < Len(length)
      /\ UNCHANGED <<input, archive, applyVars>> /\ UNCHANGED input /\ length' = length /\ data' = data
  BY DEF read_skip, archive
<1>2. Copying /\ Fresh
  BY <1>1 DEF CreateInv
<1>3. PICK m \in Seq(Nat) : m = length
  BY <1>2, CopyingBounds
<1>4. PICK x \in Nat : x = it.map_ix /\ x < Len(m)
  BY <1>1, <1>2, <1>3, CopyingBounds
<1>5. PICK y \in Nat : y = it.in_segment
  BY <1>2, CopyingBounds
<1>6. PICK q \in Nat : q = m[x + 1] /\ y <= q
  BY <1>1, <1>2, <1>3, <1>4, <1>5, CopyingBounds
<1>7. PICK p \in Nat : p = Sums(m)[x]
  BY <1>1, <1>2, <1>3, <1>4, CopyingBounds
<1>8. Where /\ Here = p + y
  BY <1>1, <1>2, <1>3, <1>4, <1>5, <1>7 DEF Copying
<1>9. PICK size \in Nat : size = Len(files[file])
  BY <1>1, <1>8, HereBounds
<1>10. PICK o \in Nat : o = offset /\ o <= size
  BY <1>1, <1>8, <1>9 DEF Where
<1>11. PICK d : d = data /\ Copied(d, m, x, y)
  BY <1>2, <1>3, <1>4, <1>5 DEF Copying
<1>12. it = [map_ix |-> x, in_segment |-> y]
  BY <1>2, <1>4, <1>5, CopyingBounds
<1>13. Left = q - y
  BY <1>3, <1>4, <1>5, <1>6 DEF Left
<1>14. \/ /\ IN_HOLE(x) /\ size - o < q - y /\ it' = [it EXCEPT !.in_segment = @ + size - o]
          /\ pc' = "copy" /\ file' = file + 1 /\ offset' = 0
       \/ /\ IN_HOLE(x) /\ size - o >= q - y /\ offset' = o + (q - y)
          /\ it' = [map_ix |-> x + 1, in_segment |-> 0] /\ pc' = pc /\ file' = file
       \/ /\ ~IN_HOLE(x) /\ q - y = 0 /\ it' = [map_ix |-> x + 1, in_segment |-> 0]
          /\ pc' = pc /\ file' = file /\ offset' = offset
  BY <1>4, <1>9, <1>10, <1>13, Zenon DEF read_skip, NextFile
<1>15. CASE /\ IN_HOLE(x) /\ size - o < q - y /\ it' = [it EXCEPT !.in_segment = @ + size - o]
            /\ pc' = "copy" /\ file' = file + 1 /\ offset' = 0
  <2>1. PICK n \in Nat : n = size - o /\ y + n <= q /\ y + size - o = y + n
    BY <1>10, <1>15
  <2>2. it' = [map_ix |-> x, in_segment |-> y + n]
    BY <1>12, <1>15, <2>1
  <2>3. Copied(d, m, x, y + n)
    BY <1>4, <1>6, <1>11, <1>15, <2>1, CopiedOn
  <2>4. Where' /\ Here' = (p + y) + n
    BY <1>1, <1>8, <1>9, <1>10, <1>15, <2>1, NextWhere
  <2>5. (p + y) + n = Sums(m)[x] + (y + n)
    BY <1>7
  <2>6. PICK z : z = y + n
    OBVIOUS
  <2> QED BY <1>1, <1>2, <1>3, <1>11, <1>15, <2>2, <2>3, <2>4, <2>5, <2>6, CopyingNext
<1>16. CASE /\ IN_HOLE(x) /\ size - o >= q - y /\ offset' = o + (q - y)
            /\ it' = [map_ix |-> x + 1, in_segment |-> 0] /\ pc' = pc /\ file' = file
  <2>1. PICK n \in Nat : n = q - y /\ y + n = q /\ n <= size - o
    BY <1>6, <1>16
  <2>a. Copied(d, m, x, y + n)
    <3>1. IN_HOLE(x) /\ y + n <= m[x + 1] /\ x < Len(m) /\ Copied(d, m, x, y)
      BY <1>4, <1>6, <1>11, <1>16, <2>1
    <3> QED BY <3>1, CopiedOn
  <2>2. Copied(d, m, x, m[x + 1])
    BY <1>6, <2>1, <2>a
  <2>3. Copied(d, m, x + 1, 0) /\ Sums(m)[x + 1] = p + q
    BY <1>4, <1>6, <1>7, <2>2, CopiedOver
  <2>4. Where' /\ Here' = (p + y) + n
    BY <1>1, <1>8, <1>9, <1>10, <1>16, <2>1, OnWhere
  <2>5. (p + y) + n = Sums(m)[x + 1] + 0
    BY <2>1, <2>3
  <2> QED BY <1>1, <1>2, <1>3, <1>11, <1>16, <2>3, <2>4, <2>5, CopyingNext
<1>17. CASE /\ ~IN_HOLE(x) /\ q - y = 0 /\ it' = [map_ix |-> x + 1, in_segment |-> 0]
            /\ pc' = pc /\ file' = file /\ offset' = offset
  <2>1. y = q
    BY <1>17
  <2>a. Copied(d, m, x, m[x + 1])
    BY <1>6, <1>11, <2>1
  <2>2. Copied(d, m, x + 1, 0) /\ Sums(m)[x + 1] = p + y
    BY <1>4, <1>6, <1>7, <2>1, <2>a, CopiedOver
  <2>3. Where' /\ Here' = p + y
    BY <1>1, <1>8, <1>17, SameWhere
  <2>4. p + y = Sums(m)[x + 1] + 0
    BY <2>2
  <2> QED BY <1>1, <1>2, <1>3, <1>11, <1>17, <2>2, <2>3, <2>4, CopyingNext
<1> QED BY <1>14, <1>15, <1>16, <1>17

LEMMA ReadEnd ==
  ASSUME Inputs, CreateInv, read_end
  PROVE  CreateInv' /\ pc' = "copy"
<1>1. /\ pc = "copy" /\ file <= Len(files) /\ it.map_ix = Len(length) /\ it' = it
      /\ pc' = "copy" /\ file' = file + 1 /\ offset' = 0
      /\ UNCHANGED <<input, archive, applyVars>> /\ UNCHANGED input /\ length' = length /\ data' = data
  BY DEF read_end, NextFile, archive
<1>2. Copying /\ Fresh
  BY <1>1 DEF CreateInv
<1>3. Where'
  BY <1>1, <1>2, NextWhere DEF Copying
<1>4. PICK x : x = it.map_ix
  OBVIOUS
<1>5. PICK y : y = it.in_segment
  OBVIOUS
<1>6. it' = [map_ix |-> x, in_segment |-> y]
  BY <1>1, <1>2, <1>4, <1>5, CopyingBounds
<1>7. Copied(data, length, x, y) /\ ~(x < Len(length))
  <2>1. Len(length) \in Nat
    BY <1>2, CopyingBounds
  <2> QED BY <1>1, <1>2, <1>4, <1>5, <2>1 DEF Copying
<1> QED BY <1>1, <1>2, <1>3, <1>6, <1>7, CopyingNext

LEMMA PreadRight ==
  ASSUME Inputs, Where, file <= Len(files), NEW n \in Nat
  PROVE  \E k \in Nat : /\ k <= n /\ k <= Len(files[file]) - offset /\ (k = n \/ k = Len(files[file]) - offset)
                        /\ Read(Pread(file, offset, n), Here, k)
<1>1. PICK size \in Nat : size = Len(files[file])
  BY HereBounds
<1>2. PICK o \in Nat : o = offset /\ o <= size
  BY <1>1 DEF Where
<1>3. PICK k \in Nat : k = Least(n, size - o) /\ k <= n /\ k <= size - o /\ (k = n \/ k = size - o)
  <2>1. PICK r \in Nat : r = size - o
    BY <1>2
  <2>2. CASE n <= r
    <3>1. Least(n, r) = n
      BY <2>2 DEF Least
    <3> QED BY <2>1, <2>2, <3>1
  <2>3. CASE ~(n <= r)
    <3>1. Least(n, r) = r /\ r <= n
      BY <2>3 DEF Least
    <3> QED BY <2>1, <3>1
  <2> QED BY <2>2, <2>3
<1>4. PICK h \in Nat : h = Here
  BY HereBounds
<1>5. PICK q \in Nat : q = Before(file)
  BY HereBounds
<1>6. h = q + o
  BY <1>2, <1>4, <1>5 DEF Here
<1>7. PICK b : b = Pread(file, offset, n)
  OBVIOUS
<1>8. b = [i \in 1 .. k |-> IF files[file][o + i] THEN q + o + i ELSE 0]
  BY <1>1, <1>2, <1>3, <1>5, <1>7 DEF Pread
<1>9. b \in [1 .. k -> Int]
  BY <1>8
<1>10. b \in Bytes /\ Len(b) = k
  BY <1>9 DEF Bytes
<1>11. ASSUME NEW i \in 1 .. k PROVE b[i] = Byte(h + i)
  <2>1. i \in Nat \ {0} /\ o + i <= size
    BY <1>2, <1>3
  <2>2. Whole[h + i] = files[file][o + i] /\ files[file][o + i] \in BOOLEAN
    BY <1>1, <1>2, <1>4, <2>1, ByteHere
  <2>3. b[i] = IF files[file][o + i] THEN q + o + i ELSE 0
    BY <1>8
  <2>4. q + o + i = h + i
    BY <1>6
  <2> QED BY <2>2, <2>3, <2>4 DEF Byte
<1>12. Read(b, h, k)
  BY <1>10, <1>11 DEF Read
<1> QED BY <1>1, <1>2, <1>3, <1>4, <1>7, <1>12

LEMMA ReadData ==
  ASSUME Inputs, CreateInv, read_data
  PROVE  CreateInv' /\ pc' = "copy"
<1>1. /\ pc = "copy" /\ file <= Len(files) /\ it.map_ix < Len(length) /\ ~IN_HOLE(it.map_ix) /\ Left > 0
      /\ UNCHANGED applyVars /\ UNCHANGED input /\ length' = length
  BY DEF read_data
<1>2. Copying /\ Fresh
  BY <1>1 DEF CreateInv
<1>3. PICK m \in Seq(Nat) : m = length
  BY <1>2, CopyingBounds
<1>4. PICK x \in Nat : x = it.map_ix /\ x < Len(m) /\ ~IN_HOLE(x)
  BY <1>1, <1>2, <1>3, CopyingBounds
<1>5. PICK y \in Nat : y = it.in_segment
  BY <1>2, CopyingBounds
<1>6. PICK q \in Nat : q = m[x + 1] /\ y <= q
  BY <1>1, <1>2, <1>3, <1>4, <1>5, CopyingBounds
<1>7. PICK p \in Nat : p = Sums(m)[x]
  BY <1>1, <1>2, <1>3, <1>4, CopyingBounds
<1>8. Where /\ Here = p + y
  BY <1>1, <1>2, <1>3, <1>4, <1>5, <1>7 DEF Copying
<1>9. PICK size \in Nat : size = Len(files[file])
  BY <1>1, <1>8, HereBounds
<1>10. PICK o \in Nat : o = offset /\ o <= size
  BY <1>1, <1>8, <1>9 DEF Where
<1>11. PICK d : d = data /\ Copied(d, m, x, y)
  BY <1>2, <1>3, <1>4, <1>5 DEF Copying
<1>12. it = [map_ix |-> x, in_segment |-> y]
  BY <1>2, <1>4, <1>5, CopyingBounds
<1>13. Left = q - y
  BY <1>3, <1>4, <1>5, <1>6 DEF Left
<1>14. BufLen \in Nat \ {0}
  BY ResourceAssumption
<1>15. PICK want \in Nat : want = Least(Left, BufLen) /\ want > 0 /\ want <= q - y
  BY <1>1, <1>6, <1>13, <1>14 DEF Least
<1>16. PICK b : b = Pread(file, offset, want)
  OBVIOUS
<1>17. PICK n \in Nat : n <= want /\ n <= size - o /\ (n = want \/ n = size - o) /\ Read(b, p + y, n)
  BY <1>1, <1>8, <1>9, <1>10, <1>16, PreadRight
<1>18. b \in Bytes /\ Len(b) = n /\ (b = <<>> <=> n = 0)
  <2>1. b \in Bytes /\ Len(b) = n
    BY <1>17 DEF Read
  <2> QED BY <2>1, BytesLen, NoBytes
<1>19. /\ data' = d \o b
       /\ it' = IF n = q - y THEN [map_ix |-> x + 1, in_segment |-> 0] ELSE [it EXCEPT !.in_segment = @ + n]
       /\ \/ b = <<>> /\ pc' = "copy" /\ file' = file + 1 /\ offset' = 0
          \/ b # <<>> /\ offset' = offset + n /\ pc' = pc /\ file' = file
  BY <1>4, <1>11, <1>13, <1>15, <1>16, <1>18, Zenon DEF read_data, NextFile
<1>20. Where' /\ Here' = (p + y) + n
  <2>1. CASE b = <<>> /\ pc' = "copy" /\ file' = file + 1 /\ offset' = 0
    <3>1. size - o = 0 /\ n = 0
      BY <1>10, <1>15, <1>17, <1>18, <2>1
    <3>2. Where' /\ Here' = (p + y) + (size - o)
      BY <1>1, <1>8, <1>9, <1>10, <2>1, NextWhere
    <3> QED BY <3>1, <3>2
  <2>2. CASE b # <<>> /\ offset' = offset + n /\ pc' = pc /\ file' = file
    BY <1>1, <1>8, <1>9, <1>10, <1>17, <2>2, OnWhere
  <2> QED BY <1>19, <2>1, <2>2
<1>21. pc' = "copy"
  BY <1>1, <1>19
<1>22. PICK e : e = d \o b
  OBVIOUS
<1>23. Copied(e, m, x, y + n)
  <2>1. y + n <= m[x + 1]
    BY <1>6, <1>15, <1>17
  <2>2. Read(b, Sums(m)[x] + y, n)
    BY <1>7, <1>17
  <2> QED BY <1>4, <1>11, <1>22, <2>1, <2>2, CopiedData
<1>24. PICK z \in Nat : z = y + n
  OBVIOUS
<1>25. CASE n = q - y
  <2>1. it' = [map_ix |-> x + 1, in_segment |-> 0]
    BY <1>19, <1>25
  <2>2. y + n = q
    BY <1>6, <1>25
  <2>3. Copied(e, m, x, m[x + 1])
    BY <1>6, <1>23, <2>2
  <2>4. Copied(e, m, x + 1, 0) /\ Sums(m)[x + 1] = p + q
    BY <1>4, <1>6, <1>7, <2>3, CopiedOver
  <2>5. (p + y) + n = Sums(m)[x + 1] + 0
    BY <2>2, <2>4
  <2> QED BY <1>1, <1>2, <1>3, <1>19, <1>20, <1>21, <1>22, <2>1, <2>4, <2>5, CopyingNext
<1>26. CASE n # q - y
  <2>1. it' = [map_ix |-> x, in_segment |-> z]
    BY <1>12, <1>19, <1>24, <1>26
  <2>2. (p + y) + n = Sums(m)[x] + z
    BY <1>7, <1>24
  <2>3. Copied(e, m, x, z)
    BY <1>23, <1>24
  <2> QED BY <1>1, <1>2, <1>3, <1>19, <1>20, <1>21, <1>22, <2>1, <2>2, <2>3, CopyingNext
<1> QED BY <1>25, <1>26

\* When the files are at their end, so is the map.
LEMMA AllCopied ==
  ASSUME Inputs, Copying, file > Len(files)
  PROVE  /\ Len(data) = sparse_file_data_size(length) /\ DataOk(data, length, Sum(length)) /\ data \in Bytes
         /\ LengthOk
<1>1. PICK m \in Seq(Nat) : m = length /\ MapOk(m)
  BY CopyingBounds DEF Copying, LengthOk
<1>2. PICK l \in Nat \ {0} : l = Len(m)
  BY <1>1, CopyingBounds
<1>3. PICK x \in 0 .. l : x = it.map_ix
  BY <1>1, <1>2, CopyingBounds
<1>4. PICK y \in Nat : y = it.in_segment
  BY CopyingBounds
<1>5. Copied(data, m, x, y) /\ data \in Bytes /\ LengthOk
  BY <1>1, <1>3, <1>4 DEF Copying, Copied
<1>6. PICK t \in Nat : t = Sum(m)
  BY <1>1, <1>2, SumsNat DEF Sum
<1>7. sparse_file_data_size(m) = DataBefore(m, l)
  BY <1>1, <1>2, DataGrows
<1>8. CASE x = l
  <2>1. y = 0 /\ Len(data) = DataBefore(m, l) + 0 /\ DataOk(data, m, Sums(m)[l] + 0)
    BY <1>2, <1>5, <1>8 DEF Copied
  <2>2. PICK c \in Nat : c = DataBefore(m, l)
    <3>1. l \in 0 .. Len(m)
      BY <1>2
    <3> QED BY <3>1, DataGrows
  <2>3. DataOk(data, m, t + 0) /\ t + 0 = t
    BY <1>2, <1>6, <2>1 DEF Sum
  <2> QED BY <1>1, <1>5, <1>6, <1>7, <2>1, <2>2, <2>3
<1>9. CASE x # l
  <2>1. PICK e \in 1 .. l : e = x + 1 /\ e - 1 = x /\ e \in 0 .. l
    BY <1>9
  <2>2. PICK q \in Nat : q = m[e] /\ y <= q
    BY <1>1, <1>2, <1>3, <1>4, <1>9, <2>1, CopyingBounds
  <2>3. PICK p \in Nat : p = Sums(m)[x]
    BY <1>1, <1>2, <2>1, EntryBounds
  <2>4. Sums(m)[e] = p + q /\ p + q <= t
    BY <1>1, <1>2, <1>6, <2>1, <2>2, <2>3, EntryBounds
  <2>5. PICK u \in Nat : u = Total /\ Here = u
    BY HereBounds DEF Copying
  <2>6. p + y = u
    <3>1. it.map_ix < Len(length)
      BY <1>1, <1>2, <1>3, <1>9
    <3>2. Here = Sums(length)[it.map_ix] + it.in_segment
      BY <3>1 DEF Copying
    <3> QED BY <1>1, <1>3, <1>4, <2>3, <2>5, <3>2
  <2>7. t <= u
    BY <1>1, <1>5, <1>6, <2>5 DEF LengthOk
  <2>8. y = q /\ p + q = t
    BY <2>2, <2>4, <2>6, <2>7
  <2>9. e = l
    <3> SUFFICES ASSUME e # l PROVE FALSE
      OBVIOUS
    <3>1. PICK g \in 2 .. l : g = e + 1 /\ g - 1 = e /\ g \in 1 .. l
      BY <2>1
    <3>2. PICK r \in Nat : r = m[g] /\ r > 0
      BY <1>1, <1>2, <3>1, EntryBounds DEF MapOk
    <3>3. Sums(m)[g] = t + r /\ Sums(m)[g] <= t
      BY <1>1, <1>2, <1>6, <2>4, <2>8, <3>1, <3>2, EntryBounds
    <3> QED BY <3>2, <3>3
  <2>10. DataOk(data, m, t)
    <3>1. DataOk(data, m, p + y)
      BY <1>5, <2>3 DEF Copied
    <3> QED BY <2>8, <3>1
  <2>11. PICK c \in Nat : c = DataBefore(m, x)
    BY <1>1, <1>2, DataGrows
  <2>12. DataBefore(m, e) = c + IF IN_HOLE(x) THEN 0 ELSE q
    BY <1>1, <1>2, <2>1, <2>2, <2>11, DataGrows
  <2>13. Len(data) = c + IF IN_HOLE(x) THEN 0 ELSE y
    BY <1>5, <2>11 DEF Copied
  <2> QED BY <1>1, <1>5, <1>6, <1>7, <2>8, <2>9, <2>10, <2>12, <2>13
<1> QED BY <1>8, <1>9

LEMMA StoredTyped ==
  ASSUME NEW d \in Bytes, NEW how, how = "none" \/ d # <<>>
  PROVE  Stored(d, how) \in Bytes /\ (how = "none" => Stored(d, how) = d)
<1>1. CASE how = "none"
  BY <1>1 DEF Stored
<1>2. CASE how # "none"
  <2>1. PICK n \in Nat : n = Len(d) /\ n > 0
    BY <1>2, BytesLen
  <2>2. PICK k \in 0 .. Len(d) : k = n - 1
    BY <2>1
  <2>3. Take(d, k) \in Bytes
    BY TakeDrop
  <2>4. PICK f \in Bytes : f = Front(d)
    BY <2>1, <2>2, <2>3 DEF Front, Take
  <2>5. Append(f, Wrong) \in Bytes
    BY AppendProperties DEF Bytes, Wrong
  <2> QED BY <1>2, <2>4, <2>5 DEF Stored
<1> QED BY <1>1, <1>2

LEMMA Delivers ==
  ASSUME Inputs, CreateInv, Deliver
  PROVE  ApplyInv' /\ pc' = "header"
<1>1. /\ pc = "copy" /\ file > Len(files) /\ blake2b' = data /\ pc' = "header"
      /\ UNCHANGED input /\ length' = length /\ UNCHANGED applyVars
  BY DEF Deliver
<1>2. PICK how \in Damages : (how = "none" \/ data # <<>>) /\ damage' = how /\ data' = Stored(data, how)
  BY DEF Deliver
<1>3. Copying /\ Fresh
  BY <1>1 DEF CreateInv
<1>4. PICK d \in Bytes : d = data
  BY <1>1, <1>3, AllCopied
<1>5. Len(d) = sparse_file_data_size(length) /\ DataOk(d, length, Sum(length)) /\ LengthOk
  BY <1>1, <1>3, <1>4, AllCopied
<1>6. data' \in Bytes /\ (how = "none" => data' = d)
  BY <1>2, <1>4, StoredTyped
<1>7. LengthOk'
  BY <1>1, <1>5, LengthKept
<1>8. PICK m : m = length
  OBVIOUS
<1>9. PICK n : n = Sum(length)
  OBVIOUS
<1>10. DataOk(d, m, n)'
  BY <1>1, <1>5, <1>8, <1>9, DataKept
<1>11. Delivered'
  BY <1>1, <1>4, <1>5, <1>6, <1>7, <1>8, <1>9, <1>10 DEF Delivered
<1>12. Fresh'
  BY <1>1, <1>3 DEF Fresh, applyVars
<1> QED BY <1>1, <1>2, <1>4, <1>6, <1>11, <1>12 DEF ApplyInv

----------------------------------------------------------------------------
(* The inductive invariant                                                 *)

CreateSide == {"open", "seek", "end", "copy"}
ApplySide == {"header", "read", "hole", "check", "done", "failed"}

\* What a resource is while it is built, copied, delivered and applied.
RInv ==
  /\ Inputs /\ w.ok
  /\ pc \in CreateSide \union ApplySide \union {"undefined"}
  /\ CreateInv /\ ApplyInv

LEMMA InitRight ==
  ASSUME Init
  PROVE  RInv
<1>1. /\ pc = "open" /\ files \in HostPaths /\ skip_holes \in BOOLEAN /\ file = 1 /\ offset = 0 /\ map = <<>>
      /\ leftover = 0 /\ started = FALSE /\ data = <<>> /\ got = <<>> /\ last_offset = 0 /\ units = 0
      /\ w = ptbw_init(<<>>)
  BY DEF Init
<1>2. Inputs
  BY <1>1 DEF Inputs
<1>3. PICK n \in Nat \ {0} : n = Len(files)
  BY <1>2, FilesTyped
<1>4. Where
  <2>1. 1 \in 1 .. n + 1 /\ 1 \in 1 .. n /\ ~(1 > n)
    OBVIOUS
  <2>2. 0 <= Len(files[1])
    BY <1>2, <1>3, <2>1, FilesTyped
  <2> QED BY <1>1, <1>3, <2>1, <2>2 DEF Where
<1>5. Here = 0
  BY <1>1, <1>2, BeforeGrows DEF Here
<1>6. Partial(<<>>)
  BY DEF Partial
<1>7. <<>> \in Seq(Nat) /\ Len(<<>>) = 0
  BY EmptySeq
<1>8. Sum(<<>>) = 0
  BY <1>7, SumsNat DEF Sum
<1>9. BuiltTo(<<>>, 0, 0)
  <2>1. HolesOk(<<>>)
    BY <1>7 DEF HolesOk
  <2>2. ~IN_HOLE(Len(<<>>))
    BY <1>7, Parity
  <2>3. 0 \in Nat /\ 0 + 0 = 0 /\ 0 <= 0
    OBVIOUS
  <2> QED BY <1>6, <1>8, <2>1, <2>2, <2>3 DEF BuiltTo
<1>10. MapMax \in Nat /\ MapMax > 2
  BY ResourceAssumption
<1>11. Building
  <2>1. BuiltTo(map, leftover, Here)
    BY <1>1, <1>5, <1>9
  <2>2. started \in BOOLEAN /\ data = <<>>
    BY <1>1
  <2>3. Len(map) = 0 /\ 0 < MapMax /\ 0 <= 1
    BY <1>1, <1>7, <1>10
  <2>4. pc = "open" => /\ leftover = 0 /\ offset = 0 /\ Len(map) < MapMax
                       /\ ~skip_holes => Len(map) <= 1
                       /\ ~started => map = <<>>
    BY <1>1, <2>3
  <2>5. pc = "open" /\ pc # "seek" /\ pc # "end"
    BY <1>1
  <2> QED BY <1>4, <2>1, <2>2, <2>4, <2>5 DEF Building
<1>12. CreateInv
  BY <1>1, <1>11 DEF CreateInv, Fresh
<1>13. ApplyInv
  BY <1>1 DEF ApplyInv
<1>14. w.ok
  BY <1>1 DEF ptbw_init
<1> QED BY <1>1, <1>2, <1>12, <1>13, <1>14 DEF RInv, CreateSide

\* A step of the create side leaves the apply side alone, and the other way round.
LEMMA Creates ==
  ASSUME RInv, UNCHANGED <<input, applyVars>>, CreateInv', pc' \in CreateSide \union {"undefined"}
  PROVE  RInv'
<1>1. w' = w /\ Inputs'
  BY FilesKept DEF applyVars, RInv
<1>2. ApplyInv'
  BY DEF ApplyInv, CreateSide
<1> QED BY <1>1, <1>2 DEF RInv

LEMMA Applies ==
  ASSUME RInv, UNCHANGED input, ApplyInv', w'.ok, pc' \in ApplySide
  PROVE  RInv'
<1>1. Inputs'
  BY FilesKept DEF RInv
<1>2. CreateInv'
  BY DEF CreateInv, ApplySide
<1> QED BY <1>1, <1>2 DEF RInv

LEMMA Stutters ==
  ASSUME RInv, UNCHANGED vars
  PROVE  RInv'
<1>1. UNCHANGED input /\ UNCHANGED archive /\ UNCHANGED createVars /\ UNCHANGED applyVars /\ pc' = pc
  BY DEF vars
<1>2. Total' = Total /\ Whole' = Whole /\ (BadConcat') = BadConcat /\ files' = files /\ skip_holes' = skip_holes
  BY <1>1, FilesKept
<1>3. /\ file' = file /\ offset' = offset /\ map' = map /\ leftover' = leftover /\ started' = started /\ it' = it
      /\ length' = length /\ data' = data /\ damage' = damage /\ blake2b' = blake2b
      /\ sink' = sink /\ rd' = rd /\ got' = got /\ last_offset' = last_offset /\ w' = w /\ units' = units
  BY <1>1 DEF createVars, archive, applyVars
<1>4. Inputs' /\ w'.ok
  BY <1>1, <1>3, FilesKept DEF RInv
<1>5. LengthOk => LengthOk'
  BY <1>1, <1>3, LengthKept
<1>6. Where => Where' /\ Here' = Here
  BY <1>1, <1>3, SameWhere
<1>7. Fresh => Fresh'
  BY <1>3 DEF Fresh
<1>8. CreateInv'
  <2>1. CASE pc \in {"open", "seek", "end"}
    <3>1. Building /\ Fresh
      BY <2>1 DEF CreateInv, RInv
    <3>2. PICK m : m = map
      OBVIOUS
    <3>3. PICK l : l = leftover
      OBVIOUS
    <3>4. PICK h : h = Here
      OBVIOUS
    <3>5. BuiltTo(m, l, h)'
      BY <1>1, <3>1, <3>2, <3>3, <3>4, BuiltKept DEF Building
    <3>6. BuiltTo(map, leftover, Here)'
      BY <1>3, <1>6, <3>1, <3>2, <3>3, <3>4, <3>5 DEF Building
    <3>7. Building'
      BY <1>1, <1>2, <1>3, <1>6, <3>1, <3>6 DEF Building, Seeking, Ahead
    <3> QED BY <1>1, <1>7, <2>1, <3>1, <3>7 DEF CreateInv
  <2>2. CASE pc = "copy"
    <3>1. Copying /\ Fresh
      BY <2>2 DEF CreateInv, RInv
    <3>2. (Copied(data, length, it.map_ix, it.in_segment))'
      BY <1>2, <1>3, <3>1 DEF Copying, Copied, DataOk, Byte
    <3>3. Copying'
      BY <1>3, <1>5, <1>6, <3>1, <3>2 DEF Copying
    <3> QED BY <1>1, <1>7, <2>2, <3>1, <3>3 DEF CreateInv
  <2>3. CASE pc \notin {"open", "seek", "end", "copy"}
    BY <1>1, <2>3 DEF CreateInv
  <2> QED BY <2>1, <2>2, <2>3
<1>9. ApplyInv'
  <2>1. ApplyInv
    BY DEF RInv
  <2>2. Delivered => Delivered'
    BY <1>1, <1>3, DeliveredKept DEF Delivered
  <2>3. Reading => Reading'
    BY <1>3 DEF Reading
  <2>4. Placed => Placed'
    BY <1>3 DEF Placed
  <2>5. Applying => Applying'
    BY <1>3, <2>2, <2>3, <2>4 DEF Applying
  <2>6. /\ Hole' = Hole /\ Extent' = Extent /\ (Written(w, last_offset))' = Written(w, last_offset)
        /\ Reported(last_offset)' = Reported(last_offset) /\ Reported(last_offset + Hole)' = Reported(last_offset + Hole)
        /\ (Written(w, Extent))' = Written(w, Extent) /\ (Flushed(w, Extent))' = Flushed(w, Extent)
        /\ (Verified') = Verified /\ (Excused') = Excused
    BY <1>3 DEF Hole, Extent, Written, Reported, count_holes, Flushed, Verified, Excused, HasHoles
  <2> QED BY <1>1, <1>3, <1>7, <2>1, <2>2, <2>5, <2>6 DEF ApplyInv
<1> QED BY <1>1, <1>4, <1>8, <1>9 DEF RInv

LEMMA NextRight ==
  ASSUME RInv, [Next]_vars
  PROVE  RInv'
<1>1. Inputs /\ w.ok /\ CreateInv /\ ApplyInv
  BY DEF RInv
<1>2. CASE build_map_start
  <2>1. CreateInv' /\ pc' \in CreateSide \union {"undefined"}
    BY <1>1, <1>2, MapStart DEF CreateSide
  <2> QED BY <1>2, <2>1, Creates DEF build_map_start
<1>3. CASE build_map_seek
  <2>1. CreateInv' /\ pc' \in CreateSide
    BY <1>1, <1>3, MapSeek DEF CreateSide
  <2> QED BY <1>3, <2>1, Creates DEF build_map_seek
<1>4. CASE build_map_end
  <2>1. CreateInv' /\ pc' \in CreateSide
    BY <1>1, <1>4, MapEnd DEF CreateSide
  <2> QED BY <1>4, <2>1, Creates DEF build_map_end
<1>5. CASE set_map_in_resource
  <2>1. CreateInv' /\ pc' \in CreateSide
    BY <1>1, <1>5, SetMap DEF CreateSide
  <2> QED BY <1>5, <2>1, Creates DEF set_map_in_resource
<1>6. CASE read_skip
  <2>1. CreateInv' /\ pc' \in CreateSide
    BY <1>1, <1>6, ReadSkip DEF CreateSide
  <2> QED BY <1>6, <2>1, Creates DEF read_skip
<1>7. CASE read_data
  <2>1. CreateInv' /\ pc' \in CreateSide
    BY <1>1, <1>7, ReadData DEF CreateSide
  <2> QED BY <1>7, <2>1, Creates DEF read_data
<1>8. CASE read_end
  <2>1. CreateInv' /\ pc' \in CreateSide
    BY <1>1, <1>8, ReadEnd DEF CreateSide
  <2> QED BY <1>8, <2>1, Creates DEF read_end
<1>9. CASE Deliver
  <2>1. ApplyInv' /\ pc' \in ApplySide
    BY <1>1, <1>9, Delivers DEF ApplySide
  <2>2. UNCHANGED input /\ w' = w
    BY <1>9 DEF Deliver, applyVars
  <2> QED BY <1>1, <2>1, <2>2, Applies
<1>10. CASE StartResource
  <2>1. pc' \in ApplySide /\ UNCHANGED input
    BY <1>10 DEF StartResource, ApplySide
  <2> QED BY <1>1, <1>10, <2>1, Applies, Starts
<1>11. CASE read_leftover
  <2>1. pc' \in ApplySide /\ UNCHANGED input
    BY <1>11 DEF read_leftover, Processed, ApplySide
  <2> QED BY <1>1, <1>11, <2>1, Applies, ReadLeftover
<1>12. CASE read_more
  <2>1. pc' \in ApplySide /\ UNCHANGED input
    BY <1>12 DEF read_more, Processed, ApplySide
  <2> QED BY <1>1, <1>12, <2>1, Applies, ReadMore
<1>13. CASE read_error
  <2>1. pc' \in ApplySide /\ UNCHANGED input /\ w' = w
    BY <1>13 DEF read_error, ApplySide, applyVars
  <2> QED BY <1>1, <1>13, <2>1, Applies, ReadError
<1>14. CASE read_eof
  <2>1. pc' \in ApplySide /\ UNCHANGED input /\ w' = w
    BY <1>14 DEF read_eof, ApplySide, applyVars
  <2> QED BY <1>1, <1>14, <2>1, Applies, ReadEof
<1>15. CASE final_hole
  <2>1. pc' \in ApplySide /\ UNCHANGED input
    BY <1>15 DEF final_hole, ApplySide
  <2> QED BY <1>1, <1>15, <2>1, Applies, FinalHole
<1>16. CASE finish
  <2>1. pc' \in ApplySide /\ UNCHANGED input
    BY <1>16 DEF finish, ApplySide
  <2> QED BY <1>1, <1>16, <2>1, Applies, Finish
<1>17. CASE Stopped \/ UNCHANGED vars
  BY <1>17, Stutters DEF Stopped
<1> QED BY <1>2, <1>3, <1>4, <1>5, <1>6, <1>7, <1>8, <1>9, <1>10, <1>11, <1>12, <1>13, <1>14, <1>15, <1>16, <1>17 DEF Next

----------------------------------------------------------------------------
(* What a function reports as written                                      *)

\* When the function is done, the last byte that was read and the hole at the
\* end reach the end of the map.
LEMMA DoneAtEnd ==
  ASSUME RInv, pc = "done"
  PROVE  /\ Delivered /\ Reading /\ Placed /\ Verified /\ Flushed(w, Extent)
         /\ Extent = Sum(length) /\ rd.map_ix = Len(length) /\ last_offset + Hole = Sum(length)
<1>1. Delivered /\ Reading /\ Placed /\ Verified /\ Flushed(w, Extent)
  BY DEF RInv, ApplyInv, Applying
<1>2. rd.map_ix = Len(length) /\ Extent = Sum(length)
  BY <1>1, AtEnd
<1>3. MapOk(length) /\ Position(length, rd.map_ix, rd.in_block, last_offset)
  BY <1>1 DEF Delivered, LengthOk, Reading
<1>4. PICK n \in Nat : n = Sum(length)
  BY <1>3, HoleRight
<1>5. PICK h \in Nat : h = Hole
  BY <1>3, HoleRight
<1>6. CASE IN_HOLE(Len(length))
  <2>1. h = 0 /\ last_offset = n
    BY <1>2, <1>3, <1>4, <1>5, <1>6, HoleRight, PositionBounds
  <2> QED BY <1>1, <1>2, <1>4, <1>5, <2>1
<1>7. CASE ~IN_HOLE(Len(length))
  <2>1. last_offset = Sums(length)[Len(length) - 1] /\ last_offset \in Nat
    BY <1>2, <1>3, <1>7, PositionBounds
  <2>2. n - h = Sums(length)[Len(length) - 1]
    BY <1>3, <1>4, <1>5, <1>7, HoleRight
  <2> QED BY <1>1, <1>2, <1>4, <1>5, <2>1, <2>2
<1> QED BY <1>6, <1>7

LEMMA DoneIntact ==
  ASSUME RInv, pc = "done", ~BadConcat
  PROVE  AsConcatenated
<1>1. /\ Delivered /\ Reading /\ Placed /\ Verified /\ Flushed(w, Extent) /\ Extent = Sum(length)
      /\ rd.map_ix = Len(length)
  BY DoneAtEnd
<1>2. PICK m \in Seq(Nat) : m = length /\ MapOk(m)
  BY <1>1 DEF Delivered, LengthOk, MapOk
<1>3. PICK n \in Nat : n = Sum(m)
  BY <1>2, HoleRight
<1>4. n = Total /\ HolesOk(m)
  BY <1>1, <1>2, <1>3 DEF Delivered, LengthOk
<1>5. Len(Whole) = n /\ \A i \in 1 .. n : Whole[i] \in BOOLEAN
  BY <1>4, WholeTyped DEF RInv
<1>6. PICK o \in Bytes : o = w.out
  BY <1>1 DEF Flushed, WriterState
<1>7. PICK k \in Nat : k = Len(o)
  BY BytesLen
<1>8. n <= k /\ (sink # "raw" => k = n) /\ (sink = "raw" => Behind(o, n)) /\ w.index = 0
  BY <1>1, <1>2, <1>3, <1>6, <1>7 DEF Flushed
<1>9. PICK last \in Nat : last = last_offset
  BY <1>1, <1>2, PositionBounds DEF Reading
<1>10. PlacedIn(w, got, m, last) /\ RestOf(w, m, last, sink)
  BY <1>1, <1>2, <1>9 DEF Placed
<1>11. DataOk(got, m, n)
  BY <1>1, <1>2, <1>3 DEF Delivered, Verified
<1>12. ASSUME NEW i \in 1 .. k PROVE ByteOk(i)
  <2>0. i \in Nat \ {0} /\ i <= k
    OBVIOUS
  <2>1. Shown(w, i) = o[i]
    BY <1>6, <1>7, <1>8, <2>0 DEF Shown, Buffered, At
  <2>2. CASE i <= n /\ Whole[i]
    <3>1. i \in 1 .. Sum(m)
      BY <1>3, <2>0, <2>2
    <3>2. PICK e \in 1 .. Len(m) : i \in Entry(m, e)
      BY <3>1, Covered
    <3>3. ~IN_HOLE(e - 1)
      BY <1>4, <2>2, <3>2 DEF HolesOk
    <3>4. i <= last
      <4>1. Position(m, rd.map_ix, rd.in_block, last) /\ Len(m) \in Nat
        BY <1>1, <1>2, <1>9, LenProperties DEF Reading
      <4>2. i > last => rd.map_ix < Len(m)
        BY <1>2, <3>2, <3>3, <4>1, PositionCovers
      <4> QED BY <1>1, <1>2, <2>0, <4>1, <4>2
    <3>5. Shown(w, i) = Byte(i)
      BY <1>10, <1>11, <2>2, <3>2, <3>3, <3>4 DEF PlacedIn, DataOk
    <3> QED BY <1>5, <1>6, <2>1, <2>2, <3>5 DEF ByteOk, Byte
  <2>3. CASE ~(i <= n /\ Whole[i]) /\ DataUpTo(m, i, last)
    <3>1. PICK e \in 1 .. Len(m) : ~IN_HOLE(e - 1) /\ i \in Entry(m, e) /\ i <= last
      BY <2>3 DEF DataUpTo
    <3>2. i <= n
      BY <1>3, <3>1, PlaceIn
    <3>3. Shown(w, i) = Byte(i)
      BY <1>10, <1>11, <3>1, <3>2 DEF PlacedIn, DataOk
    <3>4. o[i] = 0
      BY <2>1, <2>3, <3>2, <3>3 DEF Byte
    <3>5. (i - 1) \div Bk <= (n - 1) \div Bk
      <4>1. PICK a \in Nat : a = i - 1
        BY <2>0
      <4>2. PICK b \in Nat : b = n - 1 /\ a <= b
        BY <2>0, <3>2, <4>1
      <4>3. a \div Bk <= b \div Bk
        BY <4>2, BlockAssumption, DivGrows
      <4> QED BY <4>1, <4>2, <4>3
    <3> QED BY <1>5, <1>6, <2>3, <3>4, <3>5 DEF ByteOk
  <2>4. CASE ~(i <= n /\ Whole[i]) /\ ~DataUpTo(m, i, last)
    <3>1. o[i] = 0 \/ (sink = "raw" /\ o[i] = Old)
      BY <1>10, <2>0, <2>1, <2>4 DEF RestOf
    <3>2. sink = "raw" => (i - 1) \div Bk <= (n - 1) \div Bk \/ o[i] = Old
      BY <1>7, <1>8 DEF Behind, InLast
    <3> QED BY <1>5, <1>6, <2>4, <3>1, <3>2 DEF ByteOk
  <2> QED BY <2>2, <2>3, <2>4
<1> QED BY <1>5, <1>6, <1>7, <1>8, <1>12 DEF AsConcatenated

----------------------------------------------------------------------------
(* Theorems                                                                *)

\* The map agrees with the files while it is built, the data with the map while
\* it is copied, and the destination with the data while it is written, whatever
\* the files, the buffer, the block and the pieces of the archive.
THEOREM ResourceInvariant == Spec => []RInv
<1>1. Init => RInv
  BY InitRight
<1>2. RInv /\ [Next]_vars => RInv'
  BY NextRight
<1> QED BY <1>1, <1>2, PTL DEF Spec

\* What a function reports as written is the files of host-path in a row.
THEOREM WrittenIntact == Spec => []ResourceIntact
<1>1. RInv => ResourceIntact
  BY DoneIntact DEF ResourceIntact, RInv
<1> QED BY <1>1, ResourceInvariant, PTL

\* The apply side accepts what the create side made of the files.
THEOREM UndamagedIsApplied == Spec => []UndamagedApplies
<1>1. RInv => UndamagedApplies
  BY DEF RInv, ApplyInv, Excused, UndamagedApplies
<1> QED BY <1>1, ResourceInvariant, PTL

\* What is reported adds up to what was announced.
THEOREM ProgressAddsUp == Spec => []ProgressExact
<1>1. RInv => ProgressExact
  <2> SUFFICES ASSUME RInv, pc = "done" PROVE units = process_resource_compute_progress
    BY DEF ProgressExact
  <2>1. last_offset + Hole = Sum(length) /\ Verified /\ units = Reported(last_offset + Hole)
    BY DoneAtEnd DEF RInv, ApplyInv
  <2> QED BY <2>1 DEF Reported, Verified, process_resource_compute_progress, sparse_file_size
<1> QED BY <1>1, ResourceInvariant, PTL

=============================================================================
