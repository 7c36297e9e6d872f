--------------------------- MODULE ArchiveProofs ---------------------------
(***************************************************************************)
(* Proofs about archives: what fwup -c and -S leave, whatever happens to   *)
(* the commands and to the files meanwhile, and what fwup -V accepts.      *)
(***************************************************************************)
EXTENDS Archive, FiniteSetTheorems, SequenceTheorems, NaturalsInduction, WellFoundedInduction,
  TLAPS

----------------------------------------------------------------------------
(* Types                                                                   *)

Resource == [name : Name, sparse : BOOLEAN, lte : Nat]
MetaResource == [name : Name, sparse : BOOLEAN, len : Nat, hash : Seq(Units)]
Meta == [size : {"none", "short", "fits", "long"}, res : Seq(MetaResource)]
AnyEntry == [path : Path, by : Keys \cup {None, "short"}, meta : Meta,
             size : Nat \cup {Unset}, data : Seq(Units)]
AnyArchive == [entries : Seq(AnyEntry), closed : BOOLEAN, exists : BOOLEAN]
Creating == [op : {"create"}, step : {"map", "hash", "open", "add"}, ix : Nat \ {0}, cfg : Seq(Resource),
             key : Keys \cup {None}, fatal : BOOLEAN, meta : Meta]
Signing == [op : {"sign"}, step : {"open", "copy"}, ix : Nat \ {0}, key : Keys,
            found : BOOLEAN, unnoticed : BOOLEAN]
TypeOK ==
  /\ host \in [Files -> Contents]
  /\ fw \in AnyArchive /\ tmp \in AnyArchive /\ former \in AnyArchive
  /\ cmd \in {Idle} \cup Creating \cup Signing
  /\ last \in [op : {"idle", "create", "sign", "repack"}, ok : BOOLEAN, key : Keys \cup {None}, unnoticed : BOOLEAN]
  /\ quiet \in BOOLEAN /\ crashed \in BOOLEAN

----------------------------------------------------------------------------
(* The invariant                                                           *)

\* No entry is called "data/", a meta.conf lists no name twice, and there is
\* nothing in an archive that is not there.
SoundEntry(e) == ~Skipped(e) /\ (e.path = MetaConf => Distinct(e.meta.res))
SoundArchive(a) ==
  /\ \A i \in DOMAIN a.entries : SoundEntry(a.entries[i])
  /\ a.entries # <<>> => a.exists

\* The size of an entry is missing, or the true one, or the one meta.conf has
\* for that resource.
Sized(a) ==
  \A i, j \in DOMAIN a.entries : a.entries[i].path = MetaConf =>
    \A r \in ToSet(a.entries[i].meta.res) : r.name = archive_filename_to_resource(a.entries[j].path) =>
      a.entries[j].size \in {Unset, r.len, Len(a.entries[j].data)}
ArchivesSound ==
  /\ SoundArchive(fw) /\ SoundArchive(tmp) /\ SoundArchive(former)
  /\ (fw.closed => Sized(fw)) /\ (former.closed => Sized(former))

\* fwup_create: meta.conf as far as it is known, of the configuration and of
\* the files, unless they were edited.
Measured(r, i) ==
  /\ r.name = cmd.cfg[i].name /\ r.sparse = cmd.cfg[i].sparse
  /\ quiet => r.len = Len(host[i])
  /\ quiet /\ (cmd.step = "hash" => i < cmd.ix) => r.hash = host[i]
MapOK ==
  cmd.op = "create" =>
    /\ Distinct(cmd.cfg) /\ DOMAIN cmd.cfg \subseteq Files
    /\ cmd.ix \in 1 .. Len(cmd.cfg) + 1 /\ (cmd.step = "hash" => cmd.ix <= Len(cmd.cfg))
    /\ Len(cmd.meta.res) = IF cmd.step = "map" THEN cmd.ix - 1
                           ELSE IF cmd.step = "hash" THEN cmd.ix ELSE Len(cmd.cfg)
    /\ \A i \in DOMAIN cmd.meta.res : Measured(cmd.meta.res[i], i)

\* The archive as far as it is written.
Headers == IF cmd.key = None THEN 1 ELSE 2
Added(e, i) ==
  LET r == cmd.meta.res[i]
  IN  /\ Acceptable(r.name) /\ (quiet => e.data = host[i])
      /\ e = ResourceEntry(resource_name_to_archive_path(r.name), r.len, e.data)
AddOK ==
  cmd.op = "create" /\ cmd.step = "add" =>
    /\ ~fw.closed /\ fw.exists
    /\ ~cmd.fatal =>
         /\ Len(fw.entries) = Headers + cmd.ix - 1
         /\ \A k \in 1 .. Headers : fw.entries[k] = fwfile_add_meta_conf_str(cmd.meta, cmd.key)[k]
         /\ \A i \in 1 .. cmd.ix - 1 : Added(fw.entries[Headers + i], i)

\* fwup_sign: the temporary file has the resources read so far.
CopyOK ==
  /\ cmd.op = "sign" /\ cmd.step = "open" => cmd.ix = 1 /\ ~cmd.found
  /\ cmd.op = "sign" /\ cmd.step = "copy" =>
       /\ ~tmp.closed /\ tmp.exists /\ former.exists /\ cmd.ix <= Len(former.entries) + 1
       /\ \A i \in DOMAIN tmp.entries : tmp.entries[i].size \in {Unset, Len(tmp.entries[i].data)}
       /\ ~cmd.unnoticed => Resources(tmp) = Paths(former.entries)[cmd.ix - 1]

\* Where meta.conf is in an archive that is as it should be, and what a signed
\* one becomes.
HeadAt(es) == IF HasSignature(es) THEN 2 ELSE 1
Plain(a) ==
  /\ a.closed /\ HeadAt(a.entries) <= Len(a.entries) /\ a.entries[HeadAt(a.entries)].path = MetaConf
  /\ \A i \in HeadAt(a.entries) + 1 .. Len(a.entries) : a.entries[i].path # Signature
Signed(n) ==
  LET h == HeadAt(former.entries)
      meta == former.entries[h].meta
  IN  IF n < h THEN tmp.entries = <<>> /\ ~cmd.found
      ELSE /\ cmd.found /\ Len(tmp.entries) = n - h + 2
           /\ tmp.entries[1] = SignatureEntry(cmd.key, meta) /\ tmp.entries[2] = MetaEntry(meta)
           /\ \A i \in h + 1 .. n : tmp.entries[i - h + 2] = Copied(former.entries[i])
SignedOK ==
  cmd.op = "sign" /\ cmd.step = "copy" /\ ~cmd.unnoticed /\ Plain(former) => Signed(cmd.ix - 1)

TempOK == cmd.op # "sign" /\ ~crashed => ~tmp.exists
ArchiveInv ==
  /\ TypeOK /\ ArchivesSound /\ MapOK /\ AddOK /\ CopyOK /\ SignedOK /\ TempOK
  /\ SignAtomic /\ OutputVerifies

----------------------------------------------------------------------------
(* Names and paths                                                         *)

\* A sequence with one element in front.
LEMMA Prepended ==
  ASSUME NEW S, NEW x \in S, NEW s \in Seq(S)
  PROVE  /\ <<x>> \o s \in Seq(S) /\ Len(<<x>> \o s) = Len(s) + 1 /\ Len(s) \in Nat
         /\ (<<x>> \o s)[1] = x /\ \A i \in 1 .. Len(s) : (<<x>> \o s)[i + 1] = s[i]
OBVIOUS

LEMMA TailProperties ==
  ASSUME NEW S, NEW s \in Seq(S), s # <<>>
  PROVE  /\ Tail(s) \in Seq(S) /\ Len(Tail(s)) = Len(s) - 1 /\ Len(s) \in Nat \ {0}
         /\ \A i \in 1 .. Len(s) - 1 : Tail(s)[i] = s[i + 1]
BY HeadTailProperties, LenProperties, EmptySeq

LEMMA DataWord == "data" \in Words
BY ArchiveAssumption

\* The name of an entry is the one whose path it has, if one leaves names
\* /data/something aside.
LEMMA NameOfPath ==
  ASSUME NEW n \in Name, NEW p \in Path
  PROVE  n = archive_filename_to_resource(p) <=>
           /\ p = resource_name_to_archive_path(n)
           /\ ~(n.root /\ n.parts[1] = "data" /\ Len(n.parts) > 1)
<1> DEFINE q == <<"data">> \o n.parts
<1>1. /\ n.root \in BOOLEAN /\ n.parts \in Seq(Words) /\ n.parts # <<>> /\ n = [root |-> n.root, parts |-> n.parts]
      /\ p \in Seq(Words) /\ Len(n.parts) \in Nat \ {0} /\ Len(p) \in Nat
  BY DEF Name, Path
<1>2. q \in Seq(Words) /\ Len(q) = Len(n.parts) + 1 /\ q[1] = "data" /\ Tail(q) = n.parts
  <2>1. /\ q \in Seq(Words) /\ Len(q) = Len(n.parts) + 1 /\ q[1] = "data"
        /\ \A i \in 1 .. Len(n.parts) : q[i + 1] = n.parts[i]
    BY <1>1, DataWord, Prepended
  <2> HIDE DEF q
  <2>2. q # <<>>
    BY <1>1, <2>1
  <2>3. /\ Tail(q) \in Seq(Words) /\ Len(Tail(q)) = Len(n.parts)
        /\ \A i \in 1 .. Len(n.parts) : Tail(q)[i] = n.parts[i]
    BY <1>1, <2>1, <2>2, TailProperties
  <2> QED BY <1>1, <2>1, <2>3, SeqEqual
<1>3. CASE Len(p) > 1 /\ p[1] = "data"
  <2>1. archive_filename_to_resource(p) = [root |-> FALSE, parts |-> Tail(p)]
    BY <1>3 DEF archive_filename_to_resource, NameOf
  <2>2. <<"data">> \o Tail(p) = p
    <3>1. Tail(p) \in Seq(Words) /\ Len(Tail(p)) = Len(p) - 1 /\ \A i \in 1 .. Len(p) - 1 : Tail(p)[i] = p[i + 1]
      BY <1>1, <1>3
    <3>2. /\ <<"data">> \o Tail(p) \in Seq(Words) /\ Len(<<"data">> \o Tail(p)) = Len(p)
          /\ \A i \in 1 .. Len(p) : (<<"data">> \o Tail(p))[i] = p[i]
      BY <1>1, <1>3, <3>1
    <3> QED BY <1>1, <3>2, SeqEqual
  <2>3. ASSUME n = archive_filename_to_resource(p)
        PROVE  p = resource_name_to_archive_path(n) /\ ~n.root
    BY <2>1, <2>2, <2>3 DEF resource_name_to_archive_path
  <2>4. ASSUME p = resource_name_to_archive_path(n), ~(n.root /\ n.parts[1] = "data" /\ Len(n.parts) > 1)
        PROVE  n = archive_filename_to_resource(p)
    <3>1. ~n.root
      BY <1>3, <2>4 DEF resource_name_to_archive_path
    <3>2. Tail(p) = n.parts
      BY <1>2, <2>4, <3>1 DEF resource_name_to_archive_path
    <3> QED BY <1>1, <2>1, <3>1, <3>2
  <2> QED BY <2>3, <2>4
<1>4. CASE ~(Len(p) > 1 /\ p[1] = "data")
  <2>1. archive_filename_to_resource(p) = [root |-> TRUE, parts |-> p]
    BY <1>4 DEF archive_filename_to_resource, NameOf
  <2>2. ASSUME n = archive_filename_to_resource(p)
        PROVE  /\ p = resource_name_to_archive_path(n)
               /\ ~(n.root /\ n.parts[1] = "data" /\ Len(n.parts) > 1)
    BY <1>4, <2>1, <2>2 DEF resource_name_to_archive_path
  <2>3. ASSUME p = resource_name_to_archive_path(n)
        PROVE  n = archive_filename_to_resource(p)
    <3>1. n.root
      <4>1. ~n.root => p = q
        BY <2>3 DEF resource_name_to_archive_path
      <4>2. Len(q) > 1 /\ q[1] = "data"
        BY <1>1, <1>2
      <4> HIDE DEF q
      <4> QED BY <1>4, <4>1, <4>2
    <3> QED BY <1>1, <2>1, <2>3, <3>1 DEF resource_name_to_archive_path
  <2> QED BY <2>2, <2>3
<1> QED BY <1>3, <1>4

\* The path fwup_create makes of a name leads back to it, and is none that is
\* skipped or taken for meta.conf.
LEMMA AcceptableName ==
  ASSUME NEW n \in Name, Acceptable(n)
  PROVE  LET p == resource_name_to_archive_path(n)
         IN  /\ p \in Path /\ archive_filename_to_resource(p) = n
             /\ p # MetaConf /\ n # NameOf(FALSE, <<Empty>>)
<1> DEFINE p == resource_name_to_archive_path(n)
<1>1. n.parts \in Seq(Words) /\ Len(n.parts) \in Nat \ {0} /\ n.parts # <<>> /\ n.root \in BOOLEAN
  BY DEF Name, Path
<1>2. p \in Path
  BY <1>1, DataWord, Prepended DEF Path, resource_name_to_archive_path
<1>3. ~(n.root /\ n.parts[1] = "data")
  BY DEF Acceptable
<1>4. archive_filename_to_resource(p) = n
  BY <1>2, <1>3, NameOfPath
<1>5. p # MetaConf
  <2>1. CASE n.root
    BY <2>1 DEF Acceptable, resource_name_to_archive_path
  <2>2. CASE ~n.root
    <3>1. p = <<"data">> \o n.parts
      BY <2>2 DEF resource_name_to_archive_path
    <3>2. p[1] = "data"
      BY <1>1, <3>1
    <3>3. MetaConf[1] = "meta.conf"
      BY DEF MetaConf
    <3> HIDE DEF p
    <3> QED BY <3>2, <3>3
  <2> QED BY <2>1, <2>2
<1>6. n # NameOf(FALSE, <<Empty>>)
  <2>1. n.parts # <<Empty>>
    <3> DEFINE e == <<Empty>>
    <3>1. n.parts[Len(n.parts)] # Empty
      BY DEF Acceptable
    <3>2. e[Len(e)] = Empty
      OBVIOUS
    <3> HIDE DEF e
    <3>3. n.parts # e
      BY <3>1, <3>2
    <3> QED BY <3>3 DEF e
  <2> QED BY <2>1 DEF NameOf
<1> QED BY <1>2, <1>4, <1>5, <1>6

----------------------------------------------------------------------------
(* Verification                                                            *)

NamedAs(r, e) == r.name = archive_filename_to_resource(e.path)

\* One entry after the other: all are listed and as they should be, no two are
\* of the same name, and all that is listed is there.
LEMMA CheckMeans ==
  ASSUME NEW es, Len(es) \in Nat, DOMAIN es = 1 .. Len(es), NEW res,
         \A k \in DOMAIN es : ~Skipped(es[k])
  PROVE  CheckEntries(es, res) <=>
           /\ \A k \in DOMAIN es : \E i \in DOMAIN res : NamedAs(res[i], es[k]) /\ check_resource(res[i], es[k])
           /\ \A j, k \in DOMAIN es :
                archive_filename_to_resource(es[j].path) = archive_filename_to_resource(es[k].path) => j = k
           /\ \A i \in DOMAIN res : \E k \in DOMAIN es : NamedAs(res[i], es[k])
<1> DEFINE Found(k) == rlist_find_by_name(res, es[k])
           Listed == \A k \in DOMAIN es : \E i \in DOMAIN res : NamedAs(res[i], es[k]) /\ check_resource(res[i], es[k])
           Once == \A j, k \in DOMAIN es :
             archive_filename_to_resource(es[j].path) = archive_filename_to_resource(es[k].path) => j = k
           All == \A i \in DOMAIN res : \E k \in DOMAIN es : NamedAs(res[i], es[k])
<1>1. \A k, i : i \in Found(k) <=> i \in DOMAIN res /\ NamedAs(res[i], es[k])
  BY DEF rlist_find_by_name, NamedAs
<1>0. \A k, i : i \in Processed(es, res, k) <=> \E j \in {x \in 1 .. k - 1 : ~Skipped(es[x])} : i \in Found(j)
  BY Zenon DEF Processed
<1>2. \A k \in DOMAIN es : \A i : i \in Processed(es, res, k) <=> \E j \in 1 .. k - 1 : i \in Found(j)
  <2> SUFFICES ASSUME NEW k \in DOMAIN es, NEW i
               PROVE  i \in Processed(es, res, k) <=> \E j \in 1 .. k - 1 : i \in Found(j)
    BY Zenon
  <2> HIDE DEF Found
  <2>1. \A j \in 1 .. k - 1 : j \in DOMAIN es
    OBVIOUS
  <2>2. \A j : j \in {x \in 1 .. k - 1 : ~Skipped(es[x])} <=> j \in 1 .. k - 1
    BY <2>1
  <2> QED BY <1>0, <2>2, Zenon
<1>3. \A i : i \in Processed(es, res, Len(es) + 1) <=> \E j \in DOMAIN es : i \in Found(j)
  <2> HIDE DEF Found
  <2> DEFINE n == Len(es) + 1
  <2>1. \A j : j \in {x \in 1 .. n - 1 : ~Skipped(es[x])} <=> j \in DOMAIN es
    OBVIOUS
  <2> HIDE DEF n
  <2>2. \A i : i \in Processed(es, res, n) <=> \E j \in DOMAIN es : i \in Found(j)
    BY <1>0, <2>1, Zenon
  <2> QED BY <2>2 DEF n
<1>4. CheckEntries(es, res) <=>
        /\ \A k \in DOMAIN es : \E i \in Found(k) : i \notin Processed(es, res, k) /\ check_resource(res[i], es[k])
        /\ Processed(es, res, Len(es) + 1) = DOMAIN res
  BY Zenon DEF CheckEntries, NotProcessed
<1>5. \A j, k : archive_filename_to_resource(es[j].path) = archive_filename_to_resource(es[k].path) =>
        \A i : i \in Found(j) <=> i \in Found(k)
  BY <1>1, Zenon DEF NamedAs
<1>6. \A i, j, k : i \in Found(j) /\ i \in Found(k) =>
        archive_filename_to_resource(es[j].path) = archive_filename_to_resource(es[k].path)
  BY <1>1, Zenon DEF NamedAs
<1> HIDE DEF Found
<1>7. ASSUME CheckEntries(es, res) PROVE Listed /\ Once /\ All
  <2>1. Listed
    BY <1>1, <1>4, <1>7, Zenon
  <2>2. Once
    <3> SUFFICES ASSUME NEW j \in DOMAIN es, NEW k \in DOMAIN es, j < k,
                        archive_filename_to_resource(es[j].path) = archive_filename_to_resource(es[k].path)
                 PROVE  FALSE
      BY SMT
    <3>1. PICK i \in Found(k) : i \notin Processed(es, res, k)
      BY <1>4, <1>7, Zenon
    <3>2. i \in Found(j)
      BY <1>5, <3>1, Zenon
    <3>3. j \in 1 .. k - 1
      OBVIOUS
    <3> QED BY <1>2, <3>1, <3>2, <3>3, Zenon
  <2>3. All
    BY <1>1, <1>3, <1>4, <1>7, Zenon
  <2> QED BY <2>1, <2>2, <2>3
<1>8. ASSUME Listed, Once, All PROVE CheckEntries(es, res)
  <2>1. ASSUME NEW k \in DOMAIN es
        PROVE  \E i \in Found(k) : i \notin Processed(es, res, k) /\ check_resource(res[i], es[k])
    <3>1. PICK i \in DOMAIN res : NamedAs(res[i], es[k]) /\ check_resource(res[i], es[k])
      BY <1>8
    <3>2. i \in Found(k)
      BY <1>1, <3>1, Zenon
    <3>3. ASSUME i \in Processed(es, res, k) PROVE FALSE
      <4>1. PICK j \in 1 .. k - 1 : i \in Found(j)
        BY <1>2, <3>3, Zenon
      <4>2. j \in DOMAIN es /\ j # k
        OBVIOUS
      <4> QED BY <1>6, <1>8, <3>2, <4>1, <4>2, Zenon
    <3> QED BY <3>1, <3>2, <3>3, Zenon
  <2>2. \A i : i \in Processed(es, res, Len(es) + 1) <=> i \in DOMAIN res
    BY <1>1, <1>3, <1>8, Zenon
  <2>3. Processed(es, res, Len(es) + 1) = DOMAIN res
    BY <2>2, Zenon
  <2> QED BY <1>4, <2>1, <2>3, Zenon
<1> QED BY <1>7, <1>8

\* The head of an archive and what follows it, by their positions.
LEMMA VerifyMeans ==
  ASSUME NEW a, NEW keys, a.entries \in Seq(AnyEntry)
  PROVE  LET es == a.entries
             h == HeadAt(es)
         IN  fwup_verify(a, keys) <=>
               /\ a.exists /\ h <= Len(es) /\ es[h].path = MetaConf /\ es[h].meta.size = "fits"
               /\ HasSignature(es) => es[1].by # "short"
               /\ keys # {} => HasSignature(es) /\ es[1].by \in keys /\ es[1].meta = es[2].meta
               /\ CheckEntries(SubSeq(es, h + 1, Len(es)), es[h].meta.res)
<1> DEFINE es == a.entries
           rest == AfterSignature(es)
           h == HeadAt(es)
<1>1. es \in Seq(AnyEntry) /\ Len(es) \in Nat
  OBVIOUS
<1>2. h \in {1, 2} /\ (HasSignature(es) <=> h = 2) /\ (h = 2 => es # <<>>)
  BY DEF HeadAt, HasSignature
<1>3. /\ rest \in Seq(AnyEntry) /\ Len(rest) = IF es = <<>> THEN 0 ELSE Len(es) - h + 1
      /\ rest # <<>> => rest[1] = es[h] /\ Tail(rest) = SubSeq(es, h + 1, Len(es))
  <2>1. CASE h = 1
    <3>1. rest = es
      BY <1>2, <2>1 DEF AfterSignature
    <3> HIDE DEF rest, es, h
    <3> QED BY <1>1, <2>1, <3>1, TailIsSubSeq, EmptySeq
  <2>2. CASE h = 2
    <3>1. rest = Tail(es) /\ es # <<>>
      BY <1>2, <2>2 DEF AfterSignature
    <3> HIDE DEF rest, es, h
    <3>2. rest \in Seq(AnyEntry) /\ Len(rest) = Len(es) - 1 /\ \A i \in 1 .. Len(es) - 1 : rest[i] = es[i + 1]
      BY <1>1, <3>1, TailProperties
    <3>3. ASSUME rest # <<>> PROVE rest[1] = es[2] /\ Tail(rest) = SubSeq(es, 3, Len(es))
      <4>1. Len(rest) \in Nat \ {0}
        BY <3>2, <3>3, EmptySeq
      <4>2. /\ Tail(rest) \in Seq(AnyEntry) /\ Len(Tail(rest)) = Len(es) - 2
            /\ \A i \in 1 .. Len(es) - 2 : Tail(rest)[i] = es[i + 2]
        BY <1>1, <3>2, <3>3, <4>1, TailProperties
      <4>3. /\ SubSeq(es, 3, Len(es)) \in Seq(AnyEntry) /\ Len(SubSeq(es, 3, Len(es))) = Len(es) - 2
            /\ \A i \in 1 .. Len(es) - 2 : SubSeq(es, 3, Len(es))[i] = es[i + 2]
        BY <1>1, <3>2, <4>1
      <4> QED BY <1>1, <3>2, <4>1, <4>2, <4>3, SeqEqual
    <3> QED BY <1>1, <2>2, <3>1, <3>2, <3>3, EmptySeq
  <2> QED BY <1>2, <2>1, <2>2
<1>4. rest # <<>> <=> h <= Len(es)
  <2> HIDE DEF rest, es, h
  <2> QED BY <1>1, <1>2, <1>3, EmptySeq
<1>5. fwup_verify(a, keys) <=>
        /\ a.exists
        /\ HasSignature(es) => es[1].by # "short"
        /\ rest # <<>> /\ rest[1].path = MetaConf /\ rest[1].meta.size = "fits"
        /\ keys # {} => HasSignature(es) /\ es[1].by \in keys /\ es[1].meta = es[2].meta
        /\ CheckEntries(Tail(rest), rest[1].meta.res)
  BY Zenon DEF fwup_verify, cfgfile_parse_fw_meta_conf, cfgfile_parse_fw_ae
<1> HIDE DEF rest, es, h
<1>6. fwup_verify(a, keys) <=>
        /\ a.exists /\ h <= Len(es) /\ es[h].path = MetaConf /\ es[h].meta.size = "fits"
        /\ HasSignature(es) => es[1].by # "short"
        /\ keys # {} => HasSignature(es) /\ es[1].by \in keys /\ es[1].meta = es[2].meta
        /\ CheckEntries(SubSeq(es, h + 1, Len(es)), es[h].meta.res)
  BY <1>3, <1>4, <1>5, Zenon
<1> QED BY <1>6, Zenon DEF es, h

\* The first entry behind the signature.
LEMMA AfterHead ==
  ASSUME NEW S, NEW es \in Seq(S), HeadAt(es) <= Len(es)
  PROVE  AfterSignature(es)[1] = es[HeadAt(es)]
<1>1. CASE HasSignature(es)
  <2>1. AfterSignature(es) = Tail(es) /\ HeadAt(es) = 2 /\ es # <<>>
    BY <1>1 DEF AfterSignature, HeadAt, HasSignature
  <2>2. Len(es) >= 2 /\ \A i \in 1 .. Len(es) - 1 : Tail(es)[i] = es[i + 1]
    BY <2>1, TailProperties
  <2> QED BY <2>1, <2>2
<1>2. CASE ~HasSignature(es)
  BY <1>2 DEF AfterSignature, HeadAt
<1> QED BY <1>1, <1>2

LEMMA OtherPaths == Signature # MetaConf /\ Signature \in Path /\ MetaConf \in Path
<1>1. Signature[1] = "meta.conf.ed25519" /\ MetaConf[1] = "meta.conf"
  BY DEF Signature, MetaConf
<1>2. Signature \in Path /\ MetaConf \in Path
  BY ArchiveAssumption DEF Signature, MetaConf, Path
<1> QED BY <1>1, <1>2

\* The declarative form of what check_resource looks at.
LEMMA VouchedMeans ==
  ASSUME NEW r \in MetaResource, NEW e \in AnyEntry
  PROVE  Vouched(r, e) <=> NamedAs(r, e) /\ check_resource(r, e)
<1>1. /\ r.name \in Name /\ r.name.root \in BOOLEAN /\ r.sparse \in BOOLEAN /\ r.len \in Nat /\ r.hash \in Seq(Units)
      /\ e.path \in Path /\ e.size \in Nat \cup {Unset} /\ e.data \in Seq(Units)
  BY DEF MetaResource, AnyEntry, Name
<1>2. NamedAs(r, e) <=> e.path = resource_name_to_archive_path(r.name)
                       /\ ~(r.name.root /\ r.name.parts[1] = "data" /\ Len(r.name.parts) > 1)
  BY <1>1, NameOfPath DEF NamedAs
<1>3. check_resource(r, e) <=>
        \/ e.data = r.hash /\ Len(r.hash) = r.len /\ e.size \in {Unset, r.len}
        \/ ~r.sparse /\ e.size \notin {Unset, r.len} /\ LooksLikePatch(e.data)
  BY <1>1, Zenon DEF check_resource, check_normal_resource
<1> QED BY <1>2, <1>3, Zenon DEF Vouched

LEMMA ExactlyOne ==
  ASSUME NEW n \in Nat, NEW S, S \subseteq 1 .. n
  PROVE  Cardinality(S) = 1 <=> \E x \in S : \A y \in S : y = x
<1>1. IsFiniteSet(S)
  <2>1. IsFiniteSet(1 .. n)
    BY FS_Interval
  <2>2. S \in SUBSET (1 .. n)
    BY Zenon
  <2> QED BY <2>1, <2>2, FS_Subset
<1>2. Cardinality(S) = 1 <=> \E x : S = {x}
  BY <1>1, FS_Singleton
<1>3. ASSUME NEW x, S = {x} PROVE \E z \in S : \A y \in S : y = z
  BY <1>3
<1>4. ASSUME NEW x \in S, \A y \in S : y = x PROVE S = {x}
  BY <1>4
<1> QED BY <1>2, <1>3, <1>4, Zenon

\* The entries behind meta.conf.
LEMMA GoodBody ==
  ASSUME NEW es \in Seq(AnyEntry), NEW res \in Seq(MetaResource), Distinct(res),
         \A k \in DOMAIN es : ~Skipped(es[k])
  PROVE  CheckEntries(es, res) <=>
           /\ \A k \in DOMAIN es : \E r \in ToSet(res) : Vouched(r, es[k])
           /\ \A r \in ToSet(res) : Cardinality({k \in DOMAIN es : Vouched(r, es[k])}) = 1
<1> DEFINE Listed == \A k \in DOMAIN es : \E i \in DOMAIN res : Vouched(res[i], es[k])
           One == \A i \in DOMAIN res : \E k \in DOMAIN es : Vouched(res[i], es[k]) /\
                    \A j \in DOMAIN es : Vouched(res[i], es[j]) => j = k
           Once == \A j, k \in DOMAIN es :
             archive_filename_to_resource(es[j].path) = archive_filename_to_resource(es[k].path) => j = k
           All == \A i \in DOMAIN res : \E k \in DOMAIN es : NamedAs(res[i], es[k])
<1>1. Len(es) \in Nat /\ DOMAIN es = 1 .. Len(es) /\ \A k \in DOMAIN es : es[k] \in AnyEntry
  OBVIOUS
<1>2. \A i \in DOMAIN res : res[i] \in MetaResource
  OBVIOUS
<1>3. \A i \in DOMAIN res, k \in DOMAIN es :
        Vouched(res[i], es[k]) <=> NamedAs(res[i], es[k]) /\ check_resource(res[i], es[k])
  BY <1>1, <1>2, VouchedMeans, Zenon
<1>4. CheckEntries(es, res) <=> Listed /\ Once /\ All
  <2>1. CheckEntries(es, res) <=>
           /\ \A k \in DOMAIN es : \E i \in DOMAIN res : NamedAs(res[i], es[k]) /\ check_resource(res[i], es[k])
           /\ Once
           /\ All
    BY <1>1, CheckMeans, Zenon
  <2> QED BY <1>3, <2>1, Zenon
<1>5. (\A k \in DOMAIN es : \E r \in ToSet(res) : Vouched(r, es[k])) <=> Listed
  BY Zenon DEF ToSet
<1>6. (\A r \in ToSet(res) : Cardinality({k \in DOMAIN es : Vouched(r, es[k])}) = 1) <=> One
  <2>1. ASSUME NEW r
        PROVE  Cardinality({k \in DOMAIN es : Vouched(r, es[k])}) = 1 <=>
                 \E k \in DOMAIN es : Vouched(r, es[k]) /\ \A j \in DOMAIN es : Vouched(r, es[j]) => j = k
    <3> DEFINE S == {k \in DOMAIN es : Vouched(r, es[k])}
    <3>1. S \subseteq 1 .. Len(es)
      BY <1>1
    <3>2. \A k : k \in S <=> k \in DOMAIN es /\ Vouched(r, es[k])
      OBVIOUS
    <3> HIDE DEF S
    <3>3. Cardinality(S) = 1 <=> \E x \in S : \A y \in S : y = x
      BY <1>1, <3>1, ExactlyOne
    <3>4. Cardinality(S) = 1 <=>
            \E k \in DOMAIN es : Vouched(r, es[k]) /\ \A j \in DOMAIN es : Vouched(r, es[j]) => j = k
      <4>1. (\E x \in S : \A y \in S : y = x) <=>
              \E k \in DOMAIN es : Vouched(r, es[k]) /\ \A j \in DOMAIN es : Vouched(r, es[j]) => j = k
        BY <3>2
      <4> QED BY <3>3, <4>1, Zenon
    <3> QED BY <3>4 DEF S
  <2>2. (\A r \in ToSet(res) : Cardinality({k \in DOMAIN es : Vouched(r, es[k])}) = 1) <=>
        \A i \in DOMAIN res : Cardinality({k \in DOMAIN es : Vouched(res[i], es[k])}) = 1
    BY Zenon DEF ToSet
  <2> QED BY <2>1, <2>2, Zenon
<1>7. ASSUME Listed, Once, All PROVE One
  <2> SUFFICES ASSUME NEW i \in DOMAIN res
               PROVE  \E k \in DOMAIN es : Vouched(res[i], es[k]) /\
                        \A j \in DOMAIN es : Vouched(res[i], es[j]) => j = k
    BY Zenon
  <2>1. PICK k \in DOMAIN es : NamedAs(res[i], es[k])
    BY <1>7
  <2>2. PICK x \in DOMAIN res : Vouched(res[x], es[k])
    BY <1>7
  <2>3. x = i
    BY <1>3, <2>1, <2>2, Zenon DEF NamedAs, Distinct
  <2>4. ASSUME NEW j \in DOMAIN es, Vouched(res[i], es[j]) PROVE j = k
    BY <1>3, <1>7, <2>1, <2>4, Zenon DEF NamedAs
  <2> QED BY <2>2, <2>3, <2>4, Zenon
<1>8. ASSUME Listed, One PROVE Once /\ All
  <2>1. All
    BY <1>3, <1>8, Zenon
  <2>2. ASSUME NEW j \in DOMAIN es, NEW k \in DOMAIN es,
               archive_filename_to_resource(es[j].path) = archive_filename_to_resource(es[k].path)
        PROVE  j = k
    <3>1. PICK x \in DOMAIN res : Vouched(res[x], es[j])
      BY <1>8
    <3>2. PICK y \in DOMAIN res : Vouched(res[y], es[k])
      BY <1>8
    <3>3. x = y
      BY <1>3, <2>2, <3>1, <3>2, Zenon DEF NamedAs, Distinct
    <3> QED BY <1>8, <3>1, <3>2, <3>3, Zenon
  <2> QED BY <2>1, <2>2
<1> QED BY <1>4, <1>5, <1>6, <1>7, <1>8, Zenon

\* fwup_verify accepts the archives that are good, and no others.
LEMMA VerifyIsGood ==
  ASSUME NEW a \in AnyArchive, SoundArchive(a), NEW keys
  PROVE  fwup_verify(a, keys) <=> Good(a, keys)
<1> DEFINE es == a.entries
           h == HeadAt(es)
           Body(n) == SubSeq(es, n, Len(es))
           Fine(n) == /\ \A k \in DOMAIN Body(n + 1) : \E r \in ToSet(es[n].meta.res) : Vouched(r, Body(n + 1)[k])
                      /\ \A r \in ToSet(es[n].meta.res) :
                           Cardinality({k \in DOMAIN Body(n + 1) : Vouched(r, Body(n + 1)[k])}) = 1
<1>1. es \in Seq(AnyEntry) /\ Len(es) \in Nat
  BY DEF AnyArchive
<1>2. /\ h \in {1, 2} /\ (HasSignature(es) <=> h = 2) /\ (h = 2 => es # <<>> /\ es[1].path = Signature)
      /\ h = 1 => es = <<>> \/ es[1].path # Signature
  BY DEF HeadAt, HasSignature
<1>3. ASSUME h <= Len(es), es[h].path = MetaConf
      PROVE  CheckEntries(Body(h + 1), es[h].meta.res) <=> Fine(h)
  <2> HIDE DEF es, h
  <2>1. h \in DOMAIN es /\ es[h] \in AnyEntry /\ es[h].meta.res \in Seq(MetaResource)
    <3>1. h \in DOMAIN es /\ es[h] \in AnyEntry
      BY <1>1, <1>2, <1>3
    <3> QED BY <3>1 DEF AnyEntry, Meta
  <2>2. Distinct(es[h].meta.res)
    BY <1>3, <2>1, Zenon DEF SoundArchive, SoundEntry, es
  <2>3. Body(h + 1) \in Seq(AnyEntry) /\ \A k \in DOMAIN Body(h + 1) : \E i \in DOMAIN es : Body(h + 1)[k] = es[i]
    <3>1. Body(h + 1) \in Seq(AnyEntry) /\ Len(Body(h + 1)) = Len(es) - h
      BY <1>1, <1>2, <1>3
    <3>2. \A k \in 1 .. Len(es) - h : Body(h + 1)[k] = es[h + k] /\ h + k \in DOMAIN es
      BY <1>1, <1>2, <1>3
    <3> HIDE DEF Body
    <3>3. DOMAIN Body(h + 1) = 1 .. Len(es) - h
      BY <3>1
    <3> QED BY <3>1, <3>2, <3>3
  <2>4. \A k \in DOMAIN Body(h + 1) : ~Skipped(Body(h + 1)[k])
    BY <2>3, Zenon DEF SoundArchive, SoundEntry, es
  <2> HIDE DEF Body
  <2> QED BY <2>1, <2>2, <2>3, <2>4, GoodBody
<1>4. h <= Len(es) /\ es[h].path = MetaConf => a.exists
  BY <1>1, <1>2 DEF SoundArchive
<1>5. fwup_verify(a, keys) <=>
        /\ h <= Len(es) /\ es[h].path = MetaConf /\ es[h].meta.size = "fits"
        /\ HasSignature(es) => es[1].by # "short"
        /\ keys # {} => HasSignature(es) /\ es[1].by \in keys /\ es[1].meta = es[2].meta
        /\ Fine(h)
  <2>1. fwup_verify(a, keys) <=>
               /\ a.exists /\ h <= Len(es) /\ es[h].path = MetaConf /\ es[h].meta.size = "fits"
               /\ HasSignature(es) => es[1].by # "short"
               /\ keys # {} => HasSignature(es) /\ es[1].by \in keys /\ es[1].meta = es[2].meta
               /\ CheckEntries(Body(h + 1), es[h].meta.res)
    BY <1>1, VerifyMeans, Zenon
  <2> HIDE DEF es, h, Fine, Body
  <2> QED BY <1>3, <1>4, <2>1, Zenon
<1>6. Good(a, keys) <=>
        \E n \in {0, 1} :
          /\ n < Len(es) /\ es[n + 1].path = MetaConf /\ es[n + 1].meta.size = "fits"
          /\ n = 1 => es[1].path = Signature /\ es[1].by # "short"
          /\ keys # {} => n = 1 /\ es[1].by \in keys /\ es[1].meta = es[n + 1].meta
          /\ Fine(n + 1)
  <2>1. \A n \in {0, 1} : n + 2 = (n + 1) + 1
    OBVIOUS
  <2> QED BY <2>1, Zenon DEF Good
<1> HIDE DEF es, h, Fine
<1>7. Good(a, keys) <=>
        /\ h <= Len(es) /\ es[h].path = MetaConf /\ es[h].meta.size = "fits"
        /\ h = 2 => es[1].by # "short"
        /\ keys # {} => h = 2 /\ es[1].by \in keys /\ es[1].meta = es[2].meta
        /\ Fine(h)
  <2>1. CASE h = 1
    <3>1. ~(1 < Len(es) /\ es[1].path = Signature)
      BY <1>1, <1>2, <2>1
    <3>2. 0 < Len(es) <=> 1 <= Len(es)
      BY <1>1
    <3> QED BY <1>6, <2>1, <3>1, <3>2
  <2>2. CASE h = 2
    <3>1. es[1].path # MetaConf /\ es[1].path = Signature
      BY <1>2, <2>2, OtherPaths
    <3>2. 1 < Len(es) <=> 2 <= Len(es)
      BY <1>1
    <3> QED BY <1>6, <2>2, <3>1, <3>2
  <2> QED BY <1>2, <2>1, <2>2
<1> QED BY <1>2, <1>5, <1>7, Zenon

----------------------------------------------------------------------------
(* The paths of the resources                                              *)

\* A set of naturals that is not empty has a least member.
LEMMA LeastNumber ==
  ASSUME NEW S, S \subseteq Nat, S # {}
  PROVE  \E m \in S : \A x \in S : m <= x
<1> DEFINE R == OpToRel(<, Nat)
<1>1. IsWellFoundedOn(R, Nat)
  BY NatLessThanWellFounded
<1> HIDE DEF R
<1>2. PICK m \in S : \A x \in S : ~(<<x, m>> \in R)
  BY <1>1, WFMin
<1>3. \A x \in S : <<x, m>> \in R <=> x < m
  BY DEF R, OpToRel
<1>4. m \in Nat /\ \A x \in S : x \in Nat /\ ~(x < m)
  BY <1>2, <1>3
<1> QED BY <1>4

\* The recursion that defines Paths has a solution, so Paths has its equations.
LEMMA PathsDefined ==
  ASSUME NEW es, Len(es) \in Nat
  PROVE  /\ DOMAIN Paths(es) = 0 .. Len(es) /\ Paths(es)[0] = <<>>
         /\ \A k \in 1 .. Len(es) :
              Paths(es)[k] = IF es[k].path \in {Signature, MetaConf} THEN Paths(es)[k - 1]
                             ELSE Append(Paths(es)[k - 1], es[k].path)
<1> DEFINE n == Len(es)
           Step(k, p) == IF es[k].path \in {Signature, MetaConf} THEN p ELSE Append(p, es[k].path)
           F(f, m) == [k \in 0 .. m |-> IF k = 0 THEN <<>> ELSE Step(k, f[k - 1])]
           paths == CHOOSE f : f = F(f, n)
<1>1. Paths(es) = paths
  BY DEF Paths
<1>2. \A k \in 1 .. n : Paths(es)[k - 1] = paths[k - 1]
  BY <1>1
<1> HIDE DEF n, Step
<1> DEFINE Missing == {m \in 0 .. n : ~\E f : f = F(f, m)}
<1>0. n \in Nat
  BY DEF n
<1>3. Missing = {}
  <2> SUFFICES ASSUME Missing # {} PROVE FALSE
    OBVIOUS
  <2>0. Missing \subseteq Nat
    BY <1>0
  <2> HIDE DEF Missing
  <2>1. PICK m \in Missing : \A x \in Missing : m <= x
    BY <2>0, LeastNumber
  <2>2. m # 0
    <3>1. F([k \in 0 .. 0 |-> <<>>], 0) = [k \in 0 .. 0 |-> <<>>]
      OBVIOUS
    <3> QED BY <2>1, <3>1 DEF Missing
  <2>3. m \in 0 .. n /\ m - 1 \in 0 .. n /\ m - 1 \notin Missing
    <3>1. m \in 0 .. n
      BY <2>1 DEF Missing
    <3>2. m - 1 \in 0 .. n /\ ~(m <= m - 1)
      BY <1>0, <2>2, <3>1
    <3> QED BY <2>1, <3>1, <3>2
  <2>4. PICK f : f = F(f, m - 1)
    BY <2>3 DEF Missing
  <2> DEFINE g == [k \in 0 .. m |-> IF k = m THEN Step(m, f[m - 1]) ELSE f[k]]
  <2>5. g = F(g, m)
    BY <1>0, <2>2, <2>3, <2>4
  <2> QED BY <2>1, <2>5 DEF Missing
<1>4. paths = F(paths, n)
  <2>1. n \in 0 .. n /\ n \notin Missing
    BY <1>0, <1>3
  <2>2. \E f : f = F(f, n)
    BY <2>1
  <2> HIDE DEF F
  <2> QED BY <2>2
<1> HIDE DEF paths
<1>5. DOMAIN paths = 0 .. n
  BY <1>4
<1>6. paths[0] = <<>>
  BY <1>0, <1>4
<1>7. \A k \in 1 .. n : paths[k] = Step(k, paths[k - 1])
  BY <1>0, <1>4
<1> QED BY <1>1, <1>5, <1>6, <1>7 DEF n, Step

\* They depend on the entries up to there alone.
LEMMA PathsAgree ==
  ASSUME NEW es, NEW fs, Len(es) \in Nat, Len(fs) \in Nat, NEW n \in Nat, n <= Len(es), n <= Len(fs),
         \A k \in 1 .. n : es[k].path = fs[k].path
  PROVE  Paths(es)[n] = Paths(fs)[n]
<1> DEFINE Bad == {k \in 0 .. n : Paths(es)[k] # Paths(fs)[k]}
<1>1. Bad = {}
  <2> SUFFICES ASSUME Bad # {} PROVE FALSE
    OBVIOUS
  <2>0. Bad \subseteq Nat
    OBVIOUS
  <2> HIDE DEF Bad
  <2>1. PICK m \in Bad : \A x \in Bad : m <= x
    BY <2>0, LeastNumber
  <2>2. m \in 0 .. n /\ Paths(es)[m] # Paths(fs)[m]
    BY <2>1 DEF Bad
  <2>3. m # 0
    BY <2>2, PathsDefined
  <2>4. m \in 1 .. Len(es) /\ m \in 1 .. Len(fs) /\ m \in 1 .. n /\ m - 1 \in 0 .. n /\ ~(m <= m - 1)
    BY <2>2, <2>3
  <2>5. Paths(es)[m - 1] = Paths(fs)[m - 1]
    BY <2>1, <2>4 DEF Bad
  <2>6. es[m].path = fs[m].path
    BY <2>4
  <2> QED BY <2>2, <2>4, <2>5, <2>6, PathsDefined
<1>2. n \in 0 .. n
  OBVIOUS
<1> QED BY <1>1, <1>2

\* What one more entry adds.
LEMMA PathsAppend ==
  ASSUME NEW es \in Seq(AnyEntry), NEW e \in AnyEntry
  PROVE  LET fs == Append(es, e)
         IN  Paths(fs)[Len(fs)] = IF e.path \in {Signature, MetaConf} THEN Paths(es)[Len(es)]
                                  ELSE Append(Paths(es)[Len(es)], e.path)
<1> DEFINE fs == Append(es, e)
           n == Len(es)
<1>1. n \in Nat /\ Len(fs) = n + 1 /\ fs[n + 1] = e /\ \A k \in 1 .. n : fs[k] = es[k]
  OBVIOUS
<1> HIDE DEF fs
<1>2. n + 1 \in 1 .. Len(fs) /\ (n + 1) - 1 = n
  BY <1>1
<1>3. Paths(fs)[n + 1] = IF e.path \in {Signature, MetaConf} THEN Paths(fs)[n] ELSE Append(Paths(fs)[n], e.path)
  BY <1>1, <1>2, PathsDefined
<1>4. Paths(fs)[n] = Paths(es)[n]
  BY <1>1, PathsAgree
<1> QED BY <1>1, <1>3, <1>4 DEF fs

----------------------------------------------------------------------------
(* Archives that are cut short, copied or put together differently         *)

\* What is left of an entry that was being written.
LEMMA CutEntry ==
  ASSUME NEW e \in AnyEntry, SoundEntry(e), NEW c \in CutForms(e)
  PROVE  c \in AnyEntry /\ SoundEntry(c)
<1>1. PICK s \in {"short", "fits"} :
        c = [e EXCEPT !.by = IF e.path = Signature THEN "short" ELSE @,
                      !.meta = IF e.path = MetaConf THEN [size |-> s, res |-> <<>>] ELSE @,
                      !.data = IF @ = <<>> THEN @ ELSE Front(@)]
  BY Zenon DEF CutForms
<1>2. e.data \in Seq(Units) /\ (e.data # <<>> => Front(e.data) \in Seq(Units))
  <2>1. e.data \in Seq(Units)
    BY DEF AnyEntry
  <2>2. ASSUME e.data # <<>> PROVE SubSeq(e.data, 1, Len(e.data) - 1) \in Seq(Units)
    BY <2>1, <2>2
  <2> QED BY <2>1, <2>2 DEF Front
<1>3. [size |-> s, res |-> <<>>] \in Meta
  BY DEF Meta
<1>4. c \in AnyEntry
  BY <1>1, <1>2, <1>3 DEF AnyEntry
<1>5. c.path = e.path
  BY <1>1 DEF AnyEntry
<1>6. e.path = MetaConf => c.meta = [size |-> s, res |-> <<>>]
  BY <1>1 DEF AnyEntry
<1>7. e.path = MetaConf => Distinct(c.meta.res)
  BY <1>6 DEF Distinct
<1>8. ~Skipped(c)
  BY <1>5 DEF Skipped, SoundEntry
<1> QED BY <1>4, <1>5, <1>7, <1>8 DEF SoundEntry

\* What may be there of an archive that was not closed.
LEMMA PartSound ==
  ASSUME NEW a \in AnyArchive, SoundArchive(a), NEW p \in PartsOf(a)
  PROVE  /\ p \in AnyArchive /\ SoundArchive(p) /\ p.closed = a.closed /\ p.exists = a.exists
<1> DEFINE es == a.entries
<1>1. es \in Seq(AnyEntry) /\ Len(es) \in Nat /\ a.closed \in BOOLEAN /\ a.exists \in BOOLEAN
      /\ a = [entries |-> es, closed |-> a.closed, exists |-> a.exists]
  BY DEF AnyArchive
<1>2. \A i \in 1 .. Len(es) : es[i] \in AnyEntry /\ SoundEntry(es[i])
  BY <1>1 DEF SoundArchive
<1>3. \E fs \in Seq(AnyEntry) :
        /\ p = [a EXCEPT !.entries = fs] /\ \A i \in DOMAIN fs : SoundEntry(fs[i])
        /\ fs # <<>> => es # <<>>
  <2>1. CASE p \in {[a EXCEPT !.entries = SubSeq(@, 1, k)] : k \in 0 .. Len(a.entries)}
    <3>1. PICK k \in 0 .. Len(es) : p = [a EXCEPT !.entries = SubSeq(es, 1, k)]
      BY <2>1, Zenon
    <3> DEFINE fs == SubSeq(es, 1, k)
    <3> HIDE DEF es
    <3>2. fs \in Seq(AnyEntry) /\ Len(fs) = k /\ \A i \in 1 .. k : fs[i] = es[i]
      BY <1>1, <3>1
    <3>3. \A i \in 1 .. k : SoundEntry(fs[i])
      BY <1>1, <1>2, <3>1, <3>2
    <3>4. fs # <<>> => es # <<>>
      BY <1>1, <3>2
    <3> HIDE DEF fs
    <3>5. DOMAIN fs = 1 .. k
      BY <3>2
    <3>6. p = [a EXCEPT !.entries = fs]
      BY <3>1 DEF fs
    <3> QED BY <3>2, <3>3, <3>4, <3>5, <3>6
  <2>2. CASE \E k \in DOMAIN a.entries :
               p \in {[a EXCEPT !.entries = Append(SubSeq(@, 1, k - 1), e)] : e \in CutForms(a.entries[k])}
    <3>a. PICK k \in DOMAIN es :
            p \in {[a EXCEPT !.entries = Append(SubSeq(@, 1, k - 1), e)] : e \in CutForms(es[k])}
      BY <2>2, Zenon
    <3>1. PICK e \in CutForms(es[k]) : p = [a EXCEPT !.entries = Append(SubSeq(es, 1, k - 1), e)]
      BY <3>a, Zenon
    <3> DEFINE fs == Append(SubSeq(es, 1, k - 1), e)
    <3> HIDE DEF es
    <3>0. k \in 1 .. Len(es)
      BY <1>1
    <3>2. e \in AnyEntry /\ SoundEntry(e)
      BY <1>2, <3>0, CutEntry
    <3>3. fs \in Seq(AnyEntry) /\ Len(fs) = k /\ fs[k] = e /\ \A i \in 1 .. k - 1 : fs[i] = es[i]
      BY <1>1, <3>0, <3>2
    <3>4. \A i \in 1 .. k : SoundEntry(fs[i])
      <4> HIDE DEF fs
      <4> SUFFICES ASSUME NEW i \in 1 .. k PROVE SoundEntry(fs[i])
        OBVIOUS
      <4>1. CASE i = k
        BY <3>2, <3>3, <4>1
      <4>2. CASE i # k
        <5>1. i \in 1 .. k - 1 /\ i \in 1 .. Len(es)
          BY <1>1, <3>0, <4>2
        <5> QED BY <1>2, <3>3, <5>1
      <4> QED BY <4>1, <4>2
    <3>5. es # <<>>
      BY <1>1, <3>0
    <3> HIDE DEF fs
    <3>6. DOMAIN fs = 1 .. k
      BY <3>0, <3>3
    <3>7. p = [a EXCEPT !.entries = fs]
      BY <3>1 DEF fs
    <3> QED BY <3>3, <3>4, <3>5, <3>6, <3>7
  <2> QED BY <2>1, <2>2, Zenon DEF PartsOf
<1>4. PICK fs \in Seq(AnyEntry) :
        /\ p = [a EXCEPT !.entries = fs] /\ \A i \in DOMAIN fs : SoundEntry(fs[i])
        /\ fs # <<>> => es # <<>>
  BY <1>3
<1>5. p = [entries |-> fs, closed |-> a.closed, exists |-> a.exists]
  BY <1>1, <1>4
<1>6. p \in AnyArchive
  BY <1>1, <1>5 DEF AnyArchive
<1>7. SoundArchive(p)
  BY <1>4, <1>5 DEF SoundArchive
<1> QED BY <1>5, <1>6, <1>7

\* Entries that are new in an archive are as good as those it had, if their
\* paths were there and their sizes are true.
LEMMA FromOld ==
  ASSUME NEW a \in AnyArchive, SoundArchive(a), Sized(a), a.exists,
         NEW b \in AnyArchive, b.exists,
         \A k \in DOMAIN b.entries :
           \/ \E i \in DOMAIN a.entries : b.entries[k] = a.entries[i]
           \/ \E i \in DOMAIN a.entries : /\ b.entries[k].path = a.entries[i].path /\ b.entries[k].path # MetaConf
                                          /\ b.entries[k].size \in {Unset, Len(b.entries[k].data)}
  PROVE  SoundArchive(b) /\ Sized(b)
<1> DEFINE es == a.entries
           fs == b.entries
<1>1. ASSUME NEW k \in DOMAIN fs PROVE SoundEntry(fs[k])
  <2>1. PICK i \in DOMAIN es : fs[k] = es[i] \/ (fs[k].path = es[i].path /\ fs[k].path # MetaConf)
    BY Zenon
  <2>2. SoundEntry(es[i])
    BY Zenon DEF SoundArchive
  <2> QED BY <2>1, <2>2, Zenon DEF SoundEntry, Skipped
<1>2. ASSUME NEW i \in DOMAIN fs, NEW j \in DOMAIN fs, fs[i].path = MetaConf,
             NEW r \in ToSet(fs[i].meta.res), r.name = archive_filename_to_resource(fs[j].path)
      PROVE  fs[j].size \in {Unset, r.len, Len(fs[j].data)}
  <2>1. PICK x \in DOMAIN es : fs[i] = es[x]
    BY <1>2, Zenon
  <2>2. CASE \E y \in DOMAIN es : fs[j] = es[y]
    <3>1. PICK y \in DOMAIN es : fs[j] = es[y]
      BY <2>2
    <3>2. es[x].path = MetaConf /\ r \in ToSet(es[x].meta.res) /\ r.name = archive_filename_to_resource(es[y].path)
      BY <1>2, <2>1, <3>1
    <3>3. es[y].size \in {Unset, r.len, Len(es[y].data)}
      BY <3>2, Zenon DEF Sized
    <3> QED BY <3>1, <3>3
  <2>3. CASE fs[j].size \in {Unset, Len(fs[j].data)}
    BY <2>3
  <2> QED BY <2>2, <2>3, Zenon
<1>3. SoundArchive(b)
  BY <1>1, Zenon DEF SoundArchive
<1>4. Sized(b)
  BY <1>2, Zenon DEF Sized
<1> QED BY <1>3, <1>4

LEMMA Removed ==
  ASSUME NEW S, NEW s \in Seq(S), NEW i \in DOMAIN s
  PROVE  /\ RemoveAt(s, i) \in Seq(S)
         /\ \A k \in DOMAIN RemoveAt(s, i) : \E x \in DOMAIN s : RemoveAt(s, i)[k] = s[x]
<1> DEFINE u == SubSeq(s, 1, i - 1)
           v == SubSeq(s, i + 1, Len(s))
<1>1. i \in 1 .. Len(s) /\ Len(s) \in Nat
  OBVIOUS
<1>2. u \in Seq(S) /\ Len(u) = i - 1 /\ \A k \in 1 .. i - 1 : u[k] = s[k]
  BY <1>1
<1>3. v \in Seq(S) /\ Len(v) = Len(s) - i /\ \A k \in 1 .. Len(s) - i : v[k] = s[i + k]
  BY <1>1
<1> HIDE DEF u, v
<1>4. u \o v \in Seq(S) /\ Len(u \o v) = Len(s) - 1
  BY <1>1, <1>2, <1>3
<1>5. ASSUME NEW k \in 1 .. Len(s) - 1 PROVE \E x \in DOMAIN s : (u \o v)[k] = s[x]
  <2>1. CASE k <= i - 1
    <3>1. (u \o v)[k] = s[k]
      BY <1>1, <1>2, <1>3, <2>1
    <3> QED BY <1>1, <3>1
  <2>2. CASE ~(k <= i - 1)
    <3>1. (u \o v)[k] = v[k - (i - 1)]
      BY <1>1, <1>2, <1>3, <2>2
    <3>2. k - (i - 1) \in 1 .. Len(s) - i /\ i + (k - (i - 1)) = k + 1 /\ k + 1 \in DOMAIN s
      BY <1>1, <2>2
    <3> QED BY <1>3, <3>1, <3>2
  <2> QED BY <2>1, <2>2
<1>6. RemoveAt(s, i) = u \o v
  BY DEF RemoveAt, u, v
<1>7. DOMAIN (u \o v) = 1 .. Len(s) - 1
  BY <1>4
<1> QED BY <1>4, <1>5, <1>6, <1>7

\* Other tools.
LEMMA Repacked ==
  ASSUME NEW es \in Seq(AnyEntry), NEW fs \in Repacks(es)
  PROVE  /\ fs \in Seq(AnyEntry)
         /\ \A k \in DOMAIN fs :
              \/ \E i \in DOMAIN es : fs[k] = es[i]
              \/ \E i \in DOMAIN es : /\ fs[k].path = es[i].path /\ fs[k].path # MetaConf
                                      /\ fs[k].size \in {Unset, Len(fs[k].data)}
<1>0. Len(es) \in Nat /\ DOMAIN es = 1 .. Len(es) /\ \A i \in DOMAIN es : es[i] \in AnyEntry
  OBVIOUS
<1>1. CASE \E i \in DOMAIN es : fs = RemoveAt(es, i)
  BY <1>1, Removed
<1>2. CASE \E i \in DOMAIN es : fs = Append(es, es[i])
  <2>1. PICK i \in DOMAIN es : fs = Append(es, es[i])
    BY <1>2
  <2>2. fs \in Seq(AnyEntry) /\ DOMAIN fs = 1 .. Len(es) + 1 /\ fs[Len(es) + 1] = es[i] /\ \A k \in 1 .. Len(es) : fs[k] = es[k]
    BY <1>0, <2>1
  <2> QED BY <1>0, <2>2
<1>3. CASE \E i \in DOMAIN es : fs = RemoveAt(es, i) \o <<es[i]>>
  <2>1. PICK i \in DOMAIN es : fs = RemoveAt(es, i) \o <<es[i]>>
    BY <1>3
  <2> DEFINE gs == RemoveAt(es, i)
  <2>2. gs \in Seq(AnyEntry) /\ \A k \in DOMAIN gs : \E x \in DOMAIN es : gs[k] = es[x]
    BY Removed
  <2> HIDE DEF gs
  <2>3. fs = gs \o <<es[i]>>
    BY <2>1 DEF gs
  <2>4. /\ fs \in Seq(AnyEntry) /\ DOMAIN fs = 1 .. Len(gs) + 1 /\ fs[Len(gs) + 1] = es[i] /\ Len(gs) \in Nat
        /\ DOMAIN gs = 1 .. Len(gs) /\ \A k \in 1 .. Len(gs) : fs[k] = gs[k]
    BY <1>0, <2>2, <2>3
  <2> QED BY <2>2, <2>4
<1>4. CASE \E i \in DOMAIN es : \E e \in Replacements(es[i]) : fs = [es EXCEPT ![i] = e]
  <2>1. PICK i \in DOMAIN es : \E e \in Replacements(es[i]) : fs = [es EXCEPT ![i] = e]
    BY <1>4, Zenon
  <2>2. PICK e \in Replacements(es[i]) : fs = [es EXCEPT ![i] = e]
    BY <2>1, Zenon
  <2>3. es[i].path # MetaConf /\ \E d \in Contents : \E n \in {Len(d), Unset} : e = ResourceEntry(es[i].path, n, d)
    BY Zenon DEF Replacements
  <2>4. PICK d \in Contents : \E n \in {Len(d), Unset} : e = ResourceEntry(es[i].path, n, d)
    BY <2>3, Zenon
  <2>5. PICK n \in {Len(d), Unset} : e = [path |-> es[i].path, by |-> None, meta |-> NoMeta, size |-> n, data |-> d]
    BY <2>4, Zenon DEF ResourceEntry, Entry
  <2>6. d \in Seq(Units) /\ n \in Nat \cup {Unset}
    BY ArchiveAssumption
  <2>7. NoMeta \in Meta
    BY DEF NoMeta, Meta
  <2>8. es[i].path \in Path
    BY <1>0 DEF AnyEntry
  <2>9. e \in AnyEntry
    BY <2>5, <2>6, <2>7, <2>8 DEF AnyEntry
  <2>10. fs \in Seq(AnyEntry) /\ DOMAIN fs = DOMAIN es /\ fs[i] = e /\ \A k \in DOMAIN es : k # i => fs[k] = es[k]
    BY <1>0, <2>2, <2>9, ExceptSeq
  <2>11. e.path = es[i].path /\ e.size \in {Unset, Len(e.data)}
    BY <2>5
  <2> QED BY <2>3, <2>10, <2>11, Zenon
<1> DEFINE A(i) == {RemoveAt(es, i), Append(es, es[i]), RemoveAt(es, i) \o <<es[i]>>}
           B(i) == {[es EXCEPT ![i] = e] : e \in Replacements(es[i])}
<1>5. \E i \in DOMAIN es : fs \in A(i) \/ fs \in B(i)
  <2>1. fs \in Repacks(es)
    OBVIOUS
  <2> QED BY <2>1 DEF Repacks
<1>6. \A i : fs \in B(i) => \E e \in Replacements(es[i]) : fs = [es EXCEPT ![i] = e]
  BY Zenon
<1>7. \A i : fs \in A(i) => \/ fs = RemoveAt(es, i) \/ fs = Append(es, es[i]) \/ fs = RemoveAt(es, i) \o <<es[i]>>
  BY Zenon
<1> HIDE DEF A, B
<1> QED BY <1>1, <1>2, <1>3, <1>4, <1>5, <1>6, <1>7, Zenon

\* The entries fwup writes.
LEMMA HeadEntries ==
  ASSUME NEW m \in Meta, NEW k \in Keys \cup {None}
  PROVE  /\ SignatureEntry(k, m) = [path |-> Signature, by |-> k, meta |-> m, size |-> Unset, data |-> <<>>]
         /\ MetaEntry(m) = [path |-> MetaConf, by |-> None, meta |-> m, size |-> Unset, data |-> <<>>]
         /\ SignatureEntry(k, m) \in AnyEntry /\ MetaEntry(m) \in AnyEntry
         /\ SoundEntry(SignatureEntry(k, m)) /\ (Distinct(m.res) => SoundEntry(MetaEntry(m)))
<1>1. SignatureEntry(k, m) = [path |-> Signature, by |-> k, meta |-> m, size |-> Unset, data |-> <<>>]
  BY DEF SignatureEntry, Entry
<1>2. MetaEntry(m) = [path |-> MetaConf, by |-> None, meta |-> m, size |-> Unset, data |-> <<>>]
  BY DEF MetaEntry, Entry
<1>3. <<>> \in Seq(Units)
  OBVIOUS
<1>4. SignatureEntry(k, m) \in AnyEntry /\ MetaEntry(m) \in AnyEntry
  BY <1>1, <1>2, <1>3, OtherPaths DEF AnyEntry
<1>5. \A p \in {Signature, MetaConf} : archive_filename_to_resource(p) # NameOf(FALSE, <<Empty>>)
  <2>1. Len(Signature) = 1 /\ Len(MetaConf) = 1
    BY DEF Signature, MetaConf
  <2>2. \A p \in {Signature, MetaConf} : archive_filename_to_resource(p) = NameOf(TRUE, p)
    <3>1. \A p \in {Signature, MetaConf} : ~(Len(p) > 1)
      BY <2>1
    <3> QED BY <3>1, Zenon DEF archive_filename_to_resource
  <2>3. \A p : NameOf(TRUE, p) # NameOf(FALSE, <<Empty>>)
    <3> SUFFICES ASSUME NEW p, NameOf(TRUE, p) = NameOf(FALSE, <<Empty>>) PROVE FALSE
      OBVIOUS
    <3>1. NameOf(TRUE, p).root = TRUE /\ NameOf(FALSE, <<Empty>>).root = FALSE
      BY DEF NameOf
    <3> QED BY <3>1
  <2> QED BY <2>2, <2>3, Zenon
<1>6. ~Skipped(SignatureEntry(k, m)) /\ ~Skipped(MetaEntry(m))
  <2>1. SignatureEntry(k, m).path = Signature /\ MetaEntry(m).path = MetaConf
    BY <1>1, <1>2
  <2> QED BY <1>5, <2>1, Zenon DEF Skipped
<1>7. SignatureEntry(k, m).path # MetaConf /\ MetaEntry(m).meta = m
  BY <1>1, <1>2, OtherPaths
<1> QED BY <1>1, <1>2, <1>4, <1>6, <1>7 DEF SoundEntry

LEMMA ResourceEntries ==
  ASSUME NEW p \in Path, NEW n \in Nat, NEW d \in Seq(Units)
  PROVE  /\ ResourceEntry(p, n, d) = [path |-> p, by |-> None, meta |-> NoMeta, size |-> n, data |-> d]
         /\ ResourceEntry(p, n, d) \in AnyEntry
         /\ p # MetaConf /\ archive_filename_to_resource(p) # NameOf(FALSE, <<Empty>>)
              => SoundEntry(ResourceEntry(p, n, d))
<1>1. ResourceEntry(p, n, d) = [path |-> p, by |-> None, meta |-> NoMeta, size |-> n, data |-> d]
  BY DEF ResourceEntry, Entry
<1>2. NoMeta \in Meta
  BY DEF NoMeta, Meta
<1>3. ResourceEntry(p, n, d) \in AnyEntry
  BY <1>1, <1>2 DEF AnyEntry
<1>4. ResourceEntry(p, n, d).path = p
  BY <1>1
<1> QED BY <1>1, <1>3, <1>4, Zenon DEF SoundEntry, Skipped

\* meta.conf with or without the signature in front of it.
LEMMA HeadSequence ==
  ASSUME NEW m \in Meta, NEW k \in Keys \cup {None}, Distinct(m.res)
  PROVE  LET es == fwfile_add_meta_conf_str(m, k)
         IN  /\ es \in Seq(AnyEntry) /\ \A i \in DOMAIN es : SoundEntry(es[i])
             /\ k = None => Len(es) = 1 /\ es[1] = MetaEntry(m)
             /\ k # None => Len(es) = 2 /\ es[1] = SignatureEntry(k, m) /\ es[2] = MetaEntry(m)
<1> DEFINE es == fwfile_add_meta_conf_str(m, k)
           s == SignatureEntry(k, m)
           t == MetaEntry(m)
<1>1. s \in AnyEntry /\ t \in AnyEntry /\ SoundEntry(s) /\ SoundEntry(t)
  BY HeadEntries
<1>2. es = IF k = None THEN <<t>> ELSE <<s, t>>
  BY DEF fwfile_add_meta_conf_str
<1> HIDE DEF es, s, t
<1>3. CASE k = None
  BY <1>1, <1>2, <1>3 DEF es, s, t
<1>4. CASE k # None
  <2>1. es = <<s, t>>
    BY <1>2, <1>4
  <2>2. es \in Seq(AnyEntry) /\ Len(es) = 2 /\ es[1] = s /\ es[2] = t /\ DOMAIN es = {1, 2}
    BY <1>1, <2>1
  <2> QED BY <1>1, <1>4, <2>2 DEF es, s, t
<1> QED BY <1>3, <1>4

\* An archive that grows.
LEMMA Extended ==
  ASSUME NEW a \in AnyArchive, SoundArchive(a), a.exists,
         NEW fs \in Seq(AnyEntry), \A i \in DOMAIN fs : SoundEntry(fs[i])
  PROVE  LET b == [a EXCEPT !.entries = @ \o fs]
         IN  /\ b \in AnyArchive /\ SoundArchive(b) /\ b.closed = a.closed /\ b.exists = a.exists
             /\ b.entries = a.entries \o fs
<1> DEFINE es == a.entries
           gs == es \o fs
           b == [a EXCEPT !.entries = @ \o fs]
<1>1. /\ es \in Seq(AnyEntry) /\ Len(es) \in Nat /\ a.closed \in BOOLEAN /\ a.exists \in BOOLEAN
      /\ b = [entries |-> gs, closed |-> a.closed, exists |-> a.exists]
  <2>1. /\ es \in Seq(AnyEntry) /\ Len(es) \in Nat /\ a.closed \in BOOLEAN /\ a.exists \in BOOLEAN
        /\ a = [entries |-> es, closed |-> a.closed, exists |-> a.exists]
    BY DEF AnyArchive
  <2>2. b = [a EXCEPT !.entries = gs]
    OBVIOUS
  <2> HIDE DEF es, gs, b
  <2>3. b = [entries |-> gs, closed |-> a.closed, exists |-> a.exists]
    BY <2>1, <2>2
  <2> QED BY <2>1, <2>3
<1>2. \A i \in DOMAIN es : SoundEntry(es[i])
  BY DEF SoundArchive
<1>3. gs \in Seq(AnyEntry) /\ \A i \in DOMAIN gs : SoundEntry(gs[i])
  <2> HIDE DEF es
  <2>1. /\ gs \in Seq(AnyEntry) /\ Len(gs) = Len(es) + Len(fs) /\ Len(fs) \in Nat
        /\ \A i \in 1 .. Len(gs) : gs[i] = IF i <= Len(es) THEN es[i] ELSE fs[i - Len(es)]
    BY <1>1
  <2> HIDE DEF gs
  <2>2. \A i \in 1 .. Len(es) : SoundEntry(es[i])
    BY <1>1, <1>2
  <2>3. \A i \in 1 .. Len(fs) : SoundEntry(fs[i])
    OBVIOUS
  <2>4. \A i \in 1 .. Len(gs) : IF i <= Len(es) THEN i \in 1 .. Len(es) ELSE i - Len(es) \in 1 .. Len(fs)
    BY <1>1, <2>1
  <2>5. \A i \in 1 .. Len(gs) : SoundEntry(gs[i])
    BY <2>1, <2>2, <2>3, <2>4
  <2>6. DOMAIN gs = 1 .. Len(gs)
    BY <2>1
  <2> QED BY <2>1, <2>5, <2>6
<1> HIDE DEF gs, b
<1>4. b \in AnyArchive
  BY <1>1, <1>3 DEF AnyArchive
<1>5. b.entries = gs /\ b.closed = a.closed /\ b.exists = a.exists
  BY <1>1
<1>6. SoundArchive(b)
  BY <1>3, <1>5 DEF SoundArchive
<1> QED BY <1>4, <1>5, <1>6 DEF b, gs

LEMMA Empties ==
  /\ NoArchive \in AnyArchive /\ SoundArchive(NoArchive) /\ ~NoArchive.exists /\ ~NoArchive.closed
  /\ Opened \in AnyArchive /\ SoundArchive(Opened) /\ Opened.exists /\ ~Opened.closed /\ Opened.entries = <<>>
BY DEF NoArchive, Opened, AnyArchive, SoundArchive

----------------------------------------------------------------------------
(* Commands start                                                          *)

\* What is running can be told from its name.
LEMMA CommandKinds ==
  ASSUME TypeOK
  PROVE  /\ Idle.op = "idle" /\ (cmd = Idle <=> cmd.op = "idle")
         /\ cmd.op = "create" <=> cmd \in Creating
         /\ cmd.op = "sign" <=> cmd \in Signing
         /\ cmd.op \in {"idle", "create", "sign"}
BY DEF TypeOK, Idle, Creating, Signing

LEMMA CommandKindsNext ==
  ASSUME TypeOK'
  PROVE  /\ Idle.op = "idle" /\ (cmd' = Idle <=> cmd'.op = "idle")
         /\ cmd'.op = "create" <=> cmd' \in Creating
         /\ cmd'.op = "sign" <=> cmd' \in Signing
         /\ cmd'.op \in {"idle", "create", "sign"}
BY DEF TypeOK, Idle, Creating, Signing

\* What there is to say of results while a command runs.
LEMMA RunningResults ==
  ASSUME TypeOK', cmd'.op # "idle", cmd'.op = "sign" => fw' = former'
  PROVE  SignAtomic' /\ OutputVerifies'
<1>1. cmd' # Idle
  BY CommandKindsNext
<1>2. SignAtomic'
  BY <1>1, Zenon DEF SignAtomic
<1>3. SignedVerifies' /\ CreateVerifies'
  BY <1>1, Zenon DEF SignedVerifies, CreateVerifies
<1> QED BY <1>2, <1>3 DEF OutputVerifies

\* What there is to say of commands while none runs.
LEMMA NothingRuns ==
  ASSUME cmd' = Idle
  PROVE  MapOK' /\ AddOK' /\ CopyOK' /\ SignedOK'
<1>1. cmd'.op = "idle"
  BY DEF Idle
<1> QED BY <1>1 DEF MapOK, AddOK, CopyOK, SignedOK

LEMMA InitInv == Init => ArchiveInv
<1> SUFFICES ASSUME Init PROVE ArchiveInv
  OBVIOUS
<1>1. fw = NoArchive /\ tmp = NoArchive /\ former = NoArchive /\ cmd = Idle /\ Idle.op = "idle"
      /\ last = [op |-> "idle", ok |-> TRUE, key |-> None, unnoticed |-> FALSE]
      /\ quiet = TRUE /\ crashed = FALSE /\ host \in [Files -> Contents]
  BY DEF Init, Result, Idle
<1>2. TypeOK
  BY <1>1, Empties DEF TypeOK
<1>3. ArchivesSound
  BY <1>1, Empties DEF ArchivesSound
<1>4. MapOK /\ AddOK /\ CopyOK /\ SignedOK
  BY <1>1 DEF MapOK, AddOK, CopyOK, SignedOK
<1>5. TempOK
  BY <1>1, Empties DEF TempOK
<1>6. SignAtomic
  BY <1>1, Empties DEF SignAtomic
<1>7. SignedVerifies /\ CreateVerifies
  BY <1>1, Zenon DEF SignedVerifies, CreateVerifies
<1> QED BY <1>2, <1>3, <1>4, <1>5, <1>6, <1>7 DEF ArchiveInv, OutputVerifies

LEMMA StartCreateInv ==
  ASSUME ArchiveInv, NEW c \in Configs, NEW k \in Keys \cup {None}, StartCreate(c, k)
  PROVE  ArchiveInv'
<1>1. /\ cmd = Idle /\ former' = fw /\ quiet' = TRUE
      /\ UNCHANGED <<host, fw, tmp, last, crashed>>
      /\ cmd' = [op |-> "create", step |-> "map", ix |-> 1, cfg |-> c.res, key |-> k, fatal |-> FALSE,
                 meta |-> [size |-> c.size, res |-> <<>>]]
  BY DEF StartCreate, Start
<1>2. c.size \in {"fits", "long"} /\ c.res \in Seq(Resource) /\ Distinct(c.res) /\ DOMAIN c.res \subseteq Files
  <2>1. c \in [size : {"fits", "long"}, res : Seq(Resource)]
    BY ArchiveAssumption DEF Resource
  <2>2. Distinct(c.res)
    BY ArchiveAssumption
  <2>3. DOMAIN c.res \subseteq Files
    BY Zenon DEF Files
  <2> QED BY <2>1, <2>2, <2>3
<1>3. cmd' \in Creating
  <2>1. [size |-> c.size, res |-> <<>>] \in Meta
    BY <1>2 DEF Meta
  <2> QED BY <1>1, <1>2, <2>1 DEF Creating
<1>4. TypeOK'
  BY <1>1, <1>3 DEF ArchiveInv, TypeOK
<1>5. ArchivesSound'
  BY <1>1 DEF ArchiveInv, ArchivesSound, SoundArchive, Sized
<1>6. /\ cmd'.op = "create" /\ cmd'.step = "map" /\ cmd'.ix = 1 /\ cmd'.cfg = c.res
      /\ cmd'.meta.res = <<>>
  BY <1>1
<1>7. MapOK'
  BY <1>2, <1>6 DEF MapOK
<1>8. AddOK' /\ CopyOK' /\ SignedOK'
  BY <1>6 DEF AddOK, CopyOK, SignedOK
<1>9. TempOK'
  BY <1>1, CommandKinds DEF ArchiveInv, TempOK
<1>10. SignAtomic' /\ OutputVerifies'
  BY <1>4, <1>6, RunningResults
<1> QED BY <1>4, <1>5, <1>7, <1>8, <1>9, <1>10 DEF ArchiveInv

LEMMA StartSignInv ==
  ASSUME ArchiveInv, NEW k \in Keys, StartSign(k)
  PROVE  ArchiveInv'
<1>1. /\ cmd = Idle /\ former' = fw /\ quiet' = TRUE
      /\ UNCHANGED <<host, fw, tmp, last, crashed>>
      /\ cmd' = [op |-> "sign", step |-> "open", ix |-> 1, key |-> k, found |-> FALSE, unnoticed |-> FALSE]
  BY DEF StartSign, Start
<1>2. TypeOK'
  BY <1>1 DEF ArchiveInv, TypeOK, Signing
<1>3. ArchivesSound'
  BY <1>1 DEF ArchiveInv, ArchivesSound, SoundArchive, Sized
<1>4. cmd'.op = "sign" /\ cmd'.step = "open" /\ cmd'.ix = 1 /\ ~cmd'.found
  BY <1>1
<1>5. MapOK' /\ AddOK' /\ CopyOK' /\ SignedOK' /\ TempOK'
  BY <1>4 DEF MapOK, AddOK, CopyOK, SignedOK, TempOK
<1>6. SignAtomic' /\ OutputVerifies'
  BY <1>1, <1>2, <1>4, RunningResults
<1> QED BY <1>2, <1>3, <1>5, <1>6 DEF ArchiveInv

----------------------------------------------------------------------------
(* fwup_create measures the files                                          *)

\* Archives that do not change.
LEMMA SameArchives ==
  ASSUME ArchivesSound, UNCHANGED <<fw, tmp, former>>
  PROVE  ArchivesSound'
BY DEF ArchivesSound, SoundArchive, Sized

LEMMA BuildSparseMapInv ==
  ASSUME ArchiveInv, build_sparse_map
  PROVE  ArchiveInv'
<1>1. cmd.op = "create" /\ cmd.step = "map" /\ UNCHANGED <<host, fw, tmp, last, former, quiet, crashed, budget>>
  BY DEF build_sparse_map, Running
<1>2. cmd \in Creating /\ TypeOK
  BY <1>1, CommandKinds DEF ArchiveInv
<1>3. /\ cmd.cfg \in Seq(Resource) /\ cmd.meta \in Meta /\ cmd.meta.res \in Seq(MetaResource) /\ cmd.ix \in Nat \ {0}
      /\ Len(cmd.cfg) \in Nat
  BY <1>2 DEF Creating, Meta
<1>4. /\ Distinct(cmd.cfg) /\ DOMAIN cmd.cfg \subseteq Files /\ cmd.ix \in 1 .. Len(cmd.cfg) + 1
      /\ Len(cmd.meta.res) = cmd.ix - 1 /\ \A i \in DOMAIN cmd.meta.res : Measured(cmd.meta.res[i], i)
  BY <1>1 DEF ArchiveInv, MapOK
<1>5. CASE cmd.ix > Len(cmd.cfg) /\ cmd' = [cmd EXCEPT !.step = "open"]
  <2>1. cmd' \in Creating /\ cmd'.op = "create" /\ cmd'.step = "open" /\ cmd'.ix = cmd.ix /\ cmd'.cfg = cmd.cfg
        /\ cmd'.meta = cmd.meta
    BY <1>2, <1>5 DEF Creating
  <2>2. TypeOK'
    BY <1>1, <1>2, <2>1 DEF TypeOK
  <2>3. MapOK'
    <3>1. \A i \in DOMAIN cmd.meta.res : Measured(cmd.meta.res[i], i)'
      BY <1>1, <1>4, <2>1 DEF Measured
    <3>2. Len(cmd.meta.res) = Len(cmd.cfg)
      BY <1>3, <1>4, <1>5
    <3> QED BY <1>4, <2>1, <3>1, <3>2 DEF MapOK
  <2>4. AddOK' /\ CopyOK' /\ SignedOK'
    BY <2>1 DEF AddOK, CopyOK, SignedOK
  <2>5. TempOK'
    BY <1>1, <2>1 DEF ArchiveInv, TempOK
  <2>6. SignAtomic' /\ OutputVerifies'
    BY <2>1, <2>2, RunningResults
  <2> QED BY <1>1, <2>2, <2>3, <2>4, <2>5, <2>6, SameArchives DEF ArchiveInv
<1>6. CASE ~(cmd.ix > Len(cmd.cfg))
  <2> DEFINE r == cmd.cfg[cmd.ix]
             x == [name |-> r.name, sparse |-> r.sparse, len |-> Len(host[cmd.ix]), hash |-> <<>>]
  <2>1. cmd' = [cmd EXCEPT !.step = "hash", !.meta.res = Append(@, x)]
    BY <1>6, Zenon DEF build_sparse_map
  <2>2. cmd.ix \in DOMAIN cmd.cfg /\ cmd.ix \in 1 .. Len(cmd.cfg)
    BY <1>3, <1>4, <1>6
  <2>3. x \in MetaResource
    <3>1. r \in Resource
      BY <1>3, <2>2
    <3>2. host[cmd.ix] \in Seq(Units)
      BY <1>2, <1>4, <2>2, ArchiveAssumption DEF TypeOK
    <3>3. Len(host[cmd.ix]) \in Nat
      BY <3>2
    <3>4. r.name \in Name /\ r.sparse \in BOOLEAN
      BY <3>1 DEF Resource
    <3> QED BY <3>3, <3>4 DEF MetaResource
  <2> HIDE DEF x, r
  <2> DEFINE rs == Append(cmd.meta.res, x)
  <2>4. rs \in Seq(MetaResource) /\ Len(rs) = cmd.ix /\ rs[cmd.ix] = x /\ \A i \in 1 .. cmd.ix - 1 : rs[i] = cmd.meta.res[i]
    BY <1>3, <1>4, <2>3
  <2>5. cmd' = [cmd EXCEPT !.step = "hash", !.meta.res = rs]
    BY <2>1
  <2> HIDE DEF rs
  <2>6. cmd' \in Creating /\ cmd'.op = "create" /\ cmd'.step = "hash" /\ cmd'.ix = cmd.ix /\ cmd'.cfg = cmd.cfg
        /\ cmd'.meta.res = rs
    BY <1>2, <2>4, <2>5 DEF Creating, Meta
  <2>7. TypeOK'
    BY <1>1, <1>2, <2>6 DEF TypeOK
  <2>8. MapOK'
    <3>1. ASSUME NEW i \in DOMAIN rs PROVE Measured(cmd.meta.res[i], i)'
      <4>1. CASE i = cmd.ix
        <5>1. rs[i] = x /\ x.name = r.name /\ x.sparse = r.sparse /\ x.len = Len(host[i])
          BY <2>4, <4>1 DEF x
        <5> QED BY <1>1, <2>6, <4>1, <5>1 DEF Measured, r
      <4>2. CASE i # cmd.ix
        <5>1. i \in 1 .. cmd.ix - 1 /\ i < cmd.ix /\ i \in DOMAIN cmd.meta.res
          BY <1>3, <1>4, <2>4, <4>2
        <5>2. Measured(cmd.meta.res[i], i) /\ rs[i] = cmd.meta.res[i]
          BY <1>4, <2>4, <5>1
        <5> QED BY <1>1, <2>6, <5>1, <5>2 DEF Measured
      <4> QED BY <4>1, <4>2
    <3> QED BY <1>4, <2>2, <2>4, <2>6, <3>1 DEF MapOK
  <2>9. AddOK' /\ CopyOK' /\ SignedOK'
    BY <2>6 DEF AddOK, CopyOK, SignedOK
  <2>10. TempOK'
    BY <1>1, <2>6 DEF ArchiveInv, TempOK
  <2>11. SignAtomic' /\ OutputVerifies'
    BY <2>6, <2>7, RunningResults
  <2> QED BY <1>1, <2>7, <2>8, <2>9, <2>10, <2>11, SameArchives DEF ArchiveInv
<1> QED BY <1>5, <1>6, Zenon DEF build_sparse_map

LEMMA UpToTyped ==
  ASSUME NEW n \in Nat, NEW d \in Seq(Units)
  PROVE  /\ UpTo(n, d) \in Seq(Units) /\ Len(UpTo(n, d)) = IF n < Len(d) THEN n ELSE Len(d)
         /\ Len(d) <= n => UpTo(n, d) = d
<1>1. Len(d) \in Nat
  OBVIOUS
<1>2. CASE n < Len(d)
  <2>1. UpTo(n, d) = SubSeq(d, 1, n)
    BY <1>2 DEF UpTo
  <2> QED BY <1>1, <1>2, <2>1
<1>3. CASE ~(n < Len(d))
  <2>1. UpTo(n, d) = SubSeq(d, 1, Len(d))
    BY <1>3 DEF UpTo
  <2>2. SubSeq(d, 1, Len(d)) = d
    BY SubSeqFull
  <2> QED BY <1>1, <1>3, <2>1, <2>2
<1> QED BY <1>2, <1>3

\* What fwup_create knows while it runs.
LEMMA CreatingFacts ==
  ASSUME ArchiveInv, cmd.op = "create"
  PROVE  /\ TypeOK /\ cmd \in Creating /\ cmd.cfg \in Seq(Resource) /\ cmd.meta \in Meta
         /\ cmd.meta.res \in Seq(MetaResource) /\ cmd.ix \in Nat \ {0} /\ Len(cmd.cfg) \in Nat
         /\ Distinct(cmd.cfg) /\ DOMAIN cmd.cfg \subseteq Files /\ cmd.ix \in 1 .. Len(cmd.cfg) + 1
         /\ \A i \in DOMAIN cmd.meta.res : Measured(cmd.meta.res[i], i)
         /\ cmd.key \in Keys \cup {None} /\ cmd.fatal \in BOOLEAN
         /\ \A i \in DOMAIN cmd.cfg : host[i] \in Seq(Units)
<1>1. TypeOK /\ cmd \in Creating
  BY CommandKinds DEF ArchiveInv
<1>2. /\ cmd.cfg \in Seq(Resource) /\ cmd.meta \in Meta /\ cmd.ix \in Nat \ {0}
      /\ cmd.key \in Keys \cup {None} /\ cmd.fatal \in BOOLEAN
  BY <1>1 DEF Creating
<1>3. cmd.meta.res \in Seq(MetaResource) /\ Len(cmd.cfg) \in Nat
  BY <1>2 DEF Meta
<1>4. /\ Distinct(cmd.cfg) /\ DOMAIN cmd.cfg \subseteq Files /\ cmd.ix \in 1 .. Len(cmd.cfg) + 1
      /\ \A i \in DOMAIN cmd.meta.res : Measured(cmd.meta.res[i], i)
  BY DEF ArchiveInv, MapOK
<1>5. \A i \in DOMAIN cmd.cfg : host[i] \in Seq(Units)
  BY <1>1, <1>4, ArchiveAssumption DEF TypeOK
<1> QED BY <1>1, <1>2, <1>3, <1>4, <1>5

\* The names in meta.conf are those of the configuration.
LEMMA MapDistinct ==
  ASSUME ArchiveInv, cmd.op = "create"
  PROVE  Distinct(cmd.meta.res) /\ Len(cmd.meta.res) <= Len(cmd.cfg)
<1>1. /\ cmd.meta.res \in Seq(MetaResource) /\ cmd.cfg \in Seq(Resource) /\ Len(cmd.cfg) \in Nat
      /\ cmd.ix \in 1 .. Len(cmd.cfg) + 1
      /\ Distinct(cmd.cfg) /\ \A i \in DOMAIN cmd.meta.res : Measured(cmd.meta.res[i], i)
  BY CreatingFacts
<1>2. Len(cmd.meta.res) \in Nat /\ Len(cmd.meta.res) <= Len(cmd.cfg)
  BY <1>1 DEF ArchiveInv, MapOK
<1>3. ASSUME NEW i \in DOMAIN cmd.meta.res, NEW j \in DOMAIN cmd.meta.res,
             cmd.meta.res[i].name = cmd.meta.res[j].name
      PROVE  i = j
  <2>1. i \in DOMAIN cmd.cfg /\ j \in DOMAIN cmd.cfg
    BY <1>1, <1>2
  <2>2. cmd.cfg[i].name = cmd.cfg[j].name
    BY <1>1, <1>3 DEF Measured
  <2> QED BY <1>1, <2>1, <2>2 DEF Distinct
<1> QED BY <1>2, <1>3 DEF Distinct

LEMMA CalcHashInv ==
  ASSUME ArchiveInv, calc_hash
  PROVE  ArchiveInv'
<1>1. cmd.op = "create" /\ cmd.step = "hash" /\ UNCHANGED <<host, fw, tmp, last, former, quiet, crashed, budget>>
  BY DEF calc_hash, Running
<1> DEFINE rs == cmd.meta.res
           r == rs[cmd.ix]
           h == UpTo(r.len, host[cmd.ix])
           x == [r EXCEPT !.hash = h]
           ts == [rs EXCEPT ![cmd.ix] = x]
<1>2. /\ TypeOK /\ cmd \in Creating /\ cmd.cfg \in Seq(Resource) /\ cmd.meta \in Meta
      /\ rs \in Seq(MetaResource) /\ cmd.ix \in Nat \ {0} /\ Len(cmd.cfg) \in Nat
      /\ Distinct(cmd.cfg) /\ DOMAIN cmd.cfg \subseteq Files
      /\ \A i \in DOMAIN rs : Measured(rs[i], i)
  BY <1>1, CreatingFacts
<1>3. cmd.ix \in 1 .. Len(cmd.cfg) /\ Len(rs) = cmd.ix
  BY <1>1, <1>2 DEF ArchiveInv, MapOK
<1>4. cmd' = [cmd EXCEPT !.step = "map", !.ix = @ + 1, !.meta.res[cmd.ix].hash = h]
  BY DEF calc_hash
<1>5. cmd' = [cmd EXCEPT !.step = "map", !.ix = @ + 1, !.meta.res = ts]
  BY <1>4
<1>6. r \in MetaResource /\ r.len \in Nat /\ host[cmd.ix] \in Seq(Units) /\ Measured(r, cmd.ix)
  <2>1. r \in MetaResource /\ Measured(r, cmd.ix)
    BY <1>2, <1>3
  <2>2. host[cmd.ix] \in Seq(Units)
    BY <1>1, <1>2, <1>3, CreatingFacts
  <2> QED BY <2>1, <2>2 DEF MetaResource
<1>7. h \in Seq(Units) /\ (Len(host[cmd.ix]) <= r.len => h = host[cmd.ix])
  BY <1>6, UpToTyped
<1>8. x \in MetaResource /\ x.name = r.name /\ x.sparse = r.sparse /\ x.len = r.len /\ x.hash = h
  <2> HIDE DEF h, r
  <2> QED BY <1>6, <1>7 DEF MetaResource
<1> HIDE DEF x, h
<1>9. ts \in Seq(MetaResource) /\ Len(ts) = cmd.ix /\ ts[cmd.ix] = x /\ \A i \in 1 .. cmd.ix - 1 : ts[i] = rs[i]
  BY <1>2, <1>3, <1>8, ExceptSeq
<1> HIDE DEF ts
<1>10. cmd' \in Creating /\ cmd'.op = "create" /\ cmd'.step = "map" /\ cmd'.ix = cmd.ix + 1 /\ cmd'.cfg = cmd.cfg
       /\ cmd'.meta.res = ts
  <2> DEFINE m == [cmd.meta EXCEPT !.res = ts]
  <2>1. m \in Meta /\ m.res = ts
    BY <1>2, <1>9 DEF Meta
  <2>2. cmd' = [cmd EXCEPT !.step = "map", !.ix = cmd.ix + 1, !.meta = m]
    BY <1>5
  <2> HIDE DEF m, rs
  <2>3. cmd \in Creating /\ cmd.ix \in Nat /\ cmd.ix + 1 \in Nat \ {0}
    BY <1>2
  <2>4. cmd' \in Creating
    BY <2>1, <2>2, <2>3 DEF Creating
  <2>5. /\ cmd'.op = "create" /\ cmd'.step = "map" /\ cmd'.ix = cmd.ix + 1 /\ cmd'.cfg = cmd.cfg
        /\ cmd'.meta = m
    BY <2>2, <2>3 DEF Creating
  <2> QED BY <2>1, <2>4, <2>5
<1>11. TypeOK'
  BY <1>1, <1>2, <1>10 DEF TypeOK
<1>12. MapOK'
  <2>1. ASSUME NEW i \in DOMAIN ts PROVE Measured(cmd.meta.res[i], i)'
    <3>1. CASE i = cmd.ix
      <4>1. quiet => h = host[i]
        BY <1>6, <1>7, <3>1 DEF Measured
      <4> QED BY <1>1, <1>6, <1>8, <1>9, <1>10, <3>1, <4>1 DEF Measured
    <3>2. CASE i # cmd.ix
      <4>1. i \in 1 .. cmd.ix - 1 /\ i < cmd.ix /\ i \in DOMAIN rs
        BY <1>2, <1>3, <1>9, <3>2
      <4>2. Measured(rs[i], i) /\ ts[i] = rs[i]
        BY <1>2, <1>9, <4>1
      <4> QED BY <1>1, <1>10, <4>1, <4>2 DEF Measured
    <3> QED BY <3>1, <3>2
  <2>2. cmd.ix + 1 \in 1 .. Len(cmd.cfg) + 1 /\ Len(ts) = cmd.ix + 1 - 1
    BY <1>2, <1>3, <1>9
  <2> QED BY <1>2, <1>10, <2>1, <2>2 DEF MapOK
<1>13. AddOK' /\ CopyOK' /\ SignedOK'
  BY <1>10 DEF AddOK, CopyOK, SignedOK
<1>14. TempOK'
  BY <1>1, <1>10 DEF ArchiveInv, TempOK
<1>15. SignAtomic' /\ OutputVerifies'
  BY <1>10, <1>11, RunningResults
<1> QED BY <1>1, <1>11, <1>12, <1>13, <1>14, <1>15, SameArchives DEF ArchiveInv

\* A file is edited while fwup_create runs.
LEMMA EditInv ==
  ASSUME ArchiveInv, NEW f \in Files, Edit(f)
  PROVE  ArchiveInv'
<1>1. cmd.op = "create" /\ quiet' = FALSE /\ UNCHANGED <<fw, tmp, cmd, last, former, crashed>>
      /\ \E c \in Contents : host' = [host EXCEPT ![f] = c]
  BY DEF Edit
<1>2. TypeOK'
  BY <1>1 DEF ArchiveInv, TypeOK
<1>3. MapOK'
  BY <1>1 DEF ArchiveInv, MapOK, Measured
<1>4. AddOK'
  BY <1>1 DEF ArchiveInv, AddOK, Added, Headers
<1>5. CopyOK' /\ SignedOK' /\ TempOK'
  BY <1>1 DEF ArchiveInv, CopyOK, SignedOK, TempOK
<1>6. SignAtomic' /\ OutputVerifies'
  BY <1>1, <1>2, RunningResults
<1> QED BY <1>1, <1>2, <1>3, <1>4, <1>5, <1>6, SameArchives DEF ArchiveInv

----------------------------------------------------------------------------
(* fwup_create writes the archive                                          *)

\* What there is to say once fwup_create has ended with an error, or with one
\* that it did not notice.
LEMMA CreateEnds ==
  ASSUME ArchiveInv, cmd.op = "create", cmd' = Idle, UNCHANGED <<tmp, crashed>>,
         last'.op = "create", ~last'.ok \/ last'.unnoticed
  PROVE  MapOK' /\ AddOK' /\ CopyOK' /\ SignedOK' /\ TempOK' /\ SignAtomic' /\ OutputVerifies'
<1>1. MapOK' /\ AddOK' /\ CopyOK' /\ SignedOK'
  BY NothingRuns
<1>2. ~crashed' => ~tmp'.exists
  BY DEF ArchiveInv, TempOK
<1>3. TempOK'
  BY <1>2 DEF TempOK
<1>4. cmd'.op # "sign"
  BY DEF Idle
<1>5. SignAtomic'
  BY <1>2, <1>4, Zenon DEF SignAtomic
<1>6. SignedVerifies' /\ CreateVerifies'
  BY Zenon DEF SignedVerifies, CreateVerifies
<1> QED BY <1>1, <1>3, <1>5, <1>6 DEF OutputVerifies

LEMMA EndTyped ==
  ASSUME TypeOK, cmd.op \in {"create", "sign"}, NEW ok \in BOOLEAN, NEW unnoticed \in BOOLEAN, End(ok, unnoticed)
  PROVE  /\ cmd' = Idle /\ last' = [op |-> cmd.op, ok |-> ok, key |-> cmd.key, unnoticed |-> unnoticed]
         /\ last' \in [op : {"idle", "create", "sign", "repack"}, ok : BOOLEAN,
                       key : Keys \cup {None}, unnoticed : BOOLEAN]
         /\ last'.op = cmd.op /\ last'.ok = ok /\ last'.key = cmd.key /\ last'.unnoticed = unnoticed
<1>1. cmd' = Idle /\ last' = [op |-> cmd.op, ok |-> ok, key |-> cmd.key, unnoticed |-> unnoticed]
  BY DEF End, Result
<1>2. cmd.key \in Keys \cup {None}
  BY CommandKinds DEF Creating, Signing
<1> QED BY <1>1, <1>2

LEMMA CreateArchiveInv ==
  ASSUME ArchiveInv, create_archive
  PROVE  ArchiveInv'
<1>1. cmd.op = "create" /\ cmd.step = "open" /\ UNCHANGED <<host, tmp, former, quiet, crashed, budget>>
  BY DEF create_archive, Running
<1>2. /\ TypeOK /\ cmd \in Creating /\ cmd.cfg \in Seq(Resource) /\ cmd.meta \in Meta
      /\ cmd.meta.res \in Seq(MetaResource) /\ Len(cmd.cfg) \in Nat
      /\ Distinct(cmd.cfg) /\ DOMAIN cmd.cfg \subseteq Files
      /\ \A i \in DOMAIN cmd.meta.res : Measured(cmd.meta.res[i], i)
      /\ cmd.key \in Keys \cup {None}
  BY <1>1, CreatingFacts
<1>3. Len(cmd.meta.res) = Len(cmd.cfg)
  BY <1>1 DEF ArchiveInv, MapOK
<1>4. Distinct(cmd.meta.res)
  BY <1>1, MapDistinct
<1> DEFINE head == fwfile_add_meta_conf_str(cmd.meta, cmd.key)
<1>5. CASE /\ \E fatal \in BOOLEAN :
                /\ fw' = [Opened EXCEPT !.entries = IF fatal THEN <<>> ELSE head]
                /\ cmd' = [cmd EXCEPT !.step = "add", !.ix = 1, !.fatal = fatal]
           /\ UNCHANGED last
  <2>1. PICK fatal \in BOOLEAN :
             /\ fw' = [Opened EXCEPT !.entries = IF fatal THEN <<>> ELSE head]
             /\ cmd' = [cmd EXCEPT !.step = "add", !.ix = 1, !.fatal = fatal]
    BY <1>5
  <2>2. UNCHANGED last
    BY <1>5
  <2>3. head \in Seq(AnyEntry) /\ (\A i \in DOMAIN head : SoundEntry(head[i]))
        /\ Len(head) = IF cmd.key = None THEN 1 ELSE 2
    BY <1>2, <1>4, HeadSequence
  <2> DEFINE es == IF fatal THEN <<>> ELSE head
  <2>4. es \in Seq(AnyEntry) /\ \A i \in DOMAIN es : SoundEntry(es[i])
    BY <2>3
  <2>5. fw' = [entries |-> es, closed |-> FALSE, exists |-> TRUE]
    BY <2>1 DEF Opened
  <2>6. cmd' \in Creating /\ cmd'.op = "create" /\ cmd'.step = "add" /\ cmd'.ix = 1 /\ cmd'.fatal = fatal
        /\ cmd'.cfg = cmd.cfg /\ cmd'.meta = cmd.meta /\ cmd'.key = cmd.key
    <3>1. cmd \in Creating
      BY <1>2
    <3>2. cmd' = [cmd EXCEPT !.step = "add", !.ix = 1, !.fatal = fatal]
      BY <2>1
    <3>3. 1 \in Nat \ {0}
      OBVIOUS
    <3>4. cmd' \in Creating
      BY <3>1, <3>2, <3>3 DEF Creating
    <3>5. /\ cmd'.op = "create" /\ cmd'.step = "add" /\ cmd'.ix = 1 /\ cmd'.fatal = fatal
          /\ cmd'.cfg = cmd.cfg /\ cmd'.meta = cmd.meta /\ cmd'.key = cmd.key
      BY <3>1, <3>2 DEF Creating
    <3> QED BY <3>4, <3>5
  <2>7. ~fatal => fw'.entries = head
    BY <2>5
  <2>8. fw' \in AnyArchive /\ SoundArchive(fw')
    <3> HIDE DEF es
    <3> QED BY <2>4, <2>5 DEF AnyArchive, SoundArchive
  <2> HIDE DEF es, head
  <2>9. TypeOK'
    BY <1>1, <1>2, <2>2, <2>6, <2>8 DEF TypeOK
  <2>10. ~fw'.closed /\ fw'.exists
    BY <2>5
  <2>11. ArchivesSound'
    BY <1>1, <2>8, <2>10 DEF ArchiveInv, ArchivesSound, SoundArchive, Sized
  <2>12. MapOK'
    <3>1. \A i \in DOMAIN cmd.meta.res : Measured(cmd.meta.res[i], i)'
      BY <1>1, <1>2, <2>6 DEF Measured
    <3> QED BY <1>2, <1>3, <2>6, <3>1 DEF MapOK
  <2>13. AddOK'
    <3>1. Headers' = IF cmd.key = None THEN 1 ELSE 2
      BY <2>6 DEF Headers
    <3>2. ~fatal => Len(fw'.entries) = Headers' + 1 - 1 /\ fw'.entries = fwfile_add_meta_conf_str(cmd.meta, cmd.key)
      BY <2>3, <2>7, <3>1 DEF head
    <3>3. \A i : ~(i \in 1 .. 1 - 1)
      OBVIOUS
    <3> QED BY <2>6, <2>10, <3>2, <3>3 DEF AddOK
  <2>14. CopyOK' /\ SignedOK'
    BY <2>6 DEF CopyOK, SignedOK
  <2>15. TempOK'
    BY <1>1, <2>6 DEF ArchiveInv, TempOK
  <2>16. SignAtomic' /\ OutputVerifies'
    BY <2>6, <2>9, RunningResults
  <2> QED BY <2>9, <2>11, <2>12, <2>13, <2>14, <2>15, <2>16 DEF ArchiveInv
<1>6. CASE End(FALSE, FALSE) /\ UNCHANGED fw
  <2>1. cmd' = Idle /\ last'.op = "create" /\ ~last'.ok
        /\ last' \in [op : {"idle", "create", "sign", "repack"}, ok : BOOLEAN, key : Keys \cup {None}, unnoticed : BOOLEAN]
    BY <1>1, <1>2, <1>6, EndTyped
  <2>2. TypeOK'
    BY <1>1, <1>2, <1>6, <2>1 DEF TypeOK
  <2>3. ArchivesSound'
    BY <1>1, <1>6, SameArchives DEF ArchiveInv
  <2> QED BY <1>1, <2>1, <2>2, <2>3, CreateEnds DEF ArchiveInv
<1> QED BY <1>5, <1>6, Zenon DEF create_archive

\* What is in the archive while fwup_create writes it.
LEMMA AddFacts ==
  ASSUME ArchiveInv, cmd.op = "create", cmd.step = "add", ~cmd.fatal
  PROVE  LET es == fw.entries
             res == cmd.meta.res
         IN  /\ es \in Seq(AnyEntry) /\ Headers \in {1, 2} /\ (Headers = 2 <=> cmd.key # None)
             /\ Len(es) = Headers + cmd.ix - 1 /\ cmd.ix - 1 \in Nat /\ Len(res) = Len(cmd.cfg)
             /\ cmd.ix - 1 <= Len(res)
             /\ es[Headers] = MetaEntry(cmd.meta) /\ (Headers = 2 => es[1] = SignatureEntry(cmd.key, cmd.meta))
             /\ \A y \in 1 .. cmd.ix - 1 :
                  /\ archive_filename_to_resource(es[Headers + y].path) = res[y].name
                  /\ es[Headers + y].path # MetaConf /\ es[Headers + y].size = res[y].len
                  /\ quiet => es[Headers + y].data = host[y]
<1> DEFINE es == fw.entries
           res == cmd.meta.res
<1>1. /\ TypeOK /\ cmd.meta \in Meta /\ res \in Seq(MetaResource) /\ cmd.ix \in Nat \ {0} /\ Len(cmd.cfg) \in Nat
      /\ cmd.ix \in 1 .. Len(cmd.cfg) + 1 /\ cmd.key \in Keys \cup {None}
  BY CreatingFacts
<1>2. Len(res) = Len(cmd.cfg)
  BY DEF ArchiveInv, MapOK
<1>3. es \in Seq(AnyEntry)
  BY <1>1 DEF TypeOK, AnyArchive
<1>4. /\ Len(es) = Headers + cmd.ix - 1
      /\ \A k \in 1 .. Headers : es[k] = fwfile_add_meta_conf_str(cmd.meta, cmd.key)[k]
      /\ \A i \in 1 .. cmd.ix - 1 : Added(es[Headers + i], i)
  BY DEF ArchiveInv, AddOK
<1>5. Headers \in {1, 2} /\ (Headers = 2 <=> cmd.key # None)
  BY DEF Headers
<1>6. Distinct(res)
  BY MapDistinct
<1>7. es[Headers] = MetaEntry(cmd.meta) /\ (Headers = 2 => es[1] = SignatureEntry(cmd.key, cmd.meta))
  <2>1. /\ cmd.key = None => fwfile_add_meta_conf_str(cmd.meta, cmd.key)[1] = MetaEntry(cmd.meta)
        /\ cmd.key # None => /\ fwfile_add_meta_conf_str(cmd.meta, cmd.key)[1] = SignatureEntry(cmd.key, cmd.meta)
                             /\ fwfile_add_meta_conf_str(cmd.meta, cmd.key)[2] = MetaEntry(cmd.meta)
    BY <1>1, <1>6, HeadSequence
  <2>2. Headers \in 1 .. Headers /\ 1 \in 1 .. Headers
    BY <1>5
  <2> QED BY <1>4, <1>5, <2>1, <2>2
<1>8. ASSUME NEW y \in 1 .. cmd.ix - 1
      PROVE  /\ archive_filename_to_resource(es[Headers + y].path) = res[y].name
             /\ es[Headers + y].path # MetaConf /\ es[Headers + y].size = res[y].len
             /\ quiet => es[Headers + y].data = host[y]
  <2> DEFINE e == es[Headers + y]
             r == res[y]
  <2>1. y \in DOMAIN res
    BY <1>1, <1>2
  <2>2. r.name \in Name
    <3>1. r \in MetaResource
      BY <1>1, <2>1
    <3> QED BY <3>1 DEF MetaResource
  <2>3. /\ Acceptable(r.name) /\ (quiet => e.data = host[y])
        /\ e = ResourceEntry(resource_name_to_archive_path(r.name), r.len, e.data)
    BY <1>4, Zenon DEF Added
  <2> HIDE DEF e, r
  <2>4. e.path = resource_name_to_archive_path(r.name) /\ e.size = r.len
    <3>1. e = [path |-> resource_name_to_archive_path(r.name), by |-> None, meta |-> NoMeta, size |-> r.len, data |-> e.data]
      BY <2>3, Zenon DEF ResourceEntry, Entry
    <3> QED BY <3>1
  <2>5. archive_filename_to_resource(e.path) = r.name /\ e.path # MetaConf
    BY <2>2, <2>3, <2>4, AcceptableName
  <2> QED BY <2>3, <2>4, <2>5 DEF e, r
<1>9. cmd.ix - 1 \in Nat /\ cmd.ix - 1 <= Len(res)
  BY <1>1, <1>2
<1> QED BY <1>2, <1>3, <1>4, <1>5, <1>7, <1>8, <1>9

\* The sizes in it are those of meta.conf.
LEMMA CreatedSized ==
  ASSUME ArchiveInv, cmd.op = "create", cmd.step = "add", ~cmd.fatal
  PROVE  Sized(fw)
<1> DEFINE es == fw.entries
           res == cmd.meta.res
           h == Headers
           n == cmd.ix - 1
<1>1. /\ es \in Seq(AnyEntry) /\ h \in {1, 2} /\ (h = 2 <=> cmd.key # None)
      /\ Len(es) = h + n /\ n \in Nat /\ n <= Len(res)
      /\ es[h] = MetaEntry(cmd.meta) /\ (h = 2 => es[1] = SignatureEntry(cmd.key, cmd.meta))
      /\ \A y \in 1 .. n : /\ archive_filename_to_resource(es[h + y].path) = res[y].name
                           /\ es[h + y].path # MetaConf /\ es[h + y].size = res[y].len
  <2>1. Len(es) = Headers + cmd.ix - 1 /\ Headers \in {1, 2} /\ cmd.ix \in Nat
    BY AddFacts, CreatingFacts
  <2>2. Len(es) = h + n
    BY <2>1
  <2>3. /\ es \in Seq(AnyEntry) /\ h \in {1, 2} /\ (h = 2 <=> cmd.key # None) /\ n \in Nat /\ n <= Len(res)
        /\ es[h] = MetaEntry(cmd.meta) /\ (h = 2 => es[1] = SignatureEntry(cmd.key, cmd.meta))
    BY AddFacts
  <2>4. \A y \in 1 .. n : /\ archive_filename_to_resource(es[h + y].path) = res[y].name
                          /\ es[h + y].path # MetaConf /\ es[h + y].size = res[y].len
    BY AddFacts
  <2> QED BY <2>2, <2>3, <2>4
<1>2. /\ cmd.meta \in Meta /\ cmd.key \in Keys \cup {None} /\ Distinct(res) /\ res \in Seq(MetaResource)
  BY CreatingFacts, MapDistinct
<1>3. /\ MetaEntry(cmd.meta).size = Unset /\ MetaEntry(cmd.meta).meta = cmd.meta
      /\ SignatureEntry(cmd.key, cmd.meta).size = Unset /\ SignatureEntry(cmd.key, cmd.meta).path = Signature
  BY <1>2, HeadEntries
<1> HIDE DEF h, n, es
<1>4. \A k \in DOMAIN es : k = h \/ (h = 2 /\ k = 1) \/ (k - h \in 1 .. n /\ h + (k - h) = k)
  BY <1>1
<1>5. ASSUME NEW i \in DOMAIN es, NEW j \in DOMAIN es, es[i].path = MetaConf,
             NEW r \in ToSet(es[i].meta.res), r.name = archive_filename_to_resource(es[j].path)
      PROVE  es[j].size \in {Unset, r.len, Len(es[j].data)}
  <2>1. i = h
    <3>1. ~(h = 2 /\ i = 1)
      BY <1>1, <1>3, <1>5, OtherPaths
    <3>2. ~(i - h \in 1 .. n /\ h + (i - h) = i)
      BY <1>1, <1>5
    <3> QED BY <1>4, <3>1, <3>2
  <2>2. es[i].meta.res = res
    BY <1>1, <1>3, <2>1
  <2>3. PICK x \in DOMAIN res : r = res[x]
    BY <1>5, <2>2, Zenon DEF ToSet
  <2>4. CASE j - h \in 1 .. n /\ h + (j - h) = j
    <3> DEFINE y == j - h
    <3>1. y \in 1 .. n /\ h + y = j
      BY <2>4
    <3> HIDE DEF y
    <3>2. res[y].name = res[x].name /\ es[j].size = res[y].len
      BY <1>1, <1>5, <2>3, <3>1
    <3>3. y \in DOMAIN res
      BY <1>1, <1>2, <3>1
    <3>4. x = y
      BY <1>2, <2>3, <3>2, <3>3, Zenon DEF Distinct
    <3> QED BY <2>3, <3>2, <3>4
  <2>5. CASE j = h \/ (h = 2 /\ j = 1)
    BY <1>1, <1>3, <2>5
  <2> QED BY <1>4, <2>4, <2>5
<1> QED BY <1>5, Zenon DEF Sized, es

LEMMA AddFileResourceInv ==
  ASSUME ArchiveInv, add_file_resource
  PROVE  ArchiveInv'
<1> DEFINE r == cmd.meta.res[cmd.ix]
           p == resource_name_to_archive_path(r.name)
           d == FromMap(r)
           e == ResourceEntry(p, r.len, d)
<1>1. /\ cmd.op = "create" /\ cmd.step = "add" /\ cmd.ix <= Len(cmd.cfg)
      /\ UNCHANGED <<host, tmp, former, quiet, crashed, budget>>
  BY DEF add_file_resource, Running
<1>2. /\ TypeOK /\ cmd \in Creating /\ cmd.cfg \in Seq(Resource) /\ cmd.meta \in Meta
      /\ cmd.meta.res \in Seq(MetaResource) /\ cmd.ix \in Nat \ {0} /\ Len(cmd.cfg) \in Nat
      /\ Distinct(cmd.cfg) /\ DOMAIN cmd.cfg \subseteq Files
      /\ \A i \in DOMAIN cmd.meta.res : Measured(cmd.meta.res[i], i)
      /\ cmd.key \in Keys \cup {None} /\ cmd.fatal \in BOOLEAN
      /\ \A i \in DOMAIN cmd.cfg : host[i] \in Seq(Units)
  BY <1>1, CreatingFacts
<1>3. Len(cmd.meta.res) = Len(cmd.cfg) /\ cmd.ix \in 1 .. Len(cmd.cfg)
  BY <1>1, <1>2 DEF ArchiveInv, MapOK
<1>4. /\ fw \in AnyArchive /\ SoundArchive(fw) /\ fw.exists /\ ~fw.closed
  BY <1>1, <1>2 DEF TypeOK, ArchiveInv, ArchivesSound, AddOK
<1>5. CASE /\ WithinLimits(r) /\ Acceptable(r.name) /\ (cmd.fatal => e.data = <<>>)
           /\ fw' = IF cmd.fatal THEN fw ELSE [fw EXCEPT !.entries = Append(@, e)]
           /\ cmd' = [cmd EXCEPT !.ix = @ + 1]
           /\ UNCHANGED last
  <2>1. r \in MetaResource /\ Measured(r, cmd.ix) /\ host[cmd.ix] \in Seq(Units)
    BY <1>2, <1>3
  <2>2. r.len \in Nat /\ r.name \in Name /\ (quiet => r.len = Len(host[cmd.ix]))
    <3> HIDE DEF r
    <3> QED BY <2>1 DEF MetaResource, Measured
  <2>3. d \in Seq(Units) /\ (quiet => d = host[cmd.ix])
    <3>1. d = UpTo(r.len, host[cmd.ix])
      BY DEF FromMap
    <3> HIDE DEF d, r
    <3>2. Len(host[cmd.ix]) \in Nat
      BY <2>1
    <3> QED BY <2>1, <2>2, <3>1, <3>2, UpToTyped
  <2> HIDE DEF d
  <2>4. e \in AnyEntry /\ SoundEntry(e) /\ e.data = d
    <3>1. p \in Path /\ archive_filename_to_resource(p) = r.name /\ p # MetaConf /\ r.name # NameOf(FALSE, <<Empty>>)
      BY <1>5, <2>2, AcceptableName
    <3> HIDE DEF p, r
    <3>2. /\ ResourceEntry(p, r.len, d) = [path |-> p, by |-> None, meta |-> NoMeta, size |-> r.len, data |-> d]
          /\ ResourceEntry(p, r.len, d) \in AnyEntry /\ SoundEntry(ResourceEntry(p, r.len, d))
      BY <2>2, <2>3, <3>1, ResourceEntries
    <3> QED BY <3>2
  <2>5. cmd' \in Creating /\ cmd'.op = "create" /\ cmd'.step = "add" /\ cmd'.ix = cmd.ix + 1 /\ cmd'.fatal = cmd.fatal
        /\ cmd'.cfg = cmd.cfg /\ cmd'.meta = cmd.meta /\ cmd'.key = cmd.key
    <3>1. cmd \in Creating /\ cmd.op = "create" /\ cmd.step = "add" /\ cmd.ix \in Nat /\ cmd.ix + 1 \in Nat \ {0}
      BY <1>1, <1>2
    <3>2. cmd' = [cmd EXCEPT !.ix = cmd.ix + 1]
      BY <1>5
    <3>3. cmd' \in Creating
      BY <3>1, <3>2 DEF Creating
    <3>4. /\ cmd'.op = "create" /\ cmd'.step = "add" /\ cmd'.ix = cmd.ix + 1 /\ cmd'.fatal = cmd.fatal
          /\ cmd'.cfg = cmd.cfg /\ cmd'.meta = cmd.meta /\ cmd'.key = cmd.key
      BY <3>1, <3>2 DEF Creating
    <3> QED BY <3>3, <3>4
  <2> HIDE DEF e
  <2>6. /\ fw' \in AnyArchive /\ SoundArchive(fw') /\ ~fw'.closed /\ fw'.exists
        /\ ~cmd.fatal => fw'.entries = Append(fw.entries, e)
    <3>1. CASE cmd.fatal
      BY <1>4, <1>5, <3>1
    <3>2. CASE ~cmd.fatal
      <4>1. fw.entries \in Seq(AnyEntry)
        BY <1>4 DEF AnyArchive
      <4>2. Append(fw.entries, e) = fw.entries \o <<e>> /\ <<e>> \in Seq(AnyEntry)
            /\ \A i \in DOMAIN <<e>> : SoundEntry(<<e>>[i])
        BY <2>4, <4>1, AppendIsConcat
      <4>3. fw' = [fw EXCEPT !.entries = @ \o <<e>>]
        BY <1>5, <3>2, <4>2
      <4>4. /\ fw' \in AnyArchive /\ SoundArchive(fw') /\ ~fw'.closed /\ fw'.exists
            /\ fw'.entries = fw.entries \o <<e>>
        BY <1>4, <4>2, <4>3, Extended
      <4> QED BY <4>2, <4>4
    <3> QED BY <3>1, <3>2
  <2>7. TypeOK'
    BY <1>1, <1>2, <1>5, <2>5, <2>6 DEF TypeOK
  <2>8. ArchivesSound'
    BY <1>1, <2>6 DEF ArchiveInv, ArchivesSound, SoundArchive, Sized
  <2>9. MapOK'
    <3>1. \A i \in DOMAIN cmd.meta.res : Measured(cmd.meta.res[i], i)'
      BY <1>1, <1>2, <2>5 DEF Measured
    <3>2. cmd.ix + 1 \in 1 .. Len(cmd.cfg) + 1
      BY <1>2, <1>3
    <3> QED BY <1>2, <1>3, <2>5, <3>1, <3>2 DEF MapOK
  <2>10. AddOK'
    <3> SUFFICES ASSUME ~cmd.fatal
                 PROVE  /\ Len(fw'.entries) = Headers' + (cmd.ix + 1) - 1
                        /\ \A k \in 1 .. Headers' : fw'.entries[k] = fwfile_add_meta_conf_str(cmd.meta, cmd.key)[k]
                        /\ \A i \in 1 .. (cmd.ix + 1) - 1 : Added(fw.entries[Headers + i], i)'
      BY <2>5, <2>6 DEF AddOK
    <3> DEFINE es == fw.entries
               fs == fw'.entries
    <3>1. Headers' = Headers /\ Headers \in {1, 2}
      BY <2>5 DEF Headers
    <3>2. /\ es \in Seq(AnyEntry) /\ Len(es) = Headers + cmd.ix - 1
          /\ \A k \in 1 .. Headers : es[k] = fwfile_add_meta_conf_str(cmd.meta, cmd.key)[k]
          /\ \A i \in 1 .. cmd.ix - 1 : Added(es[Headers + i], i)
      BY <1>1, <1>4 DEF ArchiveInv, AddOK, AnyArchive
    <3>3. fs = Append(es, e)
      BY <2>6
    <3> HIDE DEF es, fs
    <3>4. /\ Len(fs) = Headers + cmd.ix /\ fs[Headers + cmd.ix] = e
          /\ \A k \in 1 .. Headers + cmd.ix - 1 : fs[k] = es[k]
      BY <1>2, <2>4, <3>1, <3>2, <3>3
    <3>5. ASSUME NEW i \in 1 .. cmd.ix PROVE Added(fw.entries[Headers + i], i)'
      <4>1. CASE i = cmd.ix
        <5>1. fs[Headers + i] = e
          BY <3>4, <4>1
        <5>2. Acceptable(r.name) /\ (quiet => d = host[i])
          BY <1>5, <2>3, <4>1
        <5>3. e = ResourceEntry(resource_name_to_archive_path(r.name), r.len, e.data)
          BY <2>4 DEF e
        <5>4. cmd'.meta.res[i] = r /\ fw'.entries[Headers' + i] = e /\ host' = host /\ quiet' = quiet
          BY <1>1, <2>5, <3>1, <4>1, <5>1 DEF fs
        <5> HIDE DEF r
        <5> QED BY <2>4, <5>2, <5>3, <5>4 DEF Added
      <4>2. CASE i # cmd.ix
        <5>1. i \in 1 .. cmd.ix - 1 /\ Headers + i \in 1 .. Headers + cmd.ix - 1
          BY <1>2, <3>1, <4>2
        <5>2. Added(es[Headers + i], i) /\ fs[Headers + i] = es[Headers + i]
          BY <3>2, <3>4, <5>1
        <5> QED BY <1>1, <2>5, <3>1, <5>2 DEF Added, fs
      <4> QED BY <4>1, <4>2
    <3>6. \A k \in 1 .. Headers : k \in 1 .. Headers + cmd.ix - 1
      BY <1>2, <3>1
    <3>7. \A i \in 1 .. (cmd.ix + 1) - 1 : i \in 1 .. cmd.ix
      BY <1>2
    <3>8. Headers + cmd.ix = Headers + (cmd.ix + 1) - 1
      BY <1>2, <3>1
    <3> QED BY <3>1, <3>2, <3>4, <3>5, <3>6, <3>7, <3>8 DEF fs
  <2>11. CopyOK' /\ SignedOK'
    BY <2>5 DEF CopyOK, SignedOK
  <2>12. TempOK'
    BY <1>1, <2>5 DEF ArchiveInv, TempOK
  <2>13. SignAtomic' /\ OutputVerifies'
    BY <2>5, <2>7, RunningResults
  <2> QED BY <2>7, <2>8, <2>9, <2>10, <2>11, <2>12, <2>13 DEF ArchiveInv
<1>6. CASE End(FALSE, FALSE) /\ fw' = [fw EXCEPT !.closed = ~cmd.fatal]
  <2>1. cmd' = Idle /\ last'.op = "create" /\ ~last'.ok
        /\ last' \in [op : {"idle", "create", "sign", "repack"}, ok : BOOLEAN, key : Keys \cup {None}, unnoticed : BOOLEAN]
    BY <1>1, <1>2, <1>6, EndTyped
  <2>2. fw' \in AnyArchive /\ fw'.entries = fw.entries /\ fw'.closed = ~cmd.fatal /\ fw'.exists = fw.exists
    BY <1>2, <1>4, <1>6 DEF AnyArchive
  <2>3. TypeOK'
    BY <1>1, <1>2, <2>1, <2>2 DEF TypeOK
  <2>4. SoundArchive(fw')
    BY <1>4, <2>2 DEF SoundArchive
  <2>5. fw'.closed => Sized(fw')
    <3>1. ~cmd.fatal => Sized(fw)
      BY <1>1, CreatedSized
    <3> QED BY <2>2, <3>1, Zenon DEF Sized
  <2>6. ArchivesSound'
    BY <1>1, <2>4, <2>5 DEF ArchiveInv, ArchivesSound, SoundArchive, Sized
  <2> QED BY <1>1, <2>1, <2>3, <2>6, CreateEnds DEF ArchiveInv
<1> QED BY <1>5, <1>6, Zenon DEF add_file_resource

\* meta.conf is the first entry but for the signature.
LEMMA CreatedHead ==
  ASSUME ArchiveInv, cmd.op = "create", cmd.step = "add", ~cmd.fatal
  PROVE  /\ HeadAt(fw.entries) = Headers /\ Headers <= Len(fw.entries)
         /\ AfterSignature(fw.entries)[1].meta = cmd.meta
<1> DEFINE es == fw.entries
           h == Headers
<1>1. /\ es \in Seq(AnyEntry) /\ h \in {1, 2} /\ Len(es) = h + cmd.ix - 1 /\ cmd.ix \in Nat \ {0}
      /\ es[h] = MetaEntry(cmd.meta) /\ (h = 2 => es[1] = SignatureEntry(cmd.key, cmd.meta))
      /\ cmd.meta \in Meta /\ cmd.key \in Keys \cup {None}
  BY AddFacts, CreatingFacts
<1>2. /\ MetaEntry(cmd.meta).path = MetaConf /\ MetaEntry(cmd.meta).meta = cmd.meta
      /\ SignatureEntry(cmd.key, cmd.meta).path = Signature
  BY <1>1, HeadEntries
<1> HIDE DEF es, h
<1>3. h <= Len(es)
  BY <1>1
<1>4. HeadAt(es) = h
  <2>1. CASE h = 1
    <3>1. es[1].path # Signature
      BY <1>1, <1>2, <2>1, OtherPaths
    <3> QED BY <2>1, <3>1 DEF HeadAt, HasSignature
  <2>2. CASE h = 2
    <3>1. es[1].path = Signature /\ es # <<>>
      BY <1>1, <1>2, <1>3, <2>2
    <3> QED BY <2>2, <3>1 DEF HeadAt, HasSignature
  <2> QED BY <1>1, <2>1, <2>2
<1>5. AfterSignature(es)[1].meta = cmd.meta
  BY <1>1, <1>2, <1>3, <1>4, AfterHead
<1> QED BY <1>3, <1>4, <1>5 DEF es, h

\* An archive that was closed without an error is good.
LEMMA CreatedVerifies ==
  ASSUME ArchiveInv, cmd.op = "create", cmd.step = "add", ~cmd.fatal, cmd.ix > Len(cmd.cfg), quiet,
         NEW a, a.entries = fw.entries, a.exists, cmd.meta.size = "fits"
  PROVE  fwup_verify(a, IF cmd.key = None THEN {} ELSE {cmd.key})
<1> DEFINE es == a.entries
           res == cmd.meta.res
           h == Headers
           n == Len(res)
           body == SubSeq(es, h + 1, Len(es))
<1>1. /\ cmd.meta \in Meta /\ res \in Seq(MetaResource) /\ cmd.key \in Keys \cup {None} /\ Distinct(res)
      /\ n \in Nat /\ cmd.ix - 1 = n /\ \A i \in DOMAIN cmd.cfg : host[i] \in Seq(Units)
  <2>1. /\ cmd.meta \in Meta /\ res \in Seq(MetaResource) /\ cmd.key \in Keys \cup {None} /\ Distinct(res)
        /\ cmd.ix \in 1 .. Len(cmd.cfg) + 1 /\ Len(cmd.cfg) \in Nat
        /\ \A i \in DOMAIN cmd.cfg : host[i] \in Seq(Units)
    BY CreatingFacts, MapDistinct
  <2>2. n = Len(cmd.cfg)
    BY AddFacts
  <2> QED BY <2>1, <2>2
<1>2. /\ es \in Seq(AnyEntry) /\ h \in {1, 2} /\ (h = 2 <=> cmd.key # None) /\ Len(es) = h + n
      /\ es[h] = MetaEntry(cmd.meta) /\ (h = 2 => es[1] = SignatureEntry(cmd.key, cmd.meta))
  <2>1. /\ es \in Seq(AnyEntry) /\ h \in {1, 2} /\ (h = 2 <=> cmd.key # None) /\ Len(es) = h + cmd.ix - 1
        /\ es[h] = MetaEntry(cmd.meta) /\ (h = 2 => es[1] = SignatureEntry(cmd.key, cmd.meta))
    BY AddFacts
  <2> QED BY <1>1, <2>1
<1>3. ASSUME NEW y \in 1 .. n
      PROVE  /\ NamedAs(res[y], es[h + y]) /\ ~Skipped(es[h + y]) /\ check_resource(res[y], es[h + y])
  <2> DEFINE e == es[h + y]
             r == res[y]
  <2>1. /\ archive_filename_to_resource(e.path) = r.name
        /\ e.path # MetaConf /\ e.size = r.len /\ e.data = host[y]
    BY <1>1, AddFacts
  <2>2. h + y \in DOMAIN fw.entries
    BY <1>1, <1>2
  <2>3. ~Skipped(e)
    BY <2>2, Zenon DEF ArchiveInv, ArchivesSound, SoundArchive, SoundEntry
  <2>4. r \in MetaResource /\ Measured(r, y)
    <3>1. y \in DOMAIN res /\ \A i \in DOMAIN res : Measured(res[i], i)
      BY <1>1, CreatingFacts
    <3> QED BY <1>1, <3>1
  <2>5. r.len = Len(host[y]) /\ r.hash = host[y]
    BY <2>4 DEF Measured
  <2> HIDE DEF e, r
  <2>6. check_resource(r, e)
    BY <2>1, <2>5 DEF check_resource, check_normal_resource
  <2>7. NamedAs(r, e)
    BY <2>1 DEF NamedAs
  <2> QED BY <2>3, <2>6, <2>7 DEF e, r
<1>4. /\ MetaEntry(cmd.meta).path = MetaConf /\ MetaEntry(cmd.meta).meta = cmd.meta
      /\ SignatureEntry(cmd.key, cmd.meta).path = Signature /\ SignatureEntry(cmd.key, cmd.meta).by = cmd.key
      /\ SignatureEntry(cmd.key, cmd.meta).meta = cmd.meta
  BY <1>1, HeadEntries
<1> HIDE DEF es, h, n
<1>5. HeadAt(es) = h
  BY CreatedHead DEF es, h
<1>6. /\ body \in Seq(AnyEntry) /\ Len(body) = n /\ DOMAIN body = 1 .. n /\ \A y \in 1 .. n : body[y] = es[h + y]
  <2>1. body \in Seq(AnyEntry) /\ Len(body) = n /\ \A y \in 1 .. n : body[y] = es[h + y]
    BY <1>1, <1>2
  <2> QED BY <2>1
<1> HIDE DEF body
<1>7. DOMAIN res = 1 .. n
  BY <1>1 DEF n
<1>8. CheckEntries(body, res)
  <2>1. \A k \in DOMAIN body : ~Skipped(body[k])
    BY <1>3, <1>6
  <2>2. \A k \in DOMAIN body : \E i \in DOMAIN res : NamedAs(res[i], body[k]) /\ check_resource(res[i], body[k])
    BY <1>3, <1>6, <1>7
  <2>3. ASSUME NEW j \in DOMAIN body, NEW k \in DOMAIN body,
               archive_filename_to_resource(body[j].path) = archive_filename_to_resource(body[k].path)
        PROVE  j = k
    <3>1. NamedAs(res[j], body[j]) /\ NamedAs(res[k], body[k])
      BY <1>3, <1>6
    <3>2. res[j].name = res[k].name
      BY <2>3, <3>1, Zenon DEF NamedAs
    <3> QED BY <1>1, <1>6, <1>7, <3>2, Zenon DEF Distinct
  <2>4. \A i \in DOMAIN res : \E k \in DOMAIN body : NamedAs(res[i], body[k])
    BY <1>3, <1>6, <1>7
  <2>5. Len(body) \in Nat /\ DOMAIN body = 1 .. Len(body)
    BY <1>1, <1>6
  <2> QED BY <2>1, <2>2, <2>3, <2>4, <2>5, CheckMeans
<1>9. HasSignature(es) <=> h = 2
  BY <1>5 DEF HeadAt
<1>10. h <= Len(es)
  BY <1>1, <1>2
<1>11. es[h].meta = cmd.meta /\ es[h].path = MetaConf
  BY <1>2, <1>4
<1>12. ASSUME h = 2 PROVE es[1].by = cmd.key /\ es[1].meta = es[2].meta /\ es[1].by # "short"
  <2>1. "short" \notin Keys /\ cmd.key \in Keys
    BY <1>1, <1>2, <1>12, ArchiveAssumption
  <2> QED BY <1>2, <1>4, <1>11, <1>12, <2>1
<1>13. LET keys == IF cmd.key = None THEN {} ELSE {cmd.key}
       IN  keys # {} => h = 2 /\ es[1].by \in keys
  BY <1>2, <1>12
<1> QED BY <1>2, <1>5, <1>8, <1>9, <1>10, <1>11, <1>12, <1>13, VerifyMeans DEF es, body

LEMMA CloseCreatedInv ==
  ASSUME ArchiveInv, CloseCreated
  PROVE  ArchiveInv'
<1>1. /\ cmd.op = "create" /\ cmd.step = "add" /\ cmd.ix > Len(cmd.cfg)
      /\ UNCHANGED <<host, tmp, former, quiet, crashed, budget>>
  BY DEF CloseCreated, Running
<1>2. TypeOK /\ fw \in AnyArchive /\ SoundArchive(fw) /\ fw.exists /\ ~fw.closed
  BY <1>1, CreatingFacts DEF TypeOK, ArchiveInv, ArchivesSound, AddOK
<1>3. CASE ~cmd.fatal /\ fw' = [fw EXCEPT !.closed = TRUE] /\ End(TRUE, FALSE)
  <2>1. cmd' = Idle /\ last'.op = "create" /\ last'.ok /\ ~last'.unnoticed /\ last'.key = cmd.key
        /\ last' \in [op : {"idle", "create", "sign", "repack"}, ok : BOOLEAN, key : Keys \cup {None}, unnoticed : BOOLEAN]
    BY <1>1, <1>2, <1>3, EndTyped
  <2>2. fw' \in AnyArchive /\ fw'.entries = fw.entries /\ fw'.closed /\ fw'.exists
    BY <1>2, <1>3 DEF AnyArchive
  <2>3. TypeOK'
    BY <1>1, <1>2, <2>1, <2>2 DEF TypeOK
  <2>4. SoundArchive(fw')
    BY <1>2, <2>2 DEF SoundArchive
  <2>5. Sized(fw')
    BY <1>1, <1>3, <2>2, CreatedSized DEF Sized
  <2>6. ArchivesSound'
    BY <1>1, <2>4, <2>5 DEF ArchiveInv, ArchivesSound, SoundArchive, Sized
  <2>7. MapOK' /\ AddOK' /\ CopyOK' /\ SignedOK'
    BY <2>1, NothingRuns
  <2>8. TempOK'
    BY <1>1 DEF ArchiveInv, TempOK
  <2>9. SignAtomic'
    <3>1. cmd'.op # "sign"
      BY <2>1 DEF Idle
    <3>2. ~crashed' => ~tmp'.exists
      BY <1>1 DEF ArchiveInv, TempOK
    <3> QED BY <2>1, <3>1, <3>2, Zenon DEF SignAtomic
  <2>10. SignedVerifies'
    BY <2>1, Zenon DEF SignedVerifies
  <2>11. CreateVerifies'
    <3> SUFFICES ASSUME quiet'
                 PROVE  /\ AfterSignature(fw'.entries)[1].meta.size = "fits" =>
                             fwup_verify(fw', IF cmd.key = None THEN {} ELSE {cmd.key})
                        /\ \A i \in DOMAIN AfterSignature(fw'.entries)[1].meta.res :
                             AfterSignature(fw'.entries)[1].meta.res[i].hash = host'[i]
      BY <2>1, <2>2, Zenon DEF CreateVerifies
    <3>1. AfterSignature(fw'.entries)[1].meta = cmd.meta
      BY <1>1, <1>3, <2>2, CreatedHead
    <3>2. cmd.meta.size = "fits" => fwup_verify(fw', IF cmd.key = None THEN {} ELSE {cmd.key})
      BY <1>1, <1>3, <2>2, CreatedVerifies
    <3>3. ASSUME NEW i \in DOMAIN cmd.meta.res PROVE cmd.meta.res[i].hash = host'[i]
      BY <1>1, CreatingFacts DEF Measured
    <3> QED BY <3>1, <3>2, <3>3
  <2> QED BY <2>3, <2>6, <2>7, <2>8, <2>9, <2>10, <2>11 DEF ArchiveInv, OutputVerifies
<1>4. CASE fw' \in PartsOf(fw) /\ End(TRUE, TRUE)
  <2>1. cmd' = Idle /\ last'.op = "create" /\ last'.unnoticed
        /\ last' \in [op : {"idle", "create", "sign", "repack"}, ok : BOOLEAN, key : Keys \cup {None}, unnoticed : BOOLEAN]
    BY <1>1, <1>2, <1>4, EndTyped
  <2>2. fw' \in AnyArchive /\ SoundArchive(fw') /\ ~fw'.closed
    BY <1>2, <1>4, PartSound
  <2>3. TypeOK'
    BY <1>1, <1>2, <2>1, <2>2 DEF TypeOK
  <2>4. ArchivesSound'
    BY <1>1, <2>2 DEF ArchiveInv, ArchivesSound, SoundArchive, Sized
  <2> QED BY <1>1, <2>1, <2>3, <2>4, CreateEnds DEF ArchiveInv
<1> QED BY <1>3, <1>4, Zenon DEF CloseCreated

----------------------------------------------------------------------------
(* fwup_sign                                                               *)

\* What fwup_sign knows while it runs.
LEMMA SigningFacts ==
  ASSUME ArchiveInv, cmd.op = "sign"
  PROVE  /\ TypeOK /\ cmd \in Signing /\ cmd.key \in Keys /\ cmd.key # None /\ cmd.ix \in Nat \ {0}
         /\ cmd.found \in BOOLEAN /\ cmd.unnoticed \in BOOLEAN /\ fw = former
         /\ fw \in AnyArchive /\ tmp \in AnyArchive /\ former \in AnyArchive
         /\ former.entries \in Seq(AnyEntry) /\ tmp.entries \in Seq(AnyEntry)
         /\ SoundArchive(fw) /\ SoundArchive(tmp) /\ SoundArchive(former) /\ (fw.closed => Sized(fw))
<1>1. TypeOK /\ cmd \in Signing
  BY CommandKinds DEF ArchiveInv
<1>2. cmd.key \in Keys /\ cmd.ix \in Nat \ {0} /\ cmd.found \in BOOLEAN /\ cmd.unnoticed \in BOOLEAN
  BY <1>1 DEF Signing
<1>3. cmd.key # None
  BY <1>2, ArchiveAssumption
<1>4. fw = former
  BY DEF ArchiveInv, SignAtomic
<1>5. fw \in AnyArchive /\ tmp \in AnyArchive /\ former \in AnyArchive
  BY <1>1 DEF TypeOK
<1>6. former.entries \in Seq(AnyEntry) /\ tmp.entries \in Seq(AnyEntry)
  BY <1>5 DEF AnyArchive
<1>7. SoundArchive(fw) /\ SoundArchive(tmp) /\ SoundArchive(former) /\ (fw.closed => Sized(fw))
  BY DEF ArchiveInv, ArchivesSound
<1> QED BY <1>1, <1>2, <1>3, <1>4, <1>5, <1>6, <1>7

\* fwup_sign ends with an error.
LEMMA FailSignInv ==
  ASSUME ArchiveInv, cmd.op = "sign", FailSign, UNCHANGED <<host, former, quiet>>
  PROVE  ArchiveInv'
<1>1. tmp' = NoArchive /\ fw' = fw /\ crashed' = FALSE /\ End(FALSE, FALSE)
  BY DEF FailSign, UnlinkTemp
<1>2. TypeOK /\ fw = former
  BY SigningFacts
<1>3. cmd' = Idle /\ last'.op = "sign" /\ ~last'.ok
      /\ last' \in [op : {"idle", "create", "sign", "repack"}, ok : BOOLEAN, key : Keys \cup {None}, unnoticed : BOOLEAN]
  BY <1>1, <1>2, EndTyped
<1>4. TypeOK'
  BY <1>1, <1>2, <1>3, Empties DEF TypeOK
<1>5. ArchivesSound'
  BY <1>1, Empties DEF ArchiveInv, ArchivesSound, SoundArchive, Sized
<1>6. MapOK' /\ AddOK' /\ CopyOK' /\ SignedOK'
  BY <1>3, NothingRuns
<1>7. TempOK'
  BY <1>1, Empties DEF TempOK
<1>8. SignAtomic'
  <2>1. cmd'.op # "sign" /\ ~tmp'.exists /\ fw' = former'
    BY <1>1, <1>2, <1>3, Empties DEF Idle
  <2> QED BY <1>3, <2>1, Zenon DEF SignAtomic
<1>9. SignedVerifies' /\ CreateVerifies'
  BY <1>3, Zenon DEF SignedVerifies, CreateVerifies
<1> QED BY <1>4, <1>5, <1>6, <1>7, <1>8, <1>9 DEF ArchiveInv, OutputVerifies

\* While it runs, nothing is to be said of the results and of fwup_create.
LEMMA StillSigning ==
  ASSUME ArchiveInv, cmd.op = "sign", cmd' \in Signing, tmp' \in AnyArchive, SoundArchive(tmp'),
         UNCHANGED <<host, fw, former, quiet, last, crashed>>
  PROVE  TypeOK' /\ ArchivesSound' /\ MapOK' /\ AddOK' /\ TempOK' /\ SignAtomic' /\ OutputVerifies'
<1>1. TypeOK /\ fw = former
  BY SigningFacts
<1>2. TypeOK'
  BY <1>1 DEF TypeOK
<1>3. ArchivesSound'
  BY DEF ArchiveInv, ArchivesSound, SoundArchive, Sized
<1>4. cmd'.op = "sign"
  BY DEF Signing
<1>5. MapOK' /\ AddOK' /\ TempOK'
  BY <1>4 DEF MapOK, AddOK, TempOK
<1>6. SignAtomic' /\ OutputVerifies'
  BY <1>1, <1>2, <1>4, RunningResults
<1> QED BY <1>2, <1>3, <1>5, <1>6

LEMMA OpenTempInv ==
  ASSUME ArchiveInv, OpenTemp
  PROVE  ArchiveInv'
<1>1. cmd.op = "sign" /\ cmd.step = "open" /\ UNCHANGED <<host, former, quiet>>
  BY DEF OpenTemp, Running
<1>2. CASE fw.exists /\ ToTemp(Opened) /\ cmd' = [cmd EXCEPT !.step = "copy"] /\ UNCHANGED <<last, crashed>>
  <2>1. cmd \in Signing /\ fw = former /\ former.entries \in Seq(AnyEntry) /\ cmd.ix = 1 /\ ~cmd.found
    BY <1>1, SigningFacts DEF ArchiveInv, CopyOK
  <2>2. /\ cmd' \in Signing /\ cmd'.op = "sign" /\ cmd'.step = "copy" /\ cmd'.ix = 1 /\ ~cmd'.found
    <3>1. cmd' = [cmd EXCEPT !.step = "copy"]
      BY <1>2
    <3> QED BY <2>1, <3>1 DEF Signing
  <2>3. tmp' = Opened /\ fw' = fw
    BY <1>2 DEF ToTemp
  <2>4. TypeOK' /\ ArchivesSound' /\ MapOK' /\ AddOK' /\ TempOK' /\ SignAtomic' /\ OutputVerifies'
    BY <1>1, <1>2, <2>2, <2>3, Empties, StillSigning
  <2>5. CopyOK'
    <3>1. Resources(Opened) = <<>> /\ Paths(former.entries)[1 - 1] = <<>>
      <4>1. Opened.entries = <<>> /\ Len(Opened.entries) = 0 /\ Len(former.entries) \in Nat /\ 1 - 1 = 0
        BY <2>1, Empties
      <4> QED BY <4>1, PathsDefined DEF Resources
    <3>2. Resources(tmp') = Paths(former'.entries)[cmd'.ix - 1]
      BY <1>1, <2>2, <2>3, <3>1
    <3>3. tmp'.entries = <<>> /\ ~tmp'.closed /\ tmp'.exists /\ former'.exists /\ cmd'.ix <= Len(former'.entries) + 1
      BY <1>1, <1>2, <2>1, <2>2, <2>3, Empties
    <3> QED BY <2>2, <3>2, <3>3 DEF CopyOK
  <2>6. SignedOK'
    <3>1. HeadAt(former'.entries) \in {1, 2}
      BY DEF HeadAt
    <3>2. cmd'.ix - 1 < HeadAt(former'.entries) /\ tmp'.entries = <<>> /\ ~cmd'.found
      BY <2>2, <2>3, <3>1, Empties
    <3> QED BY <3>2 DEF SignedOK, Signed
  <2> QED BY <2>4, <2>5, <2>6 DEF ArchiveInv
<1>3. CASE FailSign
  BY <1>1, <1>3, FailSignInv
<1> QED BY <1>2, <1>3, Zenon DEF OpenTemp

LEMMA CopiedEntry ==
  ASSUME NEW e \in AnyEntry
  PROVE  LET c == Copied(e)
         IN  /\ c \in AnyEntry /\ c.path = e.path /\ c.size = SizeOf(e) /\ c.data = UpTo(SizeOf(e), e.data)
             /\ SizeOf(e) <= Len(e.data) => c.size = Len(c.data)
             /\ SoundEntry(e) /\ e.path # MetaConf => SoundEntry(c)
<1> DEFINE n == SizeOf(e)
           d == UpTo(n, e.data)
           c == Copied(e)
<1>1. e.path \in Path /\ e.data \in Seq(Units) /\ e.size \in Nat \cup {Unset} /\ Len(e.data) \in Nat
  BY DEF AnyEntry
<1>2. n \in Nat
  <2>1. n = IF former.closed THEN Len(e.data) ELSE IF e.size = Unset THEN 0 ELSE e.size
    BY DEF SizeOf
  <2> QED BY <1>1, <2>1
<1> HIDE DEF n
<1>3. d \in Seq(Units) /\ Len(d) = IF n < Len(e.data) THEN n ELSE Len(e.data)
  BY <1>1, <1>2, UpToTyped
<1> HIDE DEF d
<1>4. c = ResourceEntry(e.path, n, d)
  BY DEF Copied, n, d
<1> HIDE DEF c
<1>5. /\ c = [path |-> e.path, by |-> None, meta |-> NoMeta, size |-> n, data |-> d] /\ c \in AnyEntry
      /\ e.path # MetaConf /\ archive_filename_to_resource(e.path) # NameOf(FALSE, <<Empty>>) => SoundEntry(c)
  BY <1>1, <1>2, <1>3, <1>4, ResourceEntries
<1>6. SoundEntry(e) => archive_filename_to_resource(e.path) # NameOf(FALSE, <<Empty>>)
  BY Zenon DEF SoundEntry, Skipped
<1>7. n <= Len(e.data) => n = Len(d)
  BY <1>1, <1>2, <1>3
<1>8. /\ c \in AnyEntry /\ c.path = e.path /\ c.size = n /\ c.data = d
      /\ n <= Len(e.data) => c.size = Len(c.data)
      /\ SoundEntry(e) /\ e.path # MetaConf => SoundEntry(c)
  BY <1>5, <1>6, <1>7
<1> QED BY <1>8, Zenon DEF c, n, d

\* fwup_sign goes on to the next entry: it writes what it read, or nothing.
LEMMA CopyStep ==
  ASSUME ArchiveInv, cmd.op = "sign", cmd.step = "copy", cmd.ix <= Len(former.entries),
         cmd' = [cmd EXCEPT !.ix = @ + 1, !.found = @ \/ former.entries[cmd.ix].path = MetaConf],
         UNCHANGED <<host, fw, former, quiet, last, crashed>>,
         NEW fs \in Seq(AnyEntry), \A i \in DOMAIN fs : SoundEntry(fs[i]),
         \A i \in DOMAIN fs : fs[i].size \in {Unset, Len(fs[i].data)},
         tmp' = [tmp EXCEPT !.entries = @ \o fs]
  PROVE  /\ TypeOK' /\ ArchivesSound' /\ MapOK' /\ AddOK' /\ TempOK' /\ SignAtomic' /\ OutputVerifies'
         /\ tmp'.entries = tmp.entries \o fs /\ ~tmp'.closed /\ tmp'.exists
         /\ \A i \in DOMAIN tmp'.entries : tmp'.entries[i].size \in {Unset, Len(tmp'.entries[i].data)}
         /\ cmd'.op = "sign" /\ cmd'.step = "copy" /\ cmd'.ix = cmd.ix + 1 /\ cmd'.unnoticed = cmd.unnoticed
         /\ cmd'.key = cmd.key /\ cmd'.found = (cmd.found \/ former.entries[cmd.ix].path = MetaConf)
<1>1. /\ cmd \in Signing /\ cmd.ix \in Nat \ {0} /\ cmd.found \in BOOLEAN
      /\ tmp \in AnyArchive /\ SoundArchive(tmp) /\ tmp.entries \in Seq(AnyEntry)
  BY SigningFacts
<1>2. ~tmp.closed /\ tmp.exists /\ \A i \in DOMAIN tmp.entries : tmp.entries[i].size \in {Unset, Len(tmp.entries[i].data)}
  BY DEF ArchiveInv, CopyOK
<1> DEFINE found == cmd.found \/ former.entries[cmd.ix].path = MetaConf
<1>3. /\ cmd' \in Signing /\ cmd'.op = "sign" /\ cmd'.step = "copy" /\ cmd'.ix = cmd.ix + 1
      /\ cmd'.unnoticed = cmd.unnoticed /\ cmd'.key = cmd.key /\ cmd'.found = found
  <2>1. cmd' = [cmd EXCEPT !.ix = cmd.ix + 1, !.found = found] /\ found \in BOOLEAN /\ cmd.ix + 1 \in Nat \ {0}
    BY <1>1
  <2> HIDE DEF found
  <2>2. cmd' \in Signing
    BY <1>1, <2>1 DEF Signing
  <2>3. /\ cmd'.op = "sign" /\ cmd'.step = "copy" /\ cmd'.ix = cmd.ix + 1
        /\ cmd'.unnoticed = cmd.unnoticed /\ cmd'.key = cmd.key /\ cmd'.found = found
    BY <1>1, <2>1 DEF Signing
  <2> QED BY <2>2, <2>3
<1>4. /\ tmp' \in AnyArchive /\ SoundArchive(tmp') /\ ~tmp'.closed /\ tmp'.exists
      /\ tmp'.entries = tmp.entries \o fs
  BY <1>1, <1>2, Extended
<1>5. TypeOK' /\ ArchivesSound' /\ MapOK' /\ AddOK' /\ TempOK' /\ SignAtomic' /\ OutputVerifies'
  BY <1>3, <1>4, StillSigning
<1>6. \A i \in DOMAIN tmp'.entries : tmp'.entries[i].size \in {Unset, Len(tmp'.entries[i].data)}
  <2> DEFINE es == tmp.entries
             gs == es \o fs
  <2>1. /\ Len(gs) = Len(es) + Len(fs) /\ Len(es) \in Nat /\ Len(fs) \in Nat
        /\ \A i \in 1 .. Len(gs) : gs[i] = IF i <= Len(es) THEN es[i] ELSE fs[i - Len(es)]
        /\ DOMAIN gs = 1 .. Len(gs)
    BY <1>1
  <2>2. \A i \in 1 .. Len(gs) : IF i <= Len(es) THEN i \in DOMAIN es ELSE i - Len(es) \in DOMAIN fs
    BY <1>1, <2>1
  <2>3. \A i \in DOMAIN es : es[i].size \in {Unset, Len(es[i].data)}
    BY <1>2
  <2> HIDE DEF gs, es
  <2>4. \A i \in DOMAIN gs : gs[i].size \in {Unset, Len(gs[i].data)}
    BY <2>1, <2>2, <2>3
  <2> QED BY <1>4, <2>4 DEF gs, es
<1> QED BY <1>3, <1>4, <1>5, <1>6

\* How the copy goes on.
LEMMA SignedNext ==
  ASSUME former' = former, NEW m, cmd'.ix - 1 = m, cmd'.key = cmd.key, cmd'.unnoticed = cmd.unnoticed,
         ~cmd.unnoticed /\ Plain(former) =>
           LET h == HeadAt(former.entries)
               meta == former.entries[h].meta
           IN  IF m < h THEN tmp'.entries = <<>> /\ ~cmd'.found
               ELSE /\ cmd'.found /\ Len(tmp'.entries) = m - h + 2
                    /\ tmp'.entries[1] = SignatureEntry(cmd.key, meta) /\ tmp'.entries[2] = MetaEntry(meta)
                    /\ \A i \in h + 1 .. m : tmp'.entries[i - h + 2] = Copied(former.entries[i])
  PROVE  SignedOK'
<1>1. \A i : Copied(former.entries[i])' = Copied(former.entries[i])
  BY DEF Copied, SizeOf
<1>2. Plain(former)' <=> Plain(former)
  BY DEF Plain, HeadAt, HasSignature
<1>3. HeadAt(former.entries)' = HeadAt(former.entries)
  BY DEF HeadAt, HasSignature
<1> QED BY <1>1, <1>2, <1>3 DEF SignedOK, Signed

\* What fwup_sign has copied, and what comes next.
LEMMA CopyFacts ==
  ASSUME ArchiveInv, cmd.op = "sign", cmd.step = "copy", cmd.ix <= Len(former.entries)
  PROVE  LET e == former.entries[cmd.ix]
             h == HeadAt(former.entries)
         IN  /\ e \in AnyEntry /\ SoundEntry(e) /\ cmd.ix \in 1 .. Len(former.entries) /\ h \in {1, 2}
             /\ ~tmp.closed /\ tmp.exists /\ former.exists
             /\ ~cmd.unnoticed =>
                  Paths(former.entries)[cmd.ix] =
                    IF e.path \in {Signature, MetaConf} THEN Resources(tmp) ELSE Append(Resources(tmp), e.path)
             /\ ~cmd.unnoticed /\ Plain(former) =>
                  /\ IF cmd.ix - 1 < h THEN tmp.entries = <<>> /\ ~cmd.found
                     ELSE /\ cmd.found /\ Len(tmp.entries) = cmd.ix - 1 - h + 2
                          /\ tmp.entries[1] = SignatureEntry(cmd.key, former.entries[h].meta)
                          /\ tmp.entries[2] = MetaEntry(former.entries[h].meta)
                          /\ \A i \in h + 1 .. cmd.ix - 1 : tmp.entries[i - h + 2] = Copied(former.entries[i])
                  /\ cmd.ix < h => e.path = Signature
                  /\ cmd.ix = h => e.path = MetaConf
                  /\ cmd.ix > h => e.path # Signature
<1> DEFINE es == former.entries
           h == HeadAt(es)
<1>1. es \in Seq(AnyEntry) /\ Len(es) \in Nat /\ cmd.ix \in 1 .. Len(es) /\ SoundArchive(former)
  BY SigningFacts
<1>2. es[cmd.ix] \in AnyEntry /\ SoundEntry(es[cmd.ix])
  BY <1>1 DEF SoundArchive
<1>3. ~tmp.closed /\ tmp.exists /\ former.exists /\ (~cmd.unnoticed => Resources(tmp) = Paths(es)[cmd.ix - 1])
  BY DEF ArchiveInv, CopyOK
<1>4. Paths(es)[cmd.ix] = IF es[cmd.ix].path \in {Signature, MetaConf} THEN Paths(es)[cmd.ix - 1]
                          ELSE Append(Paths(es)[cmd.ix - 1], es[cmd.ix].path)
  BY <1>1, PathsDefined
<1>5. h \in {1, 2} /\ (h = 2 => es[1].path = Signature)
  BY DEF HeadAt, HasSignature
<1>6. ASSUME ~cmd.unnoticed, Plain(former) PROVE Signed(cmd.ix - 1)
  BY <1>6 DEF ArchiveInv, SignedOK
<1>7. ASSUME Plain(former)
      PROVE  /\ cmd.ix < h => es[cmd.ix].path = Signature
             /\ cmd.ix = h => es[cmd.ix].path = MetaConf
             /\ cmd.ix > h => es[cmd.ix].path # Signature
  <2>1. es[h].path = MetaConf /\ \A i \in h + 1 .. Len(es) : es[i].path # Signature
    BY <1>7 DEF Plain
  <2> HIDE DEF h, es
  <2>2. cmd.ix < h => cmd.ix = 1 /\ h = 2
    BY <1>1, <1>5
  <2>3. cmd.ix > h => cmd.ix \in h + 1 .. Len(es)
    BY <1>1, <1>5
  <2> QED BY <1>5, <2>1, <2>2, <2>3
<1> QED BY <1>1, <1>2, <1>3, <1>4, <1>5, <1>6, <1>7 DEF Signed

LEMMA CopyEntryInv ==
  ASSUME ArchiveInv, CopyEntry
  PROVE  ArchiveInv'
<1> DEFINE es == former.entries
           e == es[cmd.ix]
           h == HeadAt(es)
<1>1. /\ cmd.op = "sign" /\ cmd.step = "copy" /\ cmd.ix <= Len(es)
      /\ UNCHANGED <<host, former, quiet, budget>>
  BY DEF CopyEntry, Running, Entries
<1>2. /\ TypeOK /\ cmd \in Signing /\ cmd.key \in Keys /\ cmd.key # None /\ cmd.ix \in Nat \ {0}
      /\ cmd.found \in BOOLEAN /\ cmd.unnoticed \in BOOLEAN /\ fw = former
      /\ tmp \in AnyArchive /\ es \in Seq(AnyEntry) /\ tmp.entries \in Seq(AnyEntry) /\ SoundArchive(tmp)
  BY <1>1, SigningFacts
<1>3. /\ e \in AnyEntry /\ SoundEntry(e) /\ cmd.ix \in 1 .. Len(es) /\ h \in {1, 2}
      /\ ~tmp.closed /\ tmp.exists /\ former.exists
      /\ ~cmd.unnoticed =>
           Paths(es)[cmd.ix] =
             IF e.path \in {Signature, MetaConf} THEN Resources(tmp) ELSE Append(Resources(tmp), e.path)
      /\ ~cmd.unnoticed /\ Plain(former) =>
           /\ IF cmd.ix - 1 < h THEN tmp.entries = <<>> /\ ~cmd.found
              ELSE /\ cmd.found /\ Len(tmp.entries) = cmd.ix - 1 - h + 2
                   /\ tmp.entries[1] = SignatureEntry(cmd.key, es[h].meta)
                   /\ tmp.entries[2] = MetaEntry(es[h].meta)
                   /\ \A i \in h + 1 .. cmd.ix - 1 : tmp.entries[i - h + 2] = Copied(es[i])
           /\ cmd.ix < h => e.path = Signature
           /\ cmd.ix = h => e.path = MetaConf
           /\ cmd.ix > h => e.path # Signature
  BY <1>1, CopyFacts
<1> DEFINE On == /\ cmd' = [cmd EXCEPT !.ix = @ + 1, !.found = @ \/ e.path = MetaConf]
                 /\ UNCHANGED <<last, crashed>>
           Next1 == ~cmd.unnoticed /\ Plain(former) =>
             IF cmd.ix < h THEN tmp'.entries = <<>> /\ ~cmd'.found
             ELSE /\ cmd'.found /\ Len(tmp'.entries) = cmd.ix - h + 2
                  /\ tmp'.entries[1] = SignatureEntry(cmd.key, es[h].meta) /\ tmp'.entries[2] = MetaEntry(es[h].meta)
                  /\ \A i \in h + 1 .. cmd.ix : tmp'.entries[i - h + 2] = Copied(es[i])
<1>4. ASSUME On, UNCHANGED fw,
             NEW fs \in Seq(AnyEntry), \A i \in DOMAIN fs : SoundEntry(fs[i]),
             \A i \in DOMAIN fs : fs[i].size \in {Unset, Len(fs[i].data)},
             tmp' = [tmp EXCEPT !.entries = @ \o fs],
             ~cmd.unnoticed => Resources(tmp') = Paths(es)[cmd.ix],
             tmp'.entries = tmp.entries \o fs /\ cmd'.found = (cmd.found \/ e.path = MetaConf) => Next1
      PROVE  ArchiveInv'
  <2>1. /\ TypeOK' /\ ArchivesSound' /\ MapOK' /\ AddOK' /\ TempOK' /\ SignAtomic' /\ OutputVerifies'
        /\ tmp'.entries = tmp.entries \o fs /\ ~tmp'.closed /\ tmp'.exists
        /\ \A i \in DOMAIN tmp'.entries : tmp'.entries[i].size \in {Unset, Len(tmp'.entries[i].data)}
        /\ cmd'.op = "sign" /\ cmd'.step = "copy" /\ cmd'.ix = cmd.ix + 1 /\ cmd'.unnoticed = cmd.unnoticed
        /\ cmd'.key = cmd.key /\ cmd'.found = (cmd.found \/ e.path = MetaConf)
    <3>1. UNCHANGED <<host, fw, former, quiet, last, crashed>>
      BY <1>1, <1>4
    <3> QED BY <1>1, <1>4, <3>1, CopyStep
  <2>2. Next1
    BY <1>4, <2>1
  <2>3. cmd'.ix - 1 = cmd.ix /\ cmd'.ix <= Len(es) + 1
    BY <1>2, <1>3, <2>1
  <2>4. CopyOK'
    BY <1>1, <1>3, <1>4, <2>1, <2>3 DEF CopyOK
  <2>5. SignedOK'
    BY <1>1, <2>1, <2>2, <2>3, SignedNext
  <2> QED BY <2>1, <2>4, <2>5 DEF ArchiveInv
<1>5. CASE On /\ IsOldSignature(e) /\ UNCHANGED <<fw, tmp>>
  <2>1. e.path = Signature /\ e.path # MetaConf
    BY <1>5, OtherPaths DEF IsOldSignature
  <2>2. tmp.entries \o <<>> = tmp.entries /\ tmp' = [tmp EXCEPT !.entries = @ \o <<>>]
    <3>1. tmp.entries \o <<>> = tmp.entries
      BY <1>2, ConcatEmptySeq
    <3>2. tmp = [tmp EXCEPT !.entries = tmp.entries]
      BY <1>2 DEF AnyArchive
    <3> QED BY <1>5, <3>1, <3>2
  <2>3. ~cmd.unnoticed => Resources(tmp') = Paths(es)[cmd.ix]
    BY <1>3, <1>5, <2>1
  <2>4. ASSUME cmd'.found = (cmd.found \/ e.path = MetaConf) PROVE Next1
    <3> SUFFICES ASSUME ~cmd.unnoticed, Plain(former)
                 PROVE  cmd.ix < h /\ tmp'.entries = <<>> /\ ~cmd'.found
      OBVIOUS
    <3>1. cmd.ix < h
      BY <1>2, <1>3, <2>1
    <3>2. cmd.ix - 1 < h
      BY <1>2, <1>3, <3>1
    <3> QED BY <1>2, <1>3, <1>5, <2>1, <2>4, <3>1, <3>2
  <2>5. <<>> \in Seq(AnyEntry) /\ \A i : ~(i \in DOMAIN <<>>)
    OBVIOUS
  <2> HIDE DEF Next1, On, e
  <2>6. /\ On /\ UNCHANGED fw
        /\ \A i \in DOMAIN <<>> : SoundEntry(<<>>[i])
        /\ \A i \in DOMAIN <<>> : <<>>[i].size \in {Unset, Len(<<>>[i].data)}
    BY <1>5, <2>5
  <2> QED BY <1>4, <2>2, <2>3, <2>4, <2>5, <2>6
<1>6. CASE /\ On /\ ~IsOldSignature(e) /\ e.path = MetaConf /\ ~cmd.found
           /\ Add(fwfile_add_meta_conf_str(e.meta, cmd.key))
  <2> DEFINE s == SignatureEntry(cmd.key, e.meta)
             t == MetaEntry(e.meta)
             fs == fwfile_add_meta_conf_str(e.meta, cmd.key)
  <2>1. e.meta \in Meta /\ Distinct(e.meta.res)
    <3>1. e \in AnyEntry /\ SoundEntry(e) /\ e.path = MetaConf
      BY <1>3, <1>6
    <3> HIDE DEF e
    <3> QED BY <3>1 DEF AnyEntry, SoundEntry
  <2>2. /\ fs \in Seq(AnyEntry) /\ (\A i \in DOMAIN fs : SoundEntry(fs[i]))
        /\ Len(fs) = 2 /\ fs[1] = s /\ fs[2] = t /\ cmd.key \in Keys \cup {None}
    BY <1>2, <2>1, HeadSequence
  <2>3. /\ s = [path |-> Signature, by |-> cmd.key, meta |-> e.meta, size |-> Unset, data |-> <<>>]
        /\ t = [path |-> MetaConf, by |-> None, meta |-> e.meta, size |-> Unset, data |-> <<>>]
        /\ s \in AnyEntry /\ t \in AnyEntry
    BY <2>1, <2>2, HeadEntries
  <2>4. s.path = Signature /\ t.path = MetaConf /\ s.size = Unset /\ t.size = Unset
    BY <2>3
  <2>5. tmp' = [tmp EXCEPT !.entries = @ \o fs] /\ fw' = fw
    BY <1>6 DEF Add, ToTemp
  <2> HIDE DEF s, t, fs, e
  <2>6. \A i \in DOMAIN fs : fs[i].size \in {Unset, Len(fs[i].data)}
    <3>1. DOMAIN fs = {1, 2}
      BY <2>2
    <3> QED BY <2>2, <2>4, <3>1
  <2>7. tmp.entries \o fs = Append(Append(tmp.entries, s), t)
    <3> DEFINE u == tmp.entries
    <3>1. u \in Seq(AnyEntry) /\ Len(u) \in Nat
      BY <1>2
    <3> HIDE DEF u
    <3>2. /\ u \o fs \in Seq(AnyEntry) /\ Len(u \o fs) = Len(u) + 2
          /\ \A i \in 1 .. Len(u) + 2 : (u \o fs)[i] = IF i <= Len(u) THEN u[i] ELSE fs[i - Len(u)]
      <4>1. fs \in Seq(AnyEntry) /\ Len(fs) = 2
        BY <2>2
      <4>2. /\ u \o fs \in Seq(AnyEntry) /\ Len(u \o fs) = Len(u) + Len(fs)
            /\ \A i \in 1 .. Len(u) + Len(fs) : (u \o fs)[i] = IF i <= Len(u) THEN u[i] ELSE fs[i - Len(u)]
        BY <3>1, <4>1, ConcatProperties
      <4> QED BY <4>1, <4>2
    <3>3. /\ Append(Append(u, s), t) \in Seq(AnyEntry) /\ Len(Append(Append(u, s), t)) = Len(u) + 2
          /\ \A i \in 1 .. Len(u) + 2 :
               Append(Append(u, s), t)[i] = IF i <= Len(u) THEN u[i] ELSE IF i = Len(u) + 1 THEN s ELSE t
      BY <2>3, <3>1
    <3>4. \A i \in 1 .. Len(u) + 2 : (u \o fs)[i] = Append(Append(u, s), t)[i]
      <4>1. \A i \in 1 .. Len(u) + 2 : i <= Len(u) \/ i = Len(u) + 1 \/ i = Len(u) + 2
        BY <3>1
      <4>2. Len(u) + 1 - Len(u) = 1 /\ Len(u) + 2 - Len(u) = 2 /\ ~(Len(u) + 1 <= Len(u)) /\ ~(Len(u) + 2 <= Len(u))
            /\ Len(u) + 1 # Len(u) + 2
        BY <3>1
      <4> QED BY <2>2, <3>2, <3>3, <4>1, <4>2
    <3>5. u \o fs = Append(Append(u, s), t)
      BY <3>2, <3>3, <3>4, SeqEqual
    <3> QED BY <3>5 DEF u
  <2>8. ~cmd.unnoticed => Resources(tmp') = Paths(es)[cmd.ix]
    <3> DEFINE u == tmp.entries
               v == Append(u, s)
               w == Append(v, t)
    <3>1. u \in Seq(AnyEntry) /\ v \in Seq(AnyEntry)
      BY <1>2, <2>3
    <3>2. Paths(v)[Len(v)] = Paths(u)[Len(u)]
      BY <2>3, <2>4, <3>1, PathsAppend
    <3>3. Paths(w)[Len(w)] = Paths(v)[Len(v)]
      <4> HIDE DEF v
      <4> QED BY <2>3, <2>4, <3>1, PathsAppend
    <3>4. tmp'.entries = w
      BY <1>2, <2>5, <2>7 DEF AnyArchive
    <3> HIDE DEF u, v, w
    <3>5. Resources(tmp') = Resources(tmp)
      BY <3>2, <3>3, <3>4 DEF Resources, u
    <3> QED BY <1>3, <1>6, <3>5
  <2>9. ASSUME tmp'.entries = tmp.entries \o fs, cmd'.found = (cmd.found \/ e.path = MetaConf) PROVE Next1
    <3> SUFFICES ASSUME ~cmd.unnoticed, Plain(former)
                 PROVE  cmd.ix = h /\ tmp'.entries = fs /\ cmd'.found
      <4>1. cmd.ix = h => cmd.ix - h + 2 = 2 /\ ~(cmd.ix < h) /\ \A i : ~(i \in h + 1 .. cmd.ix)
        BY <1>2, <1>3
      <4> QED BY <2>2, <4>1 DEF Next1, e, s, t
    <3>1. cmd.ix = h
      <4>1. cmd.ix - 1 < h
        BY <1>3, <1>6
      <4>2. ~(cmd.ix < h)
        BY <1>3, <1>6, OtherPaths
      <4> QED BY <1>2, <1>3, <4>1, <4>2
    <3>2. cmd.ix - 1 < h
      BY <1>2, <1>3, <3>1
    <3>3. tmp.entries = <<>>
      BY <1>3, <3>2
    <3>4. <<>> \o fs = fs
      BY <2>2, ConcatEmptySeq
    <3> QED BY <1>6, <2>9, <3>1, <3>3, <3>4
  <2>10. On
    BY <1>6
  <2> HIDE DEF Next1, On
  <2> QED BY <1>4, <2>2, <2>5, <2>6, <2>8, <2>9, <2>10
<1>7. CASE /\ On /\ ~IsOldSignature(e) /\ e.path # MetaConf /\ cmd.found /\ SizeOf(e) <= Len(e.data)
           /\ Add(<<Copied(e)>>)
  <2> DEFINE c == Copied(e)
             fs == <<c>>
  <2>1. e.path \notin {Signature, MetaConf}
    BY <1>7 DEF IsOldSignature
  <2>2. c \in AnyEntry /\ c.path = e.path /\ c.size = Len(c.data) /\ SoundEntry(c)
    BY <1>3, <1>7, CopiedEntry
  <2>3. tmp' = [tmp EXCEPT !.entries = @ \o fs] /\ fw' = fw
    BY <1>7 DEF Add, ToTemp
  <2>4. On
    BY <1>7
  <2> HIDE DEF c, On, e
  <2>5. /\ fs \in Seq(AnyEntry) /\ (\A i \in DOMAIN fs : SoundEntry(fs[i]))
        /\ \A i \in DOMAIN fs : fs[i].size \in {Unset, Len(fs[i].data)}
    BY <2>2
  <2>6. tmp.entries \o fs = Append(tmp.entries, c)
    BY <1>2, <2>2, AppendIsConcat
  <2>7. ~cmd.unnoticed => Resources(tmp') = Paths(es)[cmd.ix]
    <3> DEFINE u == tmp.entries
               v == Append(u, c)
    <3>1. Paths(v)[Len(v)] = Append(Paths(u)[Len(u)], c.path)
      BY <1>2, <2>1, <2>2, PathsAppend
    <3>2. tmp'.entries = v
      BY <1>2, <2>3, <2>6 DEF AnyArchive
    <3> HIDE DEF v
    <3>3. Resources(tmp') = Append(Resources(tmp), e.path)
      BY <2>2, <3>1, <3>2 DEF Resources
    <3> QED BY <1>3, <2>1, <3>3 DEF e
  <2>8. ASSUME tmp'.entries = tmp.entries \o fs, cmd'.found = (cmd.found \/ e.path = MetaConf) PROVE Next1
    <3> SUFFICES ASSUME ~cmd.unnoticed, Plain(former) PROVE Next1
      BY DEF Next1
    <3> DEFINE u == tmp.entries
               v == tmp'.entries
               n == cmd.ix - 1
    <3>1. ~(n < h) /\ Len(u) = n - h + 2 /\ u[1] = SignatureEntry(cmd.key, es[h].meta)
          /\ u[2] = MetaEntry(es[h].meta) /\ \A i \in h + 1 .. n : u[i - h + 2] = Copied(es[i])
      BY <1>3, <1>7
    <3>2. v = Append(u, c) /\ u \in Seq(AnyEntry) /\ cmd'.found
      BY <1>2, <1>7, <2>6, <2>8
    <3>4. n \in Nat /\ h \in {1, 2} /\ n >= h /\ cmd.ix = n + 1
      <4>1. cmd.ix \in Nat \ {0} /\ h \in {1, 2} /\ ~(n < h)
        BY <1>2, <1>3, <3>1
      <4> HIDE DEF h
      <4> QED BY <4>1
    <3> HIDE DEF u, v, n, h
    <3>3. Len(v) = n - h + 3 /\ v[n - h + 3] = c /\ \A i \in 1 .. n - h + 2 : v[i] = u[i]
      <4>1. /\ Len(Append(u, c)) = Len(u) + 1 /\ Append(u, c)[Len(u) + 1] = c
            /\ \A i \in 1 .. Len(u) : Append(u, c)[i] = u[i]
        BY <2>2, <3>2
      <4>2. Len(u) = n - h + 2 /\ Len(u) + 1 = n - h + 3
        BY <3>1, <3>4
      <4> QED BY <3>2, <4>1, <4>2
    <3>5. v[1] = u[1] /\ v[2] = u[2]
      BY <3>3, <3>4
    <3>6. ASSUME NEW i \in h + 1 .. n + 1 PROVE v[i - h + 2] = Copied(es[i])
      <4>1. CASE i = n + 1
        <5>1. i - h + 2 = n - h + 3
          BY <3>4, <4>1
        <5>2. es[i] = e
          BY <3>4, <4>1 DEF e
        <5> QED BY <3>3, <5>1, <5>2 DEF c
      <4>2. CASE i # n + 1
        <5>1. i \in h + 1 .. n /\ i - h + 2 \in 1 .. n - h + 2
          BY <3>4, <4>2
        <5> QED BY <3>1, <3>3, <5>1
      <4> QED BY <4>1, <4>2
    <3>7. n + 1 - h + 2 = n - h + 3 /\ ~(n + 1 < h)
      BY <3>4
    <3>8. /\ cmd'.found /\ Len(v) = cmd.ix - h + 2 /\ ~(cmd.ix < h)
          /\ v[1] = SignatureEntry(cmd.key, es[h].meta) /\ v[2] = MetaEntry(es[h].meta)
      BY <3>1, <3>2, <3>3, <3>4, <3>5, <3>7
    <3>9. \A i \in h + 1 .. cmd.ix : v[i - h + 2] = Copied(es[i])
      BY <3>4, <3>6
    <3> QED BY <3>8, <3>9, Zenon DEF Next1, v, h
  <2> HIDE DEF Next1, fs
  <2> QED BY <1>4, <2>3, <2>4, <2>5, <2>7, <2>8
<1>8. CASE FailSign
  BY <1>1, <1>8, FailSignInv
<1>9. CASE /\ cmd' = [cmd EXCEPT !.ix = Len(Entries) + 1, !.unnoticed = TRUE]
           /\ UNCHANGED <<fw, tmp, last, crashed>>
  <2>1. cmd' \in Signing /\ cmd'.op = "sign" /\ cmd'.step = "copy" /\ cmd'.ix = Len(es) + 1 /\ cmd'.unnoticed
    <3>1. cmd' = [cmd EXCEPT !.ix = Len(es) + 1, !.unnoticed = TRUE] /\ Len(es) + 1 \in Nat \ {0}
      BY <1>2, <1>9 DEF Entries
    <3> HIDE DEF es
    <3> QED BY <1>1, <1>2, <3>1 DEF Signing
  <2>2. TypeOK' /\ ArchivesSound' /\ MapOK' /\ AddOK' /\ TempOK' /\ SignAtomic' /\ OutputVerifies'
    BY <1>1, <1>2, <1>9, <2>1, StillSigning
  <2>3. \A i \in DOMAIN tmp.entries : tmp.entries[i].size \in {Unset, Len(tmp.entries[i].data)}
    BY <1>1 DEF ArchiveInv, CopyOK
  <2>4. CopyOK'
    BY <1>1, <1>2, <1>3, <1>9, <2>1, <2>3 DEF CopyOK
  <2>5. SignedOK'
    BY <2>1 DEF SignedOK
  <2> QED BY <2>2, <2>4, <2>5 DEF ArchiveInv
<1>10. \/ On /\ IsOldSignature(e) /\ UNCHANGED <<fw, tmp>>
       \/ /\ On /\ ~IsOldSignature(e) /\ e.path = MetaConf /\ ~cmd.found
          /\ Add(fwfile_add_meta_conf_str(e.meta, cmd.key))
       \/ /\ On /\ ~IsOldSignature(e) /\ e.path # MetaConf /\ cmd.found /\ SizeOf(e) <= Len(e.data)
          /\ Add(<<Copied(e)>>)
       \/ FailSign
       \/ /\ cmd' = [cmd EXCEPT !.ix = Len(Entries) + 1, !.unnoticed = TRUE]
          /\ UNCHANGED <<fw, tmp, last, crashed>>
  BY Zenon DEF CopyEntry, Entries
<1> HIDE DEF On
<1> QED BY <1>5, <1>6, <1>7, <1>8, <1>9, <1>10, Zenon

\* The copy of an entry passes where the entry itself did: its size is missing
\* or that of meta.conf, or else it is a patch and the size is its own.
LEMMA CopyPasses ==
  ASSUME NEW r \in MetaResource, NEW e \in AnyEntry, former.closed, check_resource(r, e),
         e.size \in {Unset, r.len, Len(e.data)}
  PROVE  check_resource(r, Copied(e))
<1> DEFINE c == Copied(e)
           n == Len(e.data)
<1>1. /\ r.sparse \in BOOLEAN /\ r.len \in Nat /\ e.data \in Seq(Units) /\ n \in Nat
  BY DEF MetaResource, AnyEntry
<1>2. SizeOf(e) = n
  BY DEF SizeOf
<1>3. UpTo(n, e.data) = e.data
  BY <1>1, UpToTyped
<1>4. c.size = n /\ c.data = e.data
  BY <1>2, <1>3, CopiedEntry
<1>5. CASE ~r.sparse /\ e.size # Unset /\ e.size # r.len
  <2>1. LooksLikePatch(e.data) /\ e.size = n
    BY <1>5 DEF check_resource
  <2> HIDE DEF c, n
  <2> QED BY <1>4, <1>5, <2>1 DEF check_resource, c
<1>6. CASE ~(~r.sparse /\ e.size # Unset /\ e.size # r.len)
  <2>1. n = r.len /\ e.data = r.hash
    BY <1>6 DEF check_resource, check_normal_resource
  <2>2. n # Unset
    BY <1>1 DEF Unset
  <2>3. Len(c.data) = r.len /\ c.data = r.hash /\ c.size = r.len
    BY <1>4, <2>1
  <2> HIDE DEF c, n
  <2>4. check_resource(r, c)
    BY <2>3, Zenon DEF check_resource, check_normal_resource
  <2> QED BY <2>4 DEF c
<1> QED BY <1>5, <1>6

\* What was good before it was signed is good afterwards, with the new key.
LEMMA SignedIsGood ==
  ASSUME ArchiveInv, cmd.op = "sign", cmd.step = "copy", ~cmd.unnoticed, cmd.ix > Len(former.entries),
         former.closed, \A e \in ToSet(AfterSignature(former.entries)) : e.path # Signature,
         fwup_verify(former, {}), NEW a, a.entries = tmp.entries, a.exists
  PROVE  fwup_verify(a, {cmd.key})
<1> DEFINE es == former.entries
           ts == tmp.entries
           h == HeadAt(es)
           m == es[h].meta
           n == Len(es)
           body == SubSeq(es, h + 1, n)
           copy == SubSeq(ts, 3, Len(ts))
<1>1. /\ es \in Seq(AnyEntry) /\ ts \in Seq(AnyEntry) /\ n \in Nat /\ cmd.ix \in Nat \ {0} /\ cmd.key \in Keys
      /\ cmd.key # None /\ SoundArchive(former) /\ SoundArchive(tmp) /\ Sized(former)
  <2>1. /\ es \in Seq(AnyEntry) /\ ts \in Seq(AnyEntry) /\ n \in Nat /\ cmd.ix \in Nat \ {0} /\ cmd.key \in Keys
        /\ cmd.key # None /\ SoundArchive(former) /\ SoundArchive(tmp)
    BY SigningFacts
  <2>2. Sized(former)
    BY DEF ArchiveInv, ArchivesSound
  <2> QED BY <2>1, <2>2
<1>2. /\ h \in {1, 2} /\ h <= n /\ es[h].path = MetaConf /\ m.size = "fits" /\ CheckEntries(body, m.res)
  <2>1. h <= n /\ es[h].path = MetaConf /\ m.size = "fits" /\ CheckEntries(body, m.res)
    BY <1>1, VerifyMeans, Zenon
  <2> QED BY <2>1 DEF HeadAt
<1>3. cmd.ix = n + 1
  <2>1. cmd.ix <= n + 1
    BY DEF ArchiveInv, CopyOK
  <2> QED BY <1>1, <2>1
<1>4. \A i \in h + 1 .. n : es[i].path # Signature
  <2> SUFFICES ASSUME NEW i \in h + 1 .. n PROVE es[i] \in ToSet(AfterSignature(es))
    OBVIOUS
  <2>1. CASE h = 1
    <3>1. AfterSignature(es) = es
      BY <2>1 DEF AfterSignature, HeadAt
    <3>2. i \in DOMAIN es
      BY <1>1, <1>2
    <3> HIDE DEF es
    <3> QED BY <3>1, <3>2, Zenon DEF ToSet
  <2>2. CASE h = 2
    <3>1. AfterSignature(es) = Tail(es) /\ es # <<>>
      BY <2>2 DEF AfterSignature, HeadAt, HasSignature
    <3>2. i - 1 \in DOMAIN Tail(es) /\ Tail(es)[i - 1] = es[i]
      <4>1. i - 1 \in 1 .. n - 1 /\ (i - 1) + 1 = i
        BY <1>1, <1>2, <2>2
      <4>2. /\ Tail(es) \in Seq(AnyEntry) /\ Len(Tail(es)) = n - 1
            /\ \A j \in 1 .. n - 1 : Tail(es)[j] = es[j + 1]
        BY <1>1, <3>1, TailProperties
      <4> QED BY <4>1, <4>2
    <3> HIDE DEF es
    <3> QED BY <3>1, <3>2, Zenon DEF ToSet
  <2> QED BY <1>2, <2>1, <2>2
<1>5. Plain(former)
  BY <1>2, <1>4 DEF Plain
<1>6. /\ Len(ts) = n - h + 2 /\ ts[1] = SignatureEntry(cmd.key, m) /\ ts[2] = MetaEntry(m)
      /\ \A i \in h + 1 .. n : ts[i - h + 2] = Copied(es[i])
  <2>1. Signed(cmd.ix - 1)
    BY <1>5 DEF ArchiveInv, SignedOK
  <2>2. cmd.ix - 1 = n /\ ~(n < h)
    BY <1>1, <1>2, <1>3
  <2> QED BY <2>1, <2>2 DEF Signed
<1>7. m \in Meta /\ m.res \in Seq(MetaResource)
  <2>1. es[h] \in AnyEntry
    BY <1>1, <1>2
  <2>2. es[h].meta \in Meta
    BY <2>1 DEF AnyEntry
  <2> QED BY <2>2 DEF Meta
<1>8. /\ ts[1].path = Signature /\ ts[1].by = cmd.key /\ ts[1].meta = m
      /\ ts[2].path = MetaConf /\ ts[2].meta = m
  <2>1. cmd.key \in Keys \cup {None}
    BY <1>1
  <2>2. /\ SignatureEntry(cmd.key, m) = [path |-> Signature, by |-> cmd.key, meta |-> m, size |-> Unset, data |-> <<>>]
        /\ MetaEntry(m) = [path |-> MetaConf, by |-> None, meta |-> m, size |-> Unset, data |-> <<>>]
    BY <1>7, <2>1, HeadEntries
  <2> QED BY <1>6, <2>2
<1> HIDE DEF h, n, m, ts, es
<1>9. /\ body \in Seq(AnyEntry) /\ Len(body) = n - h /\ n - h \in Nat
      /\ \A k \in 1 .. n - h : body[k] = es[h + k] /\ h + k \in h + 1 .. n /\ h + k \in DOMAIN es
  <2>1. n = Len(es) /\ n - h \in Nat /\ h + 1 \in 1 .. n + 1
    BY <1>1, <1>2 DEF n
  <2>2. \A k \in 1 .. n - h : h + k \in h + 1 .. n /\ h + k \in 1 .. n
    BY <1>1, <1>2
  <2>3. body \in Seq(AnyEntry) /\ Len(body) = n - h /\ \A k \in 1 .. n - h : body[k] = es[h + k]
    BY <1>1, <1>2, <2>1
  <2>4. DOMAIN es = 1 .. n
    BY <1>1, <2>1
  <2> QED BY <2>1, <2>2, <2>3, <2>4
<1>10. /\ copy \in Seq(AnyEntry) /\ Len(copy) = n - h
       /\ \A k \in 1 .. n - h : copy[k] = ts[k + 2] /\ k + 2 \in DOMAIN ts
  <2> DEFINE j == n - h
  <2>1. j \in Nat /\ ts \in Seq(AnyEntry) /\ Len(ts) = j + 2
    BY <1>1, <1>2, <1>6
  <2> HIDE DEF j
  <2>2. copy \in Seq(AnyEntry) /\ Len(copy) = j /\ \A k \in 1 .. j : copy[k] = ts[k + 2]
    BY <2>1
  <2>3. \A k \in 1 .. j : k + 2 \in DOMAIN ts
    BY <2>1
  <2> QED BY <2>2, <2>3 DEF j
<1>11. DOMAIN body = 1 .. n - h /\ DOMAIN copy = 1 .. n - h
  BY <1>9, <1>10
<1>12. \A k \in 1 .. n - h : copy[k] = Copied(body[k]) /\ body[k] \in AnyEntry
  <2> SUFFICES ASSUME NEW k \in 1 .. n - h PROVE copy[k] = Copied(body[k]) /\ body[k] \in AnyEntry
    OBVIOUS
  <2>1. (h + k) - h + 2 = k + 2
    BY <1>2, <1>9
  <2>2. body[k] \in AnyEntry
    BY <1>1, <1>9
  <2>3. ts[(h + k) - h + 2] = Copied(es[h + k])
    <3> DEFINE x == h + k
    <3>1. x \in h + 1 .. n
      BY <1>9
    <3> HIDE DEF x
    <3>2. ts[x - h + 2] = Copied(es[x])
      BY <1>6, <3>1
    <3> QED BY <3>2 DEF x
  <2> QED BY <1>9, <1>10, <2>1, <2>2, <2>3
<1> HIDE DEF body, copy
<1>13. \A k \in 1 .. n - h : copy[k].path = body[k].path
  BY <1>12, CopiedEntry
<1>14. (\A k \in DOMAIN body : ~Skipped(body[k])) /\ (\A k \in DOMAIN copy : ~Skipped(copy[k]))
  <2>1. \A k \in DOMAIN body : ~Skipped(body[k])
    BY <1>1, <1>9, <1>11, Zenon DEF SoundArchive, SoundEntry, es
  <2> QED BY <1>11, <1>13, <2>1, Zenon DEF Skipped
<1>15. /\ \A k \in DOMAIN body : \E i \in DOMAIN m.res : NamedAs(m.res[i], body[k]) /\ check_resource(m.res[i], body[k])
       /\ \A j, k \in DOMAIN body :
            archive_filename_to_resource(body[j].path) = archive_filename_to_resource(body[k].path) => j = k
       /\ \A i \in DOMAIN m.res : \E k \in DOMAIN body : NamedAs(m.res[i], body[k])
  <2>1. Len(body) \in Nat /\ DOMAIN body = 1 .. Len(body)
    BY <1>9, <1>11
  <2>2. CheckEntries(body, m.res)
    BY <1>2
  <2> QED BY <1>14, <2>1, <2>2, CheckMeans
<1>16. CheckEntries(copy, m.res)
  <2>1. ASSUME NEW k \in DOMAIN copy
        PROVE  \E i \in DOMAIN m.res : NamedAs(m.res[i], copy[k]) /\ check_resource(m.res[i], copy[k])
    <3>1. PICK i \in DOMAIN m.res : NamedAs(m.res[i], body[k]) /\ check_resource(m.res[i], body[k])
      BY <1>11, <1>15
    <3>2. m.res[i] \in MetaResource
      BY <1>7
    <3>3. body[k].size \in {Unset, m.res[i].len, Len(body[k].data)}
      <4>1. h \in DOMAIN es /\ h + k \in DOMAIN es /\ body[k] = es[h + k]
        BY <1>1, <1>2, <1>9, <1>11 DEF n
      <4>2. m.res[i] \in ToSet(es[h].meta.res)
        BY Zenon DEF m, ToSet
      <4>3. m.res[i].name = archive_filename_to_resource(es[h + k].path)
        BY <3>1, <4>1 DEF NamedAs
      <4> QED BY <1>1, <1>2, <4>1, <4>2, <4>3, Zenon DEF Sized, es
    <3>4. check_resource(m.res[i], copy[k])
      BY <1>11, <1>12, <3>1, <3>2, <3>3, CopyPasses
    <3>5. NamedAs(m.res[i], copy[k])
      BY <1>11, <1>13, <3>1 DEF NamedAs
    <3> QED BY <3>4, <3>5
  <2>2. \A j, k \in DOMAIN copy :
          archive_filename_to_resource(copy[j].path) = archive_filename_to_resource(copy[k].path) => j = k
    BY <1>11, <1>13, <1>15
  <2>3. \A i \in DOMAIN m.res : \E k \in DOMAIN copy : NamedAs(m.res[i], copy[k])
    BY <1>11, <1>13, <1>15 DEF NamedAs
  <2>4. Len(copy) \in Nat /\ DOMAIN copy = 1 .. Len(copy)
    BY <1>9, <1>10, <1>11
  <2> QED BY <1>14, <2>1, <2>2, <2>3, <2>4, CheckMeans
<1>17. HasSignature(ts) /\ HeadAt(ts) = 2 /\ 2 <= Len(ts)
  <2>1. ts # <<>> /\ 2 <= Len(ts)
    BY <1>1, <1>2, <1>6
  <2> QED BY <1>8, <2>1 DEF HasSignature, HeadAt
<1>18. ts[1].by # "short"
  BY <1>1, <1>8, ArchiveAssumption
<1>19. a.entries = ts
  BY DEF ts
<1> QED BY <1>1, <1>2, <1>8, <1>16, <1>17, <1>18, <1>19, VerifyMeans DEF copy

\* The temporary file takes the place of the archive.
LEMMA RenameInv ==
  ASSUME ArchiveInv, Rename
  PROVE  ArchiveInv'
<1>1. /\ cmd.op = "sign" /\ cmd.step = "copy" /\ cmd.ix > Len(former.entries)
      /\ UNCHANGED <<host, former, quiet, budget>>
  BY DEF Rename, Running, Entries
<1>2. /\ TypeOK /\ cmd.key \in Keys /\ cmd.unnoticed \in BOOLEAN /\ cmd.ix \in Nat \ {0}
      /\ fw = former /\ tmp \in AnyArchive /\ SoundArchive(tmp) /\ former.entries \in Seq(AnyEntry)
  BY <1>1, SigningFacts
<1>3. /\ ~tmp.closed /\ tmp.exists /\ cmd.ix <= Len(former.entries) + 1
      /\ \A i \in DOMAIN tmp.entries : tmp.entries[i].size \in {Unset, Len(tmp.entries[i].data)}
      /\ ~cmd.unnoticed => Resources(tmp) = Paths(former.entries)[cmd.ix - 1]
  BY <1>1 DEF ArchiveInv, CopyOK
<1>4. ASSUME NEW u \in BOOLEAN, End(TRUE, u), tmp' = NoArchive, crashed' = FALSE,
             fw' \in AnyArchive, SoundArchive(fw'), fw'.closed => Sized(fw'),
             ~u => fw'.closed /\ (former.closed => Resources(fw') = Resources(former)),
             ~u => SignedVerifies'
      PROVE  ArchiveInv'
  <2>1. cmd' = Idle /\ last'.op = "sign" /\ last'.ok /\ last'.unnoticed = u
        /\ last' \in [op : {"idle", "create", "sign", "repack"}, ok : BOOLEAN, key : Keys \cup {None}, unnoticed : BOOLEAN]
    BY <1>1, <1>2, <1>4, EndTyped
  <2>2. TypeOK'
    BY <1>1, <1>2, <1>4, <2>1, Empties DEF TypeOK
  <2>3. ArchivesSound'
    BY <1>1, <1>4, Empties DEF ArchiveInv, ArchivesSound, SoundArchive, Sized
  <2>4. MapOK' /\ AddOK' /\ CopyOK' /\ SignedOK'
    BY <2>1, NothingRuns
  <2>5. TempOK'
    BY <1>4, Empties DEF TempOK
  <2>6. SignAtomic'
    <3>1. cmd'.op # "sign" /\ ~tmp'.exists
      BY <1>4, <2>1, Empties DEF Idle
    <3>2. ~u => fw'.closed /\ (former'.closed => Resources(fw)' = Resources(former)')
      BY <1>1, <1>4
    <3> QED BY <2>1, <3>1, <3>2, Zenon DEF SignAtomic
  <2>7. SignedVerifies' /\ CreateVerifies'
    BY <1>4, <2>1, Zenon DEF SignedVerifies, CreateVerifies
  <2> QED BY <2>2, <2>3, <2>4, <2>5, <2>6, <2>7 DEF ArchiveInv, OutputVerifies
<1>5. CASE fw' = [tmp EXCEPT !.closed = TRUE] /\ End(TRUE, cmd.unnoticed) /\ tmp' = NoArchive /\ crashed' = FALSE
  <2>1. fw' \in AnyArchive /\ fw'.entries = tmp.entries /\ fw'.closed /\ fw'.exists
    BY <1>2, <1>3, <1>5 DEF AnyArchive
  <2>2. SoundArchive(fw')
    BY <1>2, <2>1 DEF SoundArchive
  <2>3. Sized(fw')
    BY <1>3, <2>1, Zenon DEF Sized
  <2>4. ~cmd.unnoticed => Resources(fw') = Resources(former)
    <3>1. cmd.ix - 1 = Len(former.entries)
      BY <1>1, <1>2, <1>3
    <3> QED BY <1>3, <2>1, <3>1 DEF Resources
  <2>5. ASSUME ~cmd.unnoticed PROVE SignedVerifies'
    <3> SUFFICES ASSUME former.closed, \A e \in ToSet(AfterSignature(former.entries)) : e.path # Signature,
                        fwup_verify(former, {})
                 PROVE  fwup_verify(fw', {cmd.key})
      <4>1. last'.key = cmd.key
        BY <1>1, <1>2, <1>5, EndTyped
      <4> QED BY <1>1, <4>1, Zenon DEF SignedVerifies
    <3> QED BY <1>1, <2>1, <2>5, SignedIsGood
  <2> QED BY <1>2, <1>4, <1>5, <2>1, <2>2, <2>3, <2>4, <2>5
<1>6. CASE fw' \in PartsOf(tmp) /\ End(TRUE, TRUE) /\ tmp' = NoArchive /\ crashed' = FALSE
  <2>1. fw' \in AnyArchive /\ SoundArchive(fw') /\ ~fw'.closed
    BY <1>2, <1>3, <1>6, PartSound
  <2> QED BY <1>4, <1>6, <2>1
<1>7. CASE FailSign
  BY <1>1, <1>7, FailSignInv
<1> QED BY <1>5, <1>6, <1>7, Zenon DEF Rename

----------------------------------------------------------------------------
(* The environment                                                         *)

LEMMA KilledInv ==
  ASSUME ArchiveInv, Killed
  PROVE  ArchiveInv'
<1>1. /\ cmd # Idle /\ cmd' = Idle /\ last' = [op |-> cmd.op, ok |-> FALSE, key |-> cmd.key, unnoticed |-> FALSE]
      /\ IF cmd.op = "create" /\ cmd.step = "add" THEN fw' \in PartsOf(fw) /\ UNCHANGED tmp
         ELSE IF cmd.op = "sign" /\ cmd.step = "copy" THEN tmp' \in PartsOf(tmp) /\ UNCHANGED fw
         ELSE UNCHANGED <<fw, tmp>>
      /\ crashed' = (crashed \/ cmd.op = "sign") /\ UNCHANGED <<host, former, quiet>>
  BY DEF Killed, Result
<1>2. TypeOK /\ fw \in AnyArchive /\ tmp \in AnyArchive /\ SoundArchive(fw) /\ SoundArchive(tmp)
      /\ crashed \in BOOLEAN
  BY DEF ArchiveInv, TypeOK, ArchivesSound
<1>3. cmd.op \in {"create", "sign"}
  BY <1>1, <1>2, CommandKinds
<1>4. last'.op = cmd.op /\ ~last'.ok
      /\ last' \in [op : {"idle", "create", "sign", "repack"}, ok : BOOLEAN, key : Keys \cup {None}, unnoticed : BOOLEAN]
  <2>1. cmd.key \in Keys \cup {None}
    BY <1>2, <1>3, CommandKinds DEF Creating, Signing
  <2> QED BY <1>1, <1>3, <2>1
<1>5. /\ fw' \in AnyArchive /\ SoundArchive(fw') /\ (fw'.closed => Sized(fw'))
      /\ tmp' \in AnyArchive /\ SoundArchive(tmp')
      /\ cmd.op = "sign" => fw' = former
      /\ cmd.op = "create" => tmp' = tmp
  <2>1. fw.closed => Sized(fw)
    BY DEF ArchiveInv, ArchivesSound
  <2>2. cmd.op = "sign" => fw = former
    BY DEF ArchiveInv, SignAtomic
  <2>3. CASE cmd.op = "create" /\ cmd.step = "add"
    <3>1. ~fw.closed
      BY <2>3 DEF ArchiveInv, AddOK
    <3>2. fw' \in PartsOf(fw) /\ tmp' = tmp
      BY <1>1, <2>3
    <3> QED BY <1>2, <2>3, <3>1, <3>2, PartSound
  <2>4. CASE cmd.op = "sign" /\ cmd.step = "copy"
    <3>1. tmp' \in PartsOf(tmp) /\ fw' = fw
      BY <1>1, <2>4
    <3> QED BY <1>2, <2>1, <2>2, <2>4, <3>1, PartSound
  <2>5. CASE ~(cmd.op = "create" /\ cmd.step = "add") /\ ~(cmd.op = "sign" /\ cmd.step = "copy")
    <3>1. tmp' = tmp /\ fw' = fw
      BY <1>1, <2>5
    <3> QED BY <1>2, <2>1, <2>2, <3>1
  <2> QED BY <2>3, <2>4, <2>5
<1>6. TypeOK'
  BY <1>1, <1>2, <1>4, <1>5 DEF TypeOK
<1>7. ArchivesSound'
  BY <1>1, <1>5 DEF ArchiveInv, ArchivesSound, SoundArchive, Sized
<1>8. MapOK' /\ AddOK' /\ CopyOK' /\ SignedOK'
  BY <1>1, NothingRuns
<1>9. ~crashed' => ~tmp'.exists
  <2>1. ~crashed' => ~crashed /\ cmd.op = "create"
    BY <1>1, <1>3
  <2>2. cmd.op = "create" /\ ~crashed => ~tmp.exists
    BY DEF ArchiveInv, TempOK
  <2> QED BY <1>5, <2>1, <2>2
<1>10. TempOK'
  BY <1>9 DEF TempOK
<1>11. SignAtomic'
  <2>1. cmd'.op # "sign"
    BY <1>1 DEF Idle
  <2>2. last'.op = "sign" => fw' = former'
    BY <1>1, <1>4, <1>5
  <2> QED BY <1>4, <1>9, <2>1, <2>2, Zenon DEF SignAtomic
<1>12. SignedVerifies' /\ CreateVerifies'
  BY <1>4, Zenon DEF SignedVerifies, CreateVerifies
<1> QED BY <1>6, <1>7, <1>8, <1>10, <1>11, <1>12 DEF ArchiveInv, OutputVerifies

LEMMA RepackInv ==
  ASSUME ArchiveInv, Repack
  PROVE  ArchiveInv'
<1>1. /\ cmd = Idle /\ fw.closed /\ last' = [op |-> "repack", ok |-> TRUE, key |-> None, unnoticed |-> FALSE]
      /\ UNCHANGED <<host, tmp, cmd, former, quiet, crashed>>
  BY DEF Repack, Result
<1>2. PICK es \in Repacks(fw.entries) : fw' = [fw EXCEPT !.entries = es]
  BY DEF Repack
<1>3. /\ TypeOK /\ fw \in AnyArchive /\ fw.entries \in Seq(AnyEntry) /\ SoundArchive(fw) /\ Sized(fw)
      /\ Len(fw.entries) \in Nat
  <2>1. TypeOK /\ fw \in AnyArchive /\ SoundArchive(fw) /\ Sized(fw)
    BY <1>1 DEF ArchiveInv, TypeOK, ArchivesSound
  <2>2. fw.entries \in Seq(AnyEntry)
    BY <2>1 DEF AnyArchive
  <2> QED BY <2>1, <2>2
<1>4. /\ es \in Seq(AnyEntry)
      /\ \A k \in DOMAIN es :
           \/ \E i \in DOMAIN fw.entries : es[k] = fw.entries[i]
           \/ \E i \in DOMAIN fw.entries : /\ es[k].path = fw.entries[i].path /\ es[k].path # MetaConf
                                           /\ es[k].size \in {Unset, Len(es[k].data)}
  BY <1>3, Repacked
<1>5. fw.exists
  <2>1. fw.entries # <<>>
    <3>1. \E i : i \in DOMAIN fw.entries
      BY Zenon DEF Repacks
    <3> QED BY <3>1
  <2> QED BY <1>3, <2>1 DEF SoundArchive
<1>6. fw' \in AnyArchive /\ fw'.entries = es /\ fw'.closed /\ fw'.exists
  BY <1>1, <1>2, <1>3, <1>4, <1>5 DEF AnyArchive
<1>7. SoundArchive(fw') /\ Sized(fw')
  BY <1>3, <1>4, <1>5, <1>6, FromOld
<1>8. last'.op = "repack"
      /\ last' \in [op : {"idle", "create", "sign", "repack"}, ok : BOOLEAN, key : Keys \cup {None}, unnoticed : BOOLEAN]
  BY <1>1
<1>9. TypeOK'
  BY <1>1, <1>3, <1>6, <1>8 DEF TypeOK
<1>10. ArchivesSound'
  BY <1>1, <1>7 DEF ArchiveInv, ArchivesSound, SoundArchive, Sized
<1>11. MapOK' /\ AddOK' /\ CopyOK' /\ SignedOK'
  BY <1>1, NothingRuns
<1>12. cmd'.op # "sign" /\ cmd.op # "sign" /\ (~crashed' => ~tmp'.exists)
  BY <1>1 DEF Idle, ArchiveInv, TempOK
<1>13. TempOK'
  BY <1>12 DEF TempOK
<1>14. SignAtomic'
  BY <1>8, <1>12, Zenon DEF SignAtomic
<1>15. SignedVerifies' /\ CreateVerifies'
  BY <1>8, Zenon DEF SignedVerifies, CreateVerifies
<1> QED BY <1>9, <1>10, <1>11, <1>13, <1>14, <1>15 DEF ArchiveInv, OutputVerifies

LEMMA StutterInv ==
  ASSUME ArchiveInv, UNCHANGED vars
  PROVE  ArchiveInv'
<1>1. UNCHANGED <<host, fw, tmp, cmd, last, former, quiet, crashed>>
  BY DEF vars
<1>2. TypeOK' /\ TempOK'
  BY <1>1 DEF ArchiveInv, TypeOK, TempOK
<1>3. ArchivesSound'
  BY <1>1, SameArchives DEF ArchiveInv
<1>4. MapOK' /\ AddOK'
  BY <1>1 DEF ArchiveInv, MapOK, AddOK, Measured, Added, Headers
<1>5. CopyOK' /\ SignedOK'
  <2>1. CopyOK'
    BY <1>1 DEF ArchiveInv, CopyOK, Resources
  <2>2. SignedOK'
    BY <1>1 DEF ArchiveInv, SignedOK, Signed, Plain, HeadAt, HasSignature, Copied, SizeOf
  <2> QED BY <2>1, <2>2
<1>6. SignAtomic'
  BY <1>1 DEF ArchiveInv, SignAtomic, Resources
<1>7. SignedVerifies' /\ CreateVerifies'
  <2>1. OutputVerifies
    BY DEF ArchiveInv
  <2> QED BY <1>1, <2>1 DEF OutputVerifies, SignedVerifies, CreateVerifies
<1> QED BY <1>2, <1>3, <1>4, <1>5, <1>6, <1>7 DEF ArchiveInv, OutputVerifies

----------------------------------------------------------------------------
(* Theorems                                                                *)

\* Whatever commands run, fail or are killed, whatever files are edited and
\* archives taken apart: the archives are sound, and each command is where it
\* should be (fwup_create.c, fwup_sign.c, fwfile.c).
THEOREM ArchiveInvariant == Spec => []ArchiveInv
<1>1. Init => ArchiveInv
  BY InitInv
<1>2. ArchiveInv /\ [Next]_vars => ArchiveInv'
  <2> SUFFICES ASSUME ArchiveInv, [Next]_vars PROVE ArchiveInv'
    OBVIOUS
  <2>1. CASE \E c \in Configs, k \in Keys \cup {None} : StartCreate(c, k)
    BY <2>1, StartCreateInv
  <2>2. CASE build_sparse_map
    BY <2>2, BuildSparseMapInv
  <2>3. CASE calc_hash
    BY <2>3, CalcHashInv
  <2>4. CASE create_archive
    BY <2>4, CreateArchiveInv
  <2>5. CASE add_file_resource
    BY <2>5, AddFileResourceInv
  <2>6. CASE CloseCreated
    BY <2>6, CloseCreatedInv
  <2>7. CASE \E k \in Keys : StartSign(k)
    BY <2>7, StartSignInv
  <2>8. CASE OpenTemp
    BY <2>8, OpenTempInv
  <2>9. CASE CopyEntry
    BY <2>9, CopyEntryInv
  <2>10. CASE Rename
    BY <2>10, RenameInv
  <2>11. CASE \E f \in Files : Edit(f)
    BY <2>11, EditInv
  <2>12. CASE Killed
    BY <2>12, KilledInv
  <2>13. CASE Repack
    BY <2>13, RepackInv
  <2>14. CASE UNCHANGED vars
    BY <2>14, StutterInv
  <2> QED BY <2>1, <2>2, <2>3, <2>4, <2>5, <2>6, <2>7, <2>8, <2>9, <2>10, <2>11, <2>12, <2>13, <2>14 DEF Next
<1> QED BY <1>1, <1>2, PTL DEF Spec

\* fwup_verify, which goes through the archive entry by entry and stops at the
\* first that is wrong, accepts the archives that are good, and no others.
THEOREM VerifyExact == Spec => []VerifySound
<1>1. ArchiveInv => VerifySound
  <2> SUFFICES ASSUME ArchiveInv, NEW keys \in SUBSET Keys PROVE fwup_verify(fw, keys) <=> Good(fw, keys)
    BY DEF VerifySound
  <2>1. fw \in AnyArchive /\ SoundArchive(fw)
    BY DEF ArchiveInv, TypeOK, ArchivesSound
  <2> QED BY <2>1, VerifyIsGood
<1> QED BY <1>1, ArchiveInvariant, PTL

\* Whenever fwup_sign is stopped, the archive is the former one or complete,
\* and no temporary file stays behind unless it was killed.
THEOREM SignIsAtomic == Spec => []SignAtomic
<1>1. ArchiveInv => SignAtomic
  BY DEF ArchiveInv
<1> QED BY <1>1, ArchiveInvariant, PTL

\* What fwup_create makes of files that nobody edits meanwhile, and what
\* fwup_sign makes of a good archive, is accepted by fwup_verify.
THEOREM OutputIsGood == Spec => []OutputVerifies
<1>1. ArchiveInv => OutputVerifies
  BY DEF ArchiveInv
<1> QED BY <1>1, ArchiveInvariant, PTL
=============================================================================
