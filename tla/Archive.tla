------------------------------ MODULE Archive ------------------------------
(***************************************************************************)
(* What becomes of an archive on the host: fwup -c makes it out of files   *)
(* that others may be editing (fwup_create.c, fwfile.c), fwup -S puts      *)
(* another signature in front of it by way of a temporary file             *)
(* (fwup_sign.c), other tools take it apart and put it together again, and *)
(* fwup -V says whether it is good (fwup_verify.c, cfgfile.c).  A command  *)
(* may be killed at any step.                                              *)
(*                                                                         *)
(* An entry of the archive is a record; which fields count depends on its  *)
(* path: by and meta for a signature, meta for meta.conf, size and data    *)
(* for a resource.  A digest is its content, a signature the key and the   *)
(* text that was signed.                                                   *)
(***************************************************************************)
EXTENDS Integers, SequencesExt, FiniteSets

CONSTANTS
  Configs,       \* configurations to create archives from: [size, res], the size meta.conf will have
                 \* ("fits" or "long") and the file-resources [name, sparse, lte]
  Words,         \* what a path is made of: what is between two "/"
  Contents,      \* what a host file may hold: sequences of units
  Keys,          \* signing keys
  Magic,         \* the unit a VCDIFF patch begins with
  MaxCreates, MaxSigns, MaxEdits, MaxRepacks, MaxCrashes   \* bounds

None == "none"
Unset == -1

\* A name of a resource: whether it starts with "/", and its components.  The
\* path of an entry is a sequence of components.
Path == Seq(Words)
Name == [root : BOOLEAN, parts : Path \ {<<>>}]
Units == UNION {ToSet(c) : c \in Contents}

\* libconfuse refuses two file-resources of the same name (CFGF_NO_TITLE_DUPES).
Distinct(res) == \A i, j \in DOMAIN res : res[i].name = res[j].name => i = j
ASSUME ArchiveAssumption ==
  /\ None \notin Keys /\ "short" \notin Keys
  /\ {"data", "meta.conf", "meta.conf.ed25519"} \subseteq Words
  /\ Contents # {} /\ Contents \subseteq Seq(Units)
  /\ Configs \subseteq [size : {"fits", "long"}, res : Seq([name : Name, sparse : BOOLEAN, lte : Nat])]
  /\ \A c \in Configs : Distinct(c.res)
  /\ {MaxCreates, MaxSigns, MaxEdits, MaxRepacks, MaxCrashes} \subseteq Nat

VARIABLES
  host,          \* the files of host-path: the one of the i-th resource
  fw, tmp,       \* the archive and <archive>.tmp: [entries, closed], or NoArchive
  cmd,           \* the command that is running
  last,          \* how the last one ended: [op, ok, key, unnoticed]; unnoticed if something failed
                 \* that fwup did not look at
  former,        \* the archive when that command started
  quiet,         \* no host file was edited since it started
  crashed,       \* the last command that used tmp was killed
  budget         \* what is left of the bounds
vars == <<host, fw, tmp, cmd, last, former, quiet, crashed, budget>>

----------------------------------------------------------------------------
(* Names                                                                   *)

NameOf(root, parts) == [root |-> root, parts |-> parts]
Empty == ""
MetaConf == <<"meta.conf">>
Signature == <<"meta.conf.ed25519">>

\* resource_name_to_archive_path, and whether it accepts the name.
Acceptable(n) ==
  /\ n.parts[Len(n.parts)] # Empty
  /\ n.root => n.parts # MetaConf /\ n.parts[1] # "data"
resource_name_to_archive_path(n) == IF n.root THEN n.parts ELSE <<"data">> \o n.parts
archive_filename_to_resource(path) ==
  IF Len(path) > 1 /\ path[1] = "data" THEN NameOf(FALSE, Tail(path)) ELSE NameOf(TRUE, path)

----------------------------------------------------------------------------
(* Archives                                                                *)

NoArchive == [entries |-> <<>>, closed |-> FALSE, exists |-> FALSE]
Opened == [entries |-> <<>>, closed |-> FALSE, exists |-> TRUE]
NoMeta == [size |-> "none", res |-> <<>>]
Entry(path, by, meta, size, data) == [path |-> path, by |-> by, meta |-> meta, size |-> size, data |-> data]
SignatureEntry(key, meta) == Entry(Signature, key, meta, Unset, <<>>)
MetaEntry(meta) == Entry(MetaConf, None, meta, Unset, <<>>)
ResourceEntry(path, size, data) == Entry(path, None, NoMeta, size, data)

\* fwfile_add_meta_conf_str: the signature is in front of what it signs.
fwfile_add_meta_conf_str(meta, key) ==
  IF key = None THEN <<MetaEntry(meta)>> ELSE <<SignatureEntry(key, meta), MetaEntry(meta)>>

\* What may be on the disk of an archive that was not closed: some entries, the
\* last one incomplete.
CutForms(e) ==
  {[e EXCEPT !.by = IF e.path = Signature THEN "short" ELSE @,
             !.meta = IF e.path = MetaConf THEN [size |-> s, res |-> <<>>] ELSE @,
             !.data = IF @ = <<>> THEN @ ELSE Front(@)] : s \in {"short", "fits"}}
PartsOf(a) ==
  {[a EXCEPT !.entries = SubSeq(@, 1, k)] : k \in 0 .. Len(a.entries)} \cup
  UNION {{[a EXCEPT !.entries = Append(SubSeq(@, 1, k - 1), e)] : e \in CutForms(a.entries[k])} : k \in DOMAIN a.entries}

----------------------------------------------------------------------------
(* fwup_verify                                                             *)

\* The entries in front of the resources, and what is left: the head is good if
\* meta.conf has a size that is accepted and one of the keys signed it.
HasSignature(es) == es # <<>> /\ es[1].path = Signature
AfterSignature(es) == IF HasSignature(es) THEN Tail(es) ELSE es
cfgfile_parse_fw_ae(es, keys) ==
  keys # {} => HasSignature(es) /\ es[1].by \in keys /\ es[1].meta = es[2].meta
cfgfile_parse_fw_meta_conf(es, keys) ==
  /\ HasSignature(es) => es[1].by # "short"
  /\ AfterSignature(es) # <<>> /\ AfterSignature(es)[1].path = MetaConf
  /\ AfterSignature(es)[1].meta.size = "fits"
  /\ cfgfile_parse_fw_ae(es, keys)

\* check_resource of the entry e of resource r.  If there is but one segment
\* and the size is not as expected, it may be a patch; then only its header is
\* looked at.
LooksLikePatch(data) == data # <<>> /\ data[1] = Magic
check_normal_resource(r, e) == Len(e.data) = r.len /\ e.data = r.hash
check_resource(r, e) ==
  IF ~r.sparse /\ e.size # Unset /\ e.size # r.len THEN LooksLikePatch(e.data)
  ELSE (e.size = Unset \/ e.size = r.len) /\ check_normal_resource(r, e)

\* One entry after the other, but for names that are empty: its resource must be
\* listed and not have been processed before, and in the end all must have been.
Skipped(e) == archive_filename_to_resource(e.path) = NameOf(FALSE, <<Empty>>)
rlist_find_by_name(res, e) == {i \in DOMAIN res : res[i].name = archive_filename_to_resource(e.path)}
Processed(es, res, k) == UNION {rlist_find_by_name(res, es[j]) : j \in {x \in 1 .. k - 1 : ~Skipped(es[x])}}
CheckAgain(processed, i) == TRUE    \* variant: a resource may come twice
NotProcessed(processed, i) == i \notin processed
CheckEntries(es, res) ==
  /\ \A k \in DOMAIN es : ~Skipped(es[k]) =>
       \E i \in rlist_find_by_name(res, es[k]) :
         NotProcessed(Processed(es, res, k), i) /\ check_resource(res[i], es[k])
  /\ Processed(es, res, Len(es) + 1) = DOMAIN res
fwup_verify(a, keys) ==
  LET es == a.entries
      rest == AfterSignature(es)
  IN  /\ a.exists
      /\ cfgfile_parse_fw_meta_conf(es, keys)
      /\ CheckEntries(Tail(rest), rest[1].meta.res)

----------------------------------------------------------------------------
(* Commands                                                                *)

Idle == [op |-> "idle"]
Result(op, ok, key, unnoticed) == [op |-> op, ok |-> ok, key |-> key, unnoticed |-> unnoticed]
Files == UNION {DOMAIN c.res : c \in Configs}
Init ==
  /\ host \in [Files -> Contents]
  /\ fw = NoArchive /\ tmp = NoArchive /\ former = NoArchive
  /\ cmd = Idle /\ last = Result("idle", TRUE, None, FALSE)
  /\ quiet = TRUE /\ crashed = FALSE
  /\ budget = [creates |-> MaxCreates, signs |-> MaxSigns, edits |-> MaxEdits, repacks |-> MaxRepacks, crashes |-> MaxCrashes]

Spend(what) == budget[what] > 0 /\ budget' = [budget EXCEPT ![what] = @ - 1]
Start(what) == /\ cmd = Idle /\ Spend(what)
               /\ former' = fw /\ quiet' = TRUE
               /\ UNCHANGED <<host, fw, tmp, last, crashed>>
End(ok, unnoticed) == cmd' = Idle /\ last' = Result(cmd.op, ok, cmd.key, unnoticed)
Running(op, step) == cmd.op = op /\ cmd.step = step

----------------------------------------------------------------------------
(* fwup_create                                                             *)

\* cfgfile_parse_file.  Nobody checks how long meta.conf will be.
StartCreate(c, k) ==
  /\ Start("creates")
  /\ cmd' = [op |-> "create", step |-> "map", ix |-> 1, cfg |-> c.res, key |-> k, fatal |-> FALSE,
             meta |-> [size |-> c.size, res |-> <<>>]]

\* compute_file_metadata, resource by resource: the length first, then the
\* digest of as much of the file.
UpTo(n, data) == SubSeq(data, 1, IF n < Len(data) THEN n ELSE Len(data))
build_sparse_map ==
  /\ Running("create", "map")
  /\ IF cmd.ix > Len(cmd.cfg) THEN cmd' = [cmd EXCEPT !.step = "open"]
     ELSE LET r == cmd.cfg[cmd.ix]
          IN  cmd' = [cmd EXCEPT !.step = "hash",
                !.meta.res = Append(@, [name |-> r.name, sparse |-> r.sparse, len |-> Len(host[cmd.ix]), hash |-> <<>>])]
  /\ UNCHANGED <<host, fw, tmp, last, former, quiet, crashed, budget>>
calc_hash ==
  /\ Running("create", "hash")
  /\ LET r == cmd.meta.res[cmd.ix]
     IN  cmd' = [cmd EXCEPT !.step = "map", !.ix = @ + 1, !.meta.res[cmd.ix].hash = UpTo(r.len, host[cmd.ix])]
  /\ UNCHANGED <<host, fw, tmp, last, former, quiet, crashed, budget>>

\* create_archive: what was there is gone.  Whether meta.conf could be written
\* is not looked at; libarchive fails from then on.
create_archive ==
  /\ Running("create", "open")
  /\ \/ /\ \E fatal \in BOOLEAN :
             /\ fw' = [Opened EXCEPT !.entries = IF fatal THEN <<>> ELSE fwfile_add_meta_conf_str(cmd.meta, cmd.key)]
             /\ cmd' = [cmd EXCEPT !.step = "add", !.ix = 1, !.fatal = fatal]
        /\ UNCHANGED last
     \/ End(FALSE, FALSE) /\ UNCHANGED fw          \* it cannot be opened
  /\ UNCHANGED <<host, tmp, former, quiet, crashed, budget>>

\* add_file_resource: the size of the header is the one of the map, the data is
\* what the file holds now.  Only the writing of data is looked at, not that of
\* the header.
FromMap(r) == UpTo(r.len, host[cmd.ix])
WithinLimits(r) == r.len <= cmd.cfg[cmd.ix].lte
add_file_resource ==
  /\ Running("create", "add") /\ cmd.ix <= Len(cmd.cfg)
  /\ LET r == cmd.meta.res[cmd.ix]
         e == ResourceEntry(resource_name_to_archive_path(r.name), r.len, FromMap(r))
     IN  \/ /\ WithinLimits(r) /\ Acceptable(r.name) /\ (cmd.fatal => e.data = <<>>)
            /\ fw' = IF cmd.fatal THEN fw ELSE [fw EXCEPT !.entries = Append(@, e)]
            /\ cmd' = [cmd EXCEPT !.ix = @ + 1]
            /\ UNCHANGED last
         \/ End(FALSE, FALSE) /\ fw' = [fw EXCEPT !.closed = ~cmd.fatal]   \* refused, or a write failed
  /\ UNCHANGED <<host, tmp, former, quiet, crashed, budget>>

\* The result of archive_write_close is not looked at.
CloseCreated ==
  /\ Running("create", "add") /\ cmd.ix > Len(cmd.cfg)
  /\ \/ ~cmd.fatal /\ fw' = [fw EXCEPT !.closed = TRUE] /\ End(TRUE, FALSE)
     \/ fw' \in PartsOf(fw) /\ End(TRUE, TRUE)
  /\ UNCHANGED <<host, tmp, former, quiet, crashed, budget>>

----------------------------------------------------------------------------
(* fwup_sign                                                               *)

InPlace(a) == fw' = a /\ UNCHANGED tmp      \* variant: no temporary file
ToTemp(a) == tmp' = a /\ UNCHANGED fw
UnlinkTemp == tmp' = NoArchive /\ UNCHANGED fw
FailSign == UnlinkTemp /\ End(FALSE, FALSE) /\ crashed' = FALSE

StartSign(k) ==
  /\ Start("signs")
  /\ cmd' = [op |-> "sign", step |-> "open", ix |-> 1, key |-> k, found |-> FALSE, unnoticed |-> FALSE]
OpenTemp ==
  /\ Running("sign", "open")
  /\ \/ fw.exists /\ ToTemp(Opened) /\ cmd' = [cmd EXCEPT !.step = "copy"] /\ UNCHANGED <<last, crashed>>
     \/ FailSign
  /\ UNCHANGED <<host, former, quiet, budget>>

\* One entry of the input.  A header that cannot be read is taken for the end.
\* The size of an entry is in the directory at the end of the
\* archive if it has one.
Entries == former.entries
LocalSize(e) == IF e.size = Unset THEN 0 ELSE e.size   \* variant: reads it like a stream
SizeOf(e) == IF former.closed THEN Len(e.data) ELSE IF e.size = Unset THEN 0 ELSE e.size
Copied(e) == ResourceEntry(e.path, SizeOf(e), UpTo(SizeOf(e), e.data))
Add(es) == ToTemp([tmp EXCEPT !.entries = @ \o es])
IsOldSignature(e) == e.path = Signature
CopyEntry ==
  /\ Running("sign", "copy") /\ cmd.ix <= Len(Entries)
  /\ LET e == Entries[cmd.ix]
     IN  \/ /\ cmd' = [cmd EXCEPT !.ix = @ + 1, !.found = @ \/ e.path = MetaConf]
            /\ \/ IsOldSignature(e) /\ UNCHANGED <<fw, tmp>>
               \/ /\ ~IsOldSignature(e) /\ e.path = MetaConf /\ ~cmd.found /\ e.meta.size = "fits"
                  /\ Add(fwfile_add_meta_conf_str(e.meta, cmd.key))
               \/ /\ ~IsOldSignature(e) /\ e.path # MetaConf /\ cmd.found /\ SizeOf(e) <= Len(e.data)
                  /\ Add(<<Copied(e)>>)
            /\ UNCHANGED <<last, crashed>>
         \/ FailSign
         \/ /\ cmd' = [cmd EXCEPT !.ix = Len(Entries) + 1, !.unnoticed = TRUE]
            /\ UNCHANGED <<fw, tmp, last, crashed>>
  /\ UNCHANGED <<host, former, quiet, budget>>
Rename ==
  /\ Running("sign", "copy") /\ cmd.ix > Len(Entries)
  /\ \/ /\ cmd.found
        /\ \/ fw' = [tmp EXCEPT !.closed = TRUE] /\ End(TRUE, cmd.unnoticed)
           \/ fw' \in PartsOf(tmp) /\ End(TRUE, TRUE)
        /\ tmp' = NoArchive /\ crashed' = FALSE
     \/ FailSign
  /\ UNCHANGED <<host, former, quiet, budget>>

----------------------------------------------------------------------------
(* The environment                                                         *)

Edit(f) ==
  /\ cmd.op = "create" /\ f \in DOMAIN cmd.cfg /\ Spend("edits")
  /\ \E c \in Contents \ {host[f]} : host' = [host EXCEPT ![f] = c]
  /\ quiet' = FALSE
  /\ UNCHANGED <<fw, tmp, cmd, last, former, crashed>>

\* The command is killed.
Killed ==
  /\ cmd # Idle /\ Spend("crashes")
  /\ cmd' = Idle /\ last' = Result(cmd.op, FALSE, cmd.key, FALSE)
  /\ IF cmd.op = "create" /\ cmd.step = "add" THEN fw' \in PartsOf(fw) /\ UNCHANGED tmp
     ELSE IF cmd.op = "sign" /\ cmd.step = "copy" THEN tmp' \in PartsOf(tmp) /\ UNCHANGED fw
     ELSE UNCHANGED <<fw, tmp>>
  /\ crashed' = (crashed \/ cmd.op = "sign")
  /\ UNCHANGED <<host, former, quiet>>

\* Other tools: an entry is left out, doubled or moved, or a resource replaced,
\* for example by a patch, with or without its size in front of it.
Replacements(e) ==
  IF e.path \in {Signature, MetaConf} THEN {}
  ELSE UNION {{ResourceEntry(e.path, n, d) : n \in {Len(d), Unset}} : d \in Contents}
Repacks(es) ==
  UNION {{RemoveAt(es, i), Append(es, es[i]), RemoveAt(es, i) \o <<es[i]>>} \cup
         {[es EXCEPT ![i] = e] : e \in Replacements(es[i])} : i \in DOMAIN es}
Repack ==
  /\ cmd = Idle /\ fw.closed /\ Spend("repacks")
  /\ \E es \in Repacks(fw.entries) : fw' = [fw EXCEPT !.entries = es]
  /\ last' = Result("repack", TRUE, None, FALSE)
  /\ UNCHANGED <<host, tmp, cmd, former, quiet, crashed>>

Next ==
  \/ \E c \in Configs, k \in Keys \cup {None} : StartCreate(c, k)
  \/ build_sparse_map \/ calc_hash \/ create_archive \/ add_file_resource \/ CloseCreated
  \/ \E k \in Keys : StartSign(k)
  \/ OpenTemp \/ CopyEntry \/ Rename
  \/ \E f \in Files : Edit(f)
  \/ Killed \/ Repack
Spec == Init /\ [][Next]_vars

----------------------------------------------------------------------------
(* Properties                                                              *)

\* One archive that is good, said without going through it entry by entry: in
\* front is meta.conf, signed by one of the keys if keys are given; every
\* resource it lists is there once and nothing else is, each with the content
\* meta.conf vouches for, or else as a patch.  What is in data/ is no resource
\* called /data/something.
Vouched(r, e) ==
  /\ e.path = resource_name_to_archive_path(r.name)
  /\ ~(r.name.root /\ r.name.parts[1] = "data" /\ Len(r.name.parts) > 1)
  /\ \/ e.data = r.hash /\ Len(r.hash) = r.len /\ e.size \in {Unset, r.len}
     \/ ~r.sparse /\ e.size \notin {Unset, r.len} /\ LooksLikePatch(e.data)
Good(a, keys) ==
  \E n \in {0, 1} : n < Len(a.entries) /\
    LET m == a.entries[n + 1].meta
        body == SubSeq(a.entries, n + 2, Len(a.entries))
    IN  /\ a.entries[n + 1].path = MetaConf /\ m.size = "fits"
        /\ n = 1 => a.entries[1].path = Signature /\ a.entries[1].by # "short"
        /\ keys # {} => n = 1 /\ a.entries[1].by \in keys /\ a.entries[1].meta = m
        /\ \A i \in DOMAIN body : \E r \in ToSet(m.res) : Vouched(r, body[i])
        /\ \A r \in ToSet(m.res) : Cardinality({i \in DOMAIN body : Vouched(r, body[i])}) = 1

\* fwup_verify accepts exactly the archives that are good, whatever was done to
\* them.
VerifySound == \A keys \in SUBSET Keys : fwup_verify(fw, keys) <=> Good(fw, keys)

\* Whenever fwup_sign is stopped, the archive is the former one, or complete:
\* it has every resource of the former one, in the same order (of a damaged one,
\* those that could be read).  The exceptions are two errors it does not notice:
\* an entry's header that cannot be read, and a file that cannot be closed.  Every
\* way out, except being killed, removes the temporary file.
Paths(es) ==    \* Paths(es)[k]: those of the resources among the first k entries
  LET paths[k \in 0 .. Len(es)] ==
        IF k = 0 THEN <<>>
        ELSE IF es[k].path \in {Signature, MetaConf} THEN paths[k - 1] ELSE Append(paths[k - 1], es[k].path)
  IN  paths
Resources(a) == Paths(a.entries)[Len(a.entries)]
SignAtomic ==
  /\ cmd.op = "sign" => fw = former
  /\ cmd = Idle /\ ~crashed => ~tmp.exists
  /\ cmd = Idle /\ last.op = "sign" /\ ~last.unnoticed =>
       IF last.ok THEN fw.closed /\ (former.closed => Resources(fw) = Resources(former)) ELSE fw = former

\* What was good before it was signed is good afterwards, with the new key.
\* (Not if a resource is called /meta.conf.ed25519: that one is left out.)
SignedVerifies ==
  cmd = Idle /\ last.op = "sign" /\ last.ok /\ ~last.unnoticed /\ former.closed
    /\ (\A e \in ToSet(AfterSignature(former.entries)) : e.path # Signature)
    /\ fwup_verify(former, {})
  => fwup_verify(fw, {last.key})

\* An archive fwup_create made without an error, from files nobody edited
\* meanwhile, is good, and holds these files.
CreateVerifies ==
  cmd = Idle /\ last.op = "create" /\ last.ok /\ ~last.unnoticed /\ quiet =>
    LET head == AfterSignature(fw.entries)[1].meta
    IN  /\ fw.closed
        /\ head.size = "fits" => fwup_verify(fw, IF last.key = None THEN {} ELSE {last.key})
        /\ \A i \in DOMAIN head.res : head.res[i].hash = host[i]

\* What the two commands that write archives leave is accepted by the one that
\* checks them.
OutputVerifies == SignedVerifies /\ CreateVerifies
=============================================================================
