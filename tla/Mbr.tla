-------------------------------- MODULE Mbr --------------------------------
(***************************************************************************)
(* The master boot record (mbr.c): from the partitions of fwup.conf to the *)
(* records mbr_write puts on the device, and what a reader finds there.    *)
(* Bootstrap code, OSIP header, signature and CHS addresses take no part   *)
(* in where a partition is and are left out.  Offsets and counts are       *)
(* uint32_t: here they are kept modulo Wrap.                               *)
(***************************************************************************)
EXTENDS Integers, Sequences, FiniteSetsExt

CONSTANTS
  Primary,     \* MBR_MAX_PRIMARY_PARTITIONS, 4
  Logical,     \* MBR_MAX_EXTENDED_PARTITIONS, 8
  Wrap         \* 2^32

ASSUME MbrAssumption == Primary \in Nat \ {0} /\ Logical \in Nat /\ Wrap \in Nat \ {0}

\* A partition section of fwup.conf: [ix, type, offset, count, expand].  Type 0
\* is an unused entry.
MaxParts == Primary + Logical
Ext == Primary - 1                       \* the place of an extended partition
is_extended_type(type) == type \in {5, 15}
End(p) == (p.offset + p.count) % Wrap
Unused == [type |-> 0, offset |-> 0, count |-> 0, expand |-> FALSE, record |-> 0]

----------------------------------------------------------------------------
(* mbr_cfg_to_partitions                                                   *)

\* The sections that are refused: a number that is too large or used twice, a
\* number that does not fit, an extended partition elsewhere than in Ext.
ValidSection(cfg, i) ==
  /\ cfg[i].ix < MaxParts
  /\ \A j \in 1 .. i - 1 : cfg[j].ix # cfg[i].ix
  /\ cfg[i].offset < Wrap - 1
  /\ IF is_extended_type(cfg[i].type) THEN cfg[i].ix = Ext ELSE cfg[i].count < Wrap \div 2 - 1

\* The section's entry.  An extended partition is always expanded, and counts
\* one block if fwup.conf does not say.
EntryOf(p) ==
  LET ext == is_extended_type(p.type)
  IN  [type |-> p.type, offset |-> p.offset,
       count |-> IF ext /\ p.count >= Wrap \div 2 - 1 THEN 1 ELSE p.count,
       expand |-> ext \/ p.expand, record |-> 0]

\* num_extended_partitions is that of the logical partition listed last.
NumExtended(cfg) ==
  LET logical == {i \in DOMAIN cfg : cfg[i].ix >= Primary}
  IN  IF logical = {} THEN 0 ELSE cfg[Max(logical)].ix - Primary + 1

\* Each logical partition, up to the first unused one, has its boot record in
\* the first blocks of the extended partition.
RecordOffset(parts, ix) ==
  IF ix >= Primary /\ \A j \in Primary .. ix : parts[j].type # 0
  THEN parts[Ext].offset + ix - Primary ELSE 0

\* The table, and whether the sections make one.
mbr_cfg_to_partitions(cfg) ==
  LET parts == [ix \in 0 .. MaxParts - 1 |->
                  IF \E i \in DOMAIN cfg : cfg[i].ix = ix
                  THEN EntryOf(cfg[CHOOSE i \in DOMAIN cfg : cfg[i].ix = ix]) ELSE Unused]
      n == NumExtended(cfg)
  IN  [ok |-> /\ \A i \in DOMAIN cfg : ValidSection(cfg, i)
              /\ n > 0 => is_extended_type(parts[Ext].type),
       parts |-> [ix \in DOMAIN parts |->
                    [parts[ix] EXCEPT !.record = IF n > 0 THEN RecordOffset(parts, ix) ELSE 0]],
       num_extended |-> n]

----------------------------------------------------------------------------
(* expand_partitions and mbr_verify                                        *)

expand_partition(p, total) ==
  [p EXCEPT !.count = IF p.expand /\ total > End(p) THEN total - p.offset ELSE @,
            !.expand = FALSE]
expand_partitions(table, num_blocks) ==
  LET total == Max({num_blocks} \cup {End(table.parts[i]) : i \in DOMAIN table.parts})
  IN  [table EXCEPT !.parts = [i \in DOMAIN @ |-> expand_partition(@[i], total)]]

\* Only expanded tables are verified, so that no partition has its expand_flag
\* any more and the check of expand_flag never applies.
Counts(p) == p.type # 0 /\ p.offset # End(p)
Overlap(p, q) == ~(p.offset >= End(q) \/ End(p) <= q.offset)
HoldsRecord(p, q) == q.record > 0 /\ q.record >= p.offset /\ q.record < End(p)
Compatible(p, q, inside) ==
  Overlap(p, q) = inside /\ HoldsRecord(p, q) = inside /\ ~HoldsRecord(q, p)
mbr_verify(table) ==
  \A i, j \in DOMAIN table.parts :
    LET p == table.parts[i]
        q == table.parts[j]
    IN  i < j /\ Counts(p) /\ Counts(q) => Compatible(p, q, i = Ext /\ is_extended_type(p.type))

mbr_verify_cfg(cfg) ==
  LET table == mbr_cfg_to_partitions(cfg)
  IN  table.ok /\ mbr_verify(expand_partitions(table, 0))

----------------------------------------------------------------------------
(* mbr_create, mbr_create_cfg and mbr_write                                *)

Entry(type, offset, count) == [type |-> type, offset |-> offset, count |-> count]
NoEntry == Entry(0, 0, 0)

\* The boot record of logical partition number i: where the partition is,
\* from here, and where the next record is, from the extended partition.
NextFromHere(p, i, n) ==                \* variant: the next record's place from this one
  <<Entry(p.type, p.offset - p.record, p.count), IF i < n - 1 THEN Entry(15, 1, 1) ELSE NoEntry>>
BootRecord(p, i, n) ==
  <<Entry(p.type, p.offset - p.record, p.count), IF i < n - 1 THEN Entry(15, i + 1, 1) ELSE NoEntry>>

\* The records, each with its block, or none if the table does not verify.
mbr_create(table, num_blocks) ==
  LET t == expand_partitions(table, num_blocks)
      n == t.num_extended
      main == [at |-> 0, entries |-> [i \in 1 .. Primary |-> Entry(t.parts[i - 1].type, t.parts[i - 1].offset,
                                                                   t.parts[i - 1].count)]]
      record(i) == [at |-> t.parts[Primary + i].record, entries |-> BootRecord(t.parts[Primary + i], i, n)]
  IN  IF ~mbr_verify(t) THEN <<>>
      ELSE <<main>> \o [i \in 1 .. n |-> record(i - 1)]

\* The result of mbr_create is not looked at.
mbr_create_cfg(cfg, num_blocks) ==
  LET table == mbr_cfg_to_partitions(cfg)
  IN  IF table.ok THEN [rc |-> 0, raw |-> mbr_create(table, num_blocks)] ELSE [rc |-> -1, raw |-> <<>>]

\* mbr_write: without records nothing is written and the function succeeds.  A
\* later record replaces an earlier one in the same block.
mbr_write_run(cfg, num_blocks) ==
  LET created == mbr_create_cfg(cfg, num_blocks)
      raw == created.raw
      last(b) == Max({i \in DOMAIN raw : raw[i].at = b})
  IN  [rc |-> created.rc, disk |-> [b \in {raw[i].at : i \in DOMAIN raw} |-> raw[last(b)].entries]]

\* mbr_decode: the four entries of the first block.
mbr_decode(disk) == disk[0]

----------------------------------------------------------------------------
(* What an operating system finds: the primary entries, and the partitions *)
(* of the chain of boot records that starts at the extended partition.     *)

ExtEntry(disk) == LET es == {i \in 1 .. Primary : is_extended_type(disk[0][i].type)}
                  IN  IF es = {} THEN NoEntry ELSE disk[0][CHOOSE i \in es : TRUE]
Chain(disk) ==
  LET ext == ExtEntry(disk)
      walk[k \in 0 .. Logical] ==       \* the partitions found with at most k records, and where to go on
        IF k = 0 THEN [found |-> <<>>, next |-> ext.offset]
        ELSE IF walk[k - 1].next \notin DOMAIN disk \ {0} THEN walk[k - 1]
        ELSE LET at == walk[k - 1].next
                 r == disk[at]
             IN  [found |-> walk[k - 1].found \o <<Entry(r[1].type, at + r[1].offset, r[1].count)>>,
                  next |-> IF is_extended_type(r[2].type) THEN ext.offset + r[2].offset ELSE 0]
  IN  walk[Logical].found
=============================================================================
