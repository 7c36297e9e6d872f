-------------------------------- MODULE Gpt --------------------------------
(***************************************************************************)
(* The GUID partition table (gpt.c): the protective MBR, the header and    *)
(* table at the start of the device and their copies at its end.  Names,   *)
(* GUIDs, flags and checksums take no part in where things are and are     *)
(* left out.  Block numbers are uint32_t: here modulo Wrap, a constant of  *)
(* module Mbr.                                                             *)
(***************************************************************************)
EXTENDS Mbr

CONSTANTS
  GptMax,        \* GPT_MAX_PARTITIONS, 16
  TableBlocks    \* GPT_PARTITION_TABLE_BLOCKS, 32

ASSUME GptAssumption == GptMax \in Nat \ {0} /\ TableBlocks \in Nat \ {0}

GptSize == 1 + TableBlocks               \* GPT_SIZE_BLOCKS

\* gpt_cfg_to_partitions: the sections by number, and whether they are accepted.
gpt_cfg_to_partitions(cfg) ==
  [ok |-> \A i \in DOMAIN cfg : /\ cfg[i].ix < GptMax /\ cfg[i].offset < Wrap - 1
                                /\ cfg[i].count < Wrap \div 2 - 1
                                /\ \A j \in 1 .. i - 1 : cfg[j].ix # cfg[i].ix,
   parts |-> [ix \in {cfg[i].ix : i \in DOMAIN cfg} |-> cfg[CHOOSE i \in DOMAIN cfg : cfg[i].ix = ix]]]

\* gpt_verify_partitions: no section after one that expands, and none that
\* starts or ends inside another.
StartsInside(p, q) == p.offset > q.offset /\ p.offset < End(q) \* variant: only a start inside
EndsInside(p, q) == \/ p.offset >= q.offset /\ p.offset < End(q)
                    \/ End(p) > q.offset /\ End(p) <= End(q)
gpt_verify_partitions(parts) ==
  \A i \in DOMAIN parts :
    parts[i].offset # End(parts[i]) \/ parts[i].expand =>
      /\ \A j \in DOMAIN parts \ {i} : ~EndsInside(parts[i], parts[j])
      /\ \A j \in DOMAIN parts : j < i => ~parts[j].expand
gpt_verify_cfg(cfg) ==
  LET table == gpt_cfg_to_partitions(cfg)
  IN  table.ok /\ DOMAIN table.parts # {} /\ gpt_verify_partitions(table.parts)

\* The device's size if it is not known: the partitions and the second table.
compute_num_blocks(parts) ==
  (Max({0} \cup {End(parts[i]) : i \in DOMAIN parts}) + GptSize + 1) % Wrap

\* create_partition: one that expands ends before the second table.
gpt_create_partition(p, num_blocks) ==
  LET count == IF p.expand /\ num_blocks > (End(p) + GptSize) % Wrap
               THEN num_blocks - GptSize - 1 - p.offset ELSE p.count
  IN  [first |-> p.offset, last |-> (p.offset + count - 1) % Wrap]

\* create_gpt_header.
Header(current, backup, partition_lba, num_blocks) ==
  [current |-> current, backup |-> backup, table |-> partition_lba,
   first_usable |-> 1 + GptSize, last_usable |-> (num_blocks - GptSize - 1) % Wrap]

\* gpt_create_cfg and gpt_write: what is at block 0, in the first and in the
\* second table.
Secondary(num_blocks) == (num_blocks - GptSize) % Wrap
create_protective_mbr(num_blocks) == [first |-> 1, count |-> (num_blocks - 1) % Wrap]
create_partitions(parts, num_blocks) == [i \in DOMAIN parts |-> gpt_create_partition(parts[i], num_blocks)]
gpt_create_cfg(cfg, num_blocks) ==
  LET parts == gpt_cfg_to_partitions(cfg).parts
      n == IF num_blocks = 0 THEN compute_num_blocks(parts) ELSE num_blocks
      table == create_partitions(parts, n)
  IN  IF ~gpt_cfg_to_partitions(cfg).ok THEN [rc |-> -1]
      ELSE [rc |-> 0, num_blocks |-> n,
            protective |-> create_protective_mbr(n),
            primary |-> [header |-> Header(1, n - 1, 2, n), table |-> table],
            secondary |-> [header |-> Header(n - 1, 1, Secondary(n), n), table |-> table,
                           at |-> Secondary(n)]]

\* end_offset / FWUP_BLOCK_SIZE is stored in an uint32_t.
gpt_write_run(cfg, size) == gpt_create_cfg(cfg, size % Wrap)
=============================================================================
