---------------------------- MODULE MCAlgorithms ----------------------------
(***************************************************************************)
(* The algorithms and data structures of fwup that work by themselves, one *)
(* at a time, on all small inputs: eval_math on token sequences, the       *)
(* partition tables on configurations and device sizes, fatfs_file_matches *)
(* on files and patterns, the trim vector on sequences of operations.  An  *)
(* input grows step by step or is chosen at the start; a configuration is  *)
(* checked when the archive is created and written when it is applied.     *)
(***************************************************************************)
EXTENDS EvalMath, Gpt, FileMatch, TrimVector

CONSTANTS MaxTokens, MaxFile      \* bounds

VARIABLES
  toks,    \* an expression, or No
  mbr,     \* [cfg, size, pc, out] of an mbr section, or No
  gpt,     \* the same of a gpt section
  search   \* [file, pattern], or No
input == <<toks, mbr, gpt, search>>
all == <<input, vector>>

No == <<>>
Tokens == DOMAIN Value \cup DOMAIN BinaryPrec \cup {"(", ")", "w"}

\* One primary partition, an extended one (or a second primary one), and up to
\* two logical ones, listed in every order.
Part(ix, type, offset, count, expand) ==
  [ix |-> ix, type |-> type, offset |-> offset, count |-> count, expand |-> expand]
First == {Part(0, 131, o, c, x) : o \in {1, 6}, c \in {0, 2}, x \in BOOLEAN}
Second == {Part(1, 15, 2, c, FALSE) : c \in {4, 7}}
          \cup {Part(1, 131, o, c, x) : o \in {3, 5}, c \in {0, 2, 7}, x \in BOOLEAN}
Third(ix) == {Part(ix, 131, o, c, x) : o \in 3 .. 7, c \in 1 .. 2, x \in {FALSE}}
             \cup {Part(ix, 131, 6, 1, TRUE)}
MbrCfgs == {<<a>> : a \in First}
           \cup {<<a, b>> : a \in First, b \in Second}
           \cup {<<a, b, c>> : a \in First, b \in Second, c \in Third(2) \cup Third(3)}
           \cup {<<a, b, c, e>> : a \in {Part(0, 131, 1, 1, FALSE), Part(0, 131, 1, 1, TRUE)}, b \in Second,
                                  c \in Third(2), e \in Third(3) \cup Third(4)}
           \cup {<<Part(1, 15, 1, 3, FALSE), b, c, e>> : b \in Third(2), c \in Third(3), e \in Third(4)}
           \cup {<<b, e, c>> : b \in Second, c \in Third(2), e \in Third(3)}
GptPart(ix) == {[ix |-> ix, offset |-> o, count |-> c, expand |-> x] :
                  o \in {2, 3, 4, 6}, c \in {0, 2, 3}, x \in BOOLEAN}
GptCfgs == {<<a>> : a \in GptPart(0)} \cup {<<a, b>> : a \in GptPart(1), b \in GptPart(0) \cup GptPart(2)}
           \cup {<<a, b, c>> : a \in GptPart(0), b \in GptPart(1),
                 c \in {p \in GptPart(2) : p.offset \in {4, 6} /\ p.count = 2}}
Files == UNION {[1 .. n -> {"a", "b"}] : n \in 0 .. MaxFile}
Patterns == UNION {[1 .. n -> {"a", "b"}] : n \in 0 .. BufLen}

Section(cfg, size) == [cfg |-> cfg, size |-> size, pc |-> "config", out |-> No]
NoInput == toks = No /\ mbr = No /\ gpt = No /\ search = No
StartInput ==
  \/ NoInput
  \/ toks \in {<<t>> : t \in Tokens} /\ mbr = No /\ gpt = No /\ search = No
  \/ toks = No /\ gpt = No /\ search = No /\ \E c \in MbrCfgs, n \in {0, 7, 11} : mbr = Section(c, n)
  \/ toks = No /\ mbr = No /\ search = No /\ \E c \in GptCfgs, n \in {0, 9, 12, 16 + 9} : gpt = Section(c, n)
  \/ toks = No /\ mbr = No /\ gpt = No /\ \E f \in Files, p \in Patterns : search = [file |-> f, pattern |-> p]

NextToken ==
  /\ toks # No /\ Len(toks) < MaxTokens
  /\ \E t \in Tokens : toks' = Append(toks, t)
  /\ UNCHANGED <<mbr, gpt, search>>

\* The sections are verified when the archive is created.
CreateMbr == /\ mbr # No /\ mbr.pc = "config"
             /\ mbr' = [mbr EXCEPT !.pc = IF mbr_verify_cfg(mbr.cfg) THEN "accepted" ELSE "refused"]
             /\ UNCHANGED <<toks, gpt, search>>
WriteMbr == /\ mbr # No /\ mbr.pc = "accepted"
            /\ mbr' = [mbr EXCEPT !.pc = "written", !.out = mbr_write_run(mbr.cfg, mbr.size)]
            /\ UNCHANGED <<toks, gpt, search>>
CreateGpt == /\ gpt # No /\ gpt.pc = "config"
             /\ gpt' = [gpt EXCEPT !.pc = IF gpt_verify_cfg(gpt.cfg) THEN "accepted" ELSE "refused"]
             /\ UNCHANGED <<toks, mbr, search>>
WriteGpt == /\ gpt # No /\ gpt.pc = "accepted"
            /\ gpt' = [gpt EXCEPT !.pc = "written", !.out = gpt_write_run(gpt.cfg, gpt.size)]
            /\ UNCHANGED <<toks, mbr, search>>
StepInput == (NextToken \/ CreateMbr \/ WriteMbr \/ CreateGpt \/ WriteGpt) /\ UNCHANGED vector
StepVector == NoInput /\ VectorNext /\ UNCHANGED input
AllInit == StartInput /\ block_cache_init
AllNext == StepInput \/ StepVector
AllSpec == AllInit /\ [][AllNext]_all

----------------------------------------------------------------------------
(* eval_math                                                               *)

\* A parenthesis where an expression has none: "(" behind an operand, ")"
\* behind an operator or "(".  eval_math takes some of those.
Operand(t) == t \in DOMAIN Value \cup DOMAIN Multiplier \cup {")"}
OddParenthesis(ts) == \E i \in 2 .. Len(ts) : \/ ts[i] = "(" /\ Operand(ts[i - 1])
                                              \/ ts[i] = ")" /\ ~Operand(ts[i - 1])

\* A token sequence that is an expression has one meaning, and eval_math
\* returns it: precedence, associativity of "^" and "-", suffixes, division
\* towards zero, and an error exactly where a division or power is undefined.
\* Whatever is not an expression, but for odd parentheses, is refused.
EvalExact ==
  toks # No =>
    /\ Sum(toks) # {} => Sum(toks) = {eval_math(toks)}
    /\ ~OddParenthesis(toks) /\ eval_math(toks).defined => Sum(toks) # {}


----------------------------------------------------------------------------
(* mbr_write                                                               *)

ByIx(cfg, ixs) == {cfg[i] : i \in {j \in DOMAIN cfg : cfg[j].ix \in ixs}}
Logicals(cfg) == ByIx(cfg, Primary .. MaxParts - 1)

\* Written as asked for: at the offset of fwup.conf, and no smaller.
Matches(e, p) == /\ e.type = p.type /\ e.offset = p.offset
                 /\ IF p.expand \/ is_extended_type(p.type) THEN e.count >= EntryOf(p).count ELSE e.count = p.count

\* What the code does not check: that the logical partitions are listed in
\* their order (num_extended_partitions comes from the last section), that none
\* starts on its own boot record, and that an empty partition which expands does
\* not meet another (mbr_create refuses, mbr_write then succeeds with nothing
\* written).
MbrSound(cfg) ==
  /\ \A i, j \in DOMAIN cfg : i < j /\ cfg[i].ix >= Primary => cfg[i].ix < cfg[j].ix
  /\ \A i \in DOMAIN cfg : cfg[i].expand => cfg[i].count > 0
  /\ \A i \in DOMAIN cfg : cfg[i].ix >= Primary => mbr_cfg_to_partitions(cfg).parts[cfg[i].ix].record # cfg[i].offset

\* Once written, a reader of the device finds each partition of fwup.conf where
\* it was put: the primary ones in block 0 (and not one of the logical
\* partitions' boot records there), the logical ones along the chain of boot
\* records.
MbrReadsBack ==
  mbr # No /\ mbr.pc = "written" /\ MbrSound(mbr.cfg) =>
    LET disk == mbr.out.disk
        logicals == Logicals(mbr.cfg)
    IN  /\ 0 \in DOMAIN disk
        /\ \A p \in ByIx(mbr.cfg, 0 .. Ext) : Matches(disk[0][p.ix + 1], p)
        /\ logicals # {} => /\ Len(Chain(disk)) = Cardinality(logicals)
                            /\ \A p \in logicals : Matches(Chain(disk)[p.ix - Primary + 1], p)

\* No two partitions on the device share a block, logical partitions are inside
\* the extended one, and no boot record is inside a partition.
Blocks(e) == e.offset .. e.offset + e.count - 1
MbrDisjoint ==
  mbr # No /\ mbr.pc = "written" /\ MbrSound(mbr.cfg) =>
    LET disk == mbr.out.disk
        main == {i \in 1 .. Primary : disk[0][i].type # 0}
        chain == IF ExtEntry(disk) = NoEntry THEN <<>> ELSE Chain(disk)
        plain == {disk[0][i] : i \in {j \in main : ~is_extended_type(disk[0][j].type)}}
    IN  /\ \A i, j \in main : i # j => Blocks(disk[0][i]) \cap Blocks(disk[0][j]) = {}
        /\ \A i, j \in DOMAIN chain : i # j => Blocks(chain[i]) \cap Blocks(chain[j]) = {}
        /\ \A i \in DOMAIN chain : Blocks(chain[i]) \subseteq Blocks(ExtEntry(disk))
        /\ \A b \in DOMAIN disk \ {0} :
             \A e \in plain \cup {chain[i] : i \in DOMAIN chain} : b \notin Blocks(e)

\* mbr_write writes what fwup.conf asks for, and nothing that overlaps.
MbrTables == MbrReadsBack /\ MbrDisjoint

----------------------------------------------------------------------------
(* gpt_write                                                               *)

\* What the code does not check: that the device is large enough (and has less
\* than Wrap blocks), that no partition lies on the first table, and that the
\* partition that expands is the last one on the device.
GptSound(s) ==
  /\ s.size < Wrap /\ (s.size = 0 \/ \A i \in DOMAIN s.cfg : End(s.cfg[i]) + GptSize <= s.size)
  /\ \A i \in DOMAIN s.cfg : s.cfg[i].offset >= 1 + GptSize
  /\ \A i, j \in DOMAIN s.cfg : s.cfg[i].expand /\ i # j => s.cfg[j].offset < s.cfg[i].offset

\* With that, the two tables and the partitions share no block of the device,
\* before and after a partition was expanded to its size.
GptDisjoint ==
  gpt # No /\ gpt.pc = "written" /\ GptSound(gpt) =>
    LET out == gpt.out
        table == out.secondary.table
        header == out.primary.header
        n == out.num_blocks
    IN  /\ \A i \in DOMAIN table : table[i].first <= table[i].last =>
             header.first_usable <= table[i].first /\ table[i].last <= header.last_usable
        /\ \A i, j \in DOMAIN table : i # j =>
             (table[i].first .. table[i].last) \cap (table[j].first .. table[j].last) = {}
        /\ header.first_usable > 1 + TableBlocks /\ header.last_usable < out.secondary.at
        /\ out.secondary.at + TableBlocks = out.secondary.header.current

\* The two headers point at each other and at their own tables, and the
\* partition that expands takes all but one block of the room there is.
GptMirrored ==
  gpt # No /\ gpt.pc = "written" /\ GptSound(gpt) =>
    LET out == gpt.out
        one == out.primary.header
        two == out.secondary.header
    IN  /\ one.backup = two.current /\ two.backup = one.current
        /\ one.table = one.current + 1 /\ two.table = out.secondary.at
        /\ two.table + TableBlocks = two.current /\ out.primary.table = out.secondary.table
        /\ \A i \in DOMAIN gpt.cfg : gpt.cfg[i].expand =>
             out.primary.table[gpt.cfg[i].ix].last >= one.last_usable - 1

\* gpt_write writes two tables that agree, and nothing that overlaps.
GptTables == GptMirrored /\ GptDisjoint

----------------------------------------------------------------------------
(* fatfs_file_matches                                                      *)

\* In a file of one buffer the pattern is found exactly if it is there; in one
\* that is read in two passes nothing is found that is not there.
MatchExact ==
  search # No =>
    LET found == fatfs_file_matches(search.file, search.pattern)
        there == Within(search.pattern, search.file)
    IN  /\ Len(search.file) <= BufLen /\ Len(search.pattern) < BufLen => found = there
        /\ Len(search.file) <= 2 * BufLen - Len(search.pattern) + 1 => (found => there)
=============================================================================
