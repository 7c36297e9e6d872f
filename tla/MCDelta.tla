------------------------------ MODULE MCDelta ------------------------------
(***************************************************************************)
(* Patches of one or two windows, and partitions that share a segment or   *)
(* do not.                                                                 *)
(***************************************************************************)
EXTENDS Delta

Layout(src, count, dst, last, src_key, dst_key) ==
  [src |-> src, count |-> count, dst |-> dst, last |-> last, src_key |-> src_key, dst_key |-> dst_key]
AllLayouts == {Layout(s, n, d, 12, k, e) : s \in {0, 1}, n \in {3, 4}, d \in {4, 5, 6}, k \in BOOLEAN, e \in BOOLEAN}
Disjoint == {l \in AllLayouts : l.src + l.count <= l.dst}
Patch(ops, ends) == [ops |-> ops, ends |-> ends]
AllPatches == {Patch(<<3, 0, 2, 1>>, <<4>>), Patch(<<New>>, <<1>>), Patch(<<0, New, 3, 2, 3, 1>>, <<3, 6>>),
               Patch(<<2, New, 0, 0>>, <<1, 4>>), Patch(<<1, 0, 2, New, 2>>, <<2, 5>>), Patch(<<New, 2, 0>>, <<3>>)}
=============================================================================
