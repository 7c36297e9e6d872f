---------------------------- MODULE MCFatSession ----------------------------
(* Small instances of FatSession for TLC: more file systems than slots, and *)
(* resources with a hole at the start and at the end.                     *)
EXTENDS FatSession
CONSTANTS d, e
Sparse == {<<Hole, d>>, <<e, Hole>>}
Symmetric == {p @@ q : p \in Permutations(Offsets), q \in Permutations(Names)}
=============================================================================
