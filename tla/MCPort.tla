------------------------------- MODULE MCPort -------------------------------
(* All streams of at most MaxLen units. *)
EXTENDS Port
CONSTANT MaxLen
ShortStreams == UNION {[1 .. n -> 0 .. Base - 1] : n \in 0 .. MaxLen}
=============================================================================
