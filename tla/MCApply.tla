------------------------------ MODULE MCApply ------------------------------
(* Small instances of Apply for TLC.                                       *)
EXTENDS Apply, TLC

BothBuilds == BOOLEAN

\* Segment 0 holds the partition table or the U-Boot environment, 1 and 2 the
\* partition that is updated.  Segment s has the blocks 2 s and 2 s + 1.
ThreeSegs == 0 .. 2
SixBlocks == 0 .. 5
Halves == [b \in SixBlocks |-> b \div 2]

S(s) == [op |-> "stream", block |-> 2 * s]
W(s) == [op |-> "write", block |-> 2 * s]
V(s) == [op |-> "write", block |-> 2 * s + 1]
R(s) == [op |-> "read", block |-> 2 * s]
Full(s) == [op |-> "full", block |-> 2 * s + 1]
Error == [op |-> "error", block |-> 0]

MkTask(init, r1, r2, finish, error) ==
  [matches |-> TRUE, applicable |-> TRUE, described |-> TRUE, init |-> init,
   resources |-> IF r2 = <<>> THEN "r1" :> r1 ELSE "r1" :> r1 @@ "r2" :> r2,
   finish |-> finish, error |-> error]

\* Updates that stream, write pieces of segments, run out of space, or fail in
\* every event, with and without an error handler that works.
Tasks ==
  {MkTask(init, r1, r2, finish, error) :
     init \in {<<>>, <<W(1)>>},
     r1 \in {<<S(1)>>, <<S(1), W(2)>>, <<W(1), S(2), R(1)>>, <<W(2), Full(1)>>, <<S(1), Error>>},
     r2 \in {<<>>, <<S(2)>>},
     finish \in {<<W(0)>>, <<W(0), R(2)>>, <<W(0), V(2)>>, <<V(2), W(0)>>, <<W(0), Full(2)>>,
                 <<S(2), W(0)>>},
     error \in {<<V(1), W(0)>>, <<S(1), R(2), W(0)>>, <<W(0), Full(1)>>}}
Plain == MkTask(<<>>, <<S(1)>>, <<>>, <<W(0)>>, <<W(0)>>)
ManyTasks ==
  {<<t>> : t \in Tasks} \cup
  {<<[Plain EXCEPT !.applicable = FALSE], Plain>>, <<[Plain EXCEPT !.matches = FALSE]>>,
   <<[Plain EXCEPT !.described = FALSE]>>}

E(name, state) == [name |-> name, state |-> state]
ManyArchives == {<<E("r1", "usable"), E("r2", "usable")>>, <<E("r2", "usable"), E("r1", "usable")>>,
                 <<E("r1", "usable")>>, <<E("r2", "misfit"), E("r1", "misfit")>>,
                 <<E("r1", "usable"), E("r2", "malformed")>>}

============================================================================
