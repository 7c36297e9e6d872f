----------------------------- MODULE MCResource -----------------------------
(* Small instances of Resource for TLC.                                    *)
EXTENDS Resource

\* All files of up to five bytes, all pairs of files of up to three, and all
\* triples of files of up to one.
FilesUpTo(n) == BoundedSeq(BOOLEAN, n)
ManyPaths ==
  {<<f>> : f \in FilesUpTo(5)} \cup {<<f, g>> : f, g \in FilesUpTo(3)}
    \cup {<<f, g, h>> : f, g, h \in FilesUpTo(1)}
AllSinks == {"raw", "path", "pipe", "fat", "ubi"}

=============================================================================
