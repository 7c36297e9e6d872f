----------------------------- MODULE MCUbootEnv -----------------------------
(* Small instances of UbootEnv for TLC.                                    *)
EXTENDS UbootEnv

\* The counters of two updates in a row, around the wraps of an unsigned and
\* of a signed byte, and the pair uboot_clearenv leaves.
AroundWraps == {<<f, (f + 1) % 256>> : f \in {0, 126, 127, 128, 253, 254, 255}} \cup {<<1, 1>>}

=============================================================================
