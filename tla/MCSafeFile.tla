----------------------------- MODULE MCSafeFile -----------------------------
(* Instances of SafeFile for TLC. *)
EXTENDS SafeFile

CONSTANTS r1, w1, w2

\* Texts of different lengths: a shorter text does not cover a longer one.
MCChunks == [t \in Owners |-> IF t = w1 THEN 3 ELSE 2]
=============================================================================
