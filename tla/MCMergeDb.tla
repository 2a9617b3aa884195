------------------------------ MODULE MCMergeDb -----------------------------
(* Instances of MergeDb for TLC.                                             *)
EXTENDS MergeDb

CONSTANTS m1, m2, m3

\* m1 and m2 push different entries; m3's entry claims m2's bits for m1's tag
\* and contradicts both.
MCNew == [m \in Mergers |-> CASE m = m1 -> {<<"t1", "b1">>, <<"t0", "b0">>}
                              [] m = m2 -> {<<"t2", "b2">>}
                              [] OTHER  -> {<<"t1", "b2">>}]
MCInitialDb == {<<"t0", "b0">>}
=============================================================================
