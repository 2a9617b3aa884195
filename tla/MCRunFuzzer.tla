--------------------------- MODULE MCRunFuzzer -----------------------------
(* Instance of RunFuzzer for TLC.                                            *)
(*                                                                           *)
(* Two tiles of one type and one that has no bits; a site in each of the two *)
(* has feature A, B or Z.  A and B share a bit, Z has none.  The first tile  *)
(* has a feature N as well.  A tile has a block of either type.              *)
EXTENDS RunFuzzer

Block(offset) == [base |-> 0, offset |-> offset, words |-> 1, frames |-> 26]
Blocks(offset) == [CLB_IO_CLK |-> Block(offset), BLOCK_RAM |-> [Block(offset) EXCEPT !.base = 128]]
Tile(name, sites, bits) == [name |-> name, type |-> "BRAM", sites |-> sites, bits |-> bits]
MCGrid == << Tile("T1", <<"S1">>, Blocks(0)), Tile("T2", <<"S2">>, Blocks(2)),
             Tile("T3", <<>>, <<>>) >>
MCSiteKey == [s \in {"S1", "S2"} |-> "S"]
MCIgnored == {<<1, 30>>}

A == <<"S", "A">>
B == <<"S", "B">>
Z == <<"S", "Z">>
N == <<"", "N">>
MCTruth == (A :> {<<25, 1>>, <<0, 2>>}) @@ (B :> {<<24, 1>>, <<0, 2>>}) @@ (Z :> {})
           @@ (N :> {<<22, 7>>})

\* The bits of a value in the tile at an offset, with one that is filtered.
BitsAt(tag, offset) ==
  {<<b[1], offset, b[2]>> : b \in MCTruth[tag] \cup {<<1, 30>>}}

\* Values v and w of the two sites, and whether tile T1 has N.
Design(v, w, n) ==
  [bt |-> "CLB_IO_CLK",
   bits |-> BitsAt(<<"S", v>>, 0) \cup BitsAt(<<"S", w>>, 2) \cup (IF n THEN BitsAt(N, 0) ELSE {}),
   tags |-> GroupZeroTags("S1", {"A", "B", "Z"}, "Z", v)
            @@ GroupZeroTags("S2", {"A", "B", "Z"}, "Z", w)
            @@ (<<"T1", "N">> :> n) @@ (<<"T3", "N">> :> TRUE)]

\* A design with two bits more in a tile, of a feature that nobody records.
WithOthers(d, offset) ==
  [d EXCEPT !.bits = @ \cup {<<3, offset, 7>>, <<4, offset, 7>>}]

\* A design with a tag for a tile that is not there, which segmaker asserts it is.
Misnamed(d) == [d EXCEPT !.tags = @ @@ (<<"T9", "N">> :> TRUE)]

\* A design without the features that have no bits, as clb.mk wants it.
Plainly(v, w, n) ==
  [bt |-> "CLB_IO_CLK",
   bits |-> Design(v, w, n).bits,
   tags |-> [x \in {<<"S1", "A">>, <<"S2", "A">>, <<"T1", "N">>, <<"T2", "N">>} |->
               CASE x[1] = "S1" -> v = "A" [] x[1] = "S2" -> w = "A"
                 [] x[1] = "T1" -> n [] OTHER -> FALSE]]

MCDesigns ==
  (1 :> Design("A", "Z", TRUE)) @@ (2 :> Design("B", "Z", FALSE)) @@ (3 :> Design("Z", "A", FALSE))
  @@ (4 :> Plainly("A", "Z", TRUE)) @@ (5 :> Plainly("Z", "A", FALSE))
  @@ (6 :> WithOthers(Design("A", "Z", FALSE), 0)) @@ (7 :> Misnamed(Design("B", "Z", FALSE)))

MCBatches ==
  [k \in Kinds |-> IF k = "clb" THEN {{4}, {5}, {4, 5}}
                   ELSE IF k = "int" THEN {{2}, {3}, {6}, {1, 2, 3}}
                   ELSE {{1}, {1, 2}, {1, 2, 3}, {1, 7}}]

MatchArg(m, M, c) == [m |-> m, M |-> M, c |-> c]
MCMatchArgs == [k \in Kinds |-> MatchArg(1, 2, IF k \in {"clb", "int"} THEN 4 ELSE 2)]

MCZeroDb ==
  [k \in Kinds |->
     CASE k = "clb_fix" -> << Caret({A}, Z) >>
       [] k = "clb_ext" -> << Plain({<<25, 1>>, <<24, 1>>, <<0, 2>>}, {Z}) >>
       [] k = "int" -> << Pair({<<0, 2>>}, {<<0, 5>>}) >>
       [] OTHER -> << Plain({<<22, 7>>, <<23, 7>>}, {}) >>]
MCTagGroups == {{A, B}}

MCPips == {A, B}
MCFiltered == {B}
MCSliceM == {B}

\* Nothing, or what an earlier fuzzer has found of A.
MCInitialDbs == { [t \in Targets |-> {}],
                  [t \in Targets |-> IF t \in {"clbll", "int"}
                                     THEN {Line(A, Set(MCTruth[A]), None)} ELSE {}] }

Args(zero, timeout, most, least, progress) ==
  [zero_entries |-> zero, timeout_iters |-> timeout, max_iters |-> most,
   min_iters |-> least, min_progress |-> progress]

\* As in the Makefiles of the pip fuzzers, with smaller numbers.
MCCheckArgs == { Args(TRUE, {2}, {}, {}, {}), Args(TRUE, {2}, {}, {2}, {0}),
                 Args(FALSE, {}, {3}, {}, {0}), Args(FALSE, {}, {}, {}, {0}) }
=============================================================================
