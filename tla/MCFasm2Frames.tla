---------------------------- MODULE MCFasm2Frames -----------------------------
(* An instance of Fasm2Frames for TLC: an interconnect tile and a logic tile  *)
(* that share frames and words, the logic tile one frame wider, a block RAM   *)
(* without the segment of its contents, and three IOB tiles of two banks, one *)
(* of which goes by another name in package_pins.csv; the last word of their  *)
(* HCLK tile is beyond the frame.                                             *)
EXTENDS Fasm2Frames, TLC

MCTiles == {"INT", "CLB", "BRAM", "IOB1", "IOB2", "IOB18", "HCLK"}

Segment(base_address, frame_count, offset, words) ==
  [base_address |-> base_address, frames |-> frame_count, offset |-> offset, words |-> words]

MCTileBits ==
  [INT   |-> [CLB_IO_CLK |-> Segment(0, 1, 0, 1)],
   CLB   |-> [CLB_IO_CLK |-> Segment(0, 2, 0, 1)],
   BRAM  |-> [CLB_IO_CLK |-> Segment(0, 1, 1, 2)],
   IOB1  |-> [CLB_IO_CLK |-> Segment(4, 1, 0, 1)],
   IOB2  |-> [CLB_IO_CLK |-> Segment(4, 1, 1, 1)],
   IOB18 |-> [CLB_IO_CLK |-> Segment(5, 1, 0, 1)],
   HCLK  |-> [CLB_IO_CLK |-> Segment(5, 1, 2, 2)]]

On(column, index) == [column |-> column, word |-> 0, index |-> index, isset |-> TRUE]
Off(column, index) == [column |-> column, word |-> 0, index |-> index, isset |-> FALSE]
OnLast(column, index) == [column |-> column, word |-> 1, index |-> index, isset |-> TRUE]

Name(site, tag) == <<<<site, tag>>, NoAddress>>

\* The bits of an IOB site: an input, an output, and the pull type; a strong
\* output must not step down.
IobBits(site, i) ==
  Name(site, "IN") :> {On(0, i)} @@ Name(site, "DRIVE") :> {On(0, i + 1), Off(0, i + 2)} @@
  Name(site, "STEPDOWN") :> {On(0, i + 2)} @@ Name(site, "PULLUP") :> {On(0, i + 3)} @@
  Name(site, "PULLDOWN") :> {Off(0, i + 3)}

SegbitsByTile ==
  [INT  |-> [CLB_IO_CLK |-> (Name("MUX", "A") :> {On(0, 0)} @@
                             Name("MUX", "B") :> {Off(0, 0), On(0, 1)} @@
                             Name("GFAN0", "GND_WIRE") :> {On(0, 2)})],
   CLB  |-> [CLB_IO_CLK |-> (<<<<"LUT", "INIT">>, 0>> :> {On(1, 0)} @@
                             <<<<"LUT", "INIT">>, 1>> :> {On(1, 1)} @@
                             Name("FF", "") :> {On(1, 0), On(1, 1)} @@
                             Name("ODD", "") :> {On(1, 0), Off(1, 0)} @@
                             Name("LATCH", "") :> {Off(1, 0)} @@
                             Name("GFAN_TIE", "") :> {On(0, 2)})],
   BRAM |-> [CLB_IO_CLK |-> (Name("EN", "") :> {On(0, 0), OnLast(0, 0)}),
             BLOCK_RAM |-> (<<<<"RAM", "INIT">>, 1>> :> {On(0, 0)})],
   IOB1 |-> [CLB_IO_CLK |-> IobBits("IOB_Y0", 0) @@ IobBits("IOB_Y1", 4)],
   IOB2 |-> [CLB_IO_CLK |-> IobBits("IOB_Y0", 0) @@ IobBits("IOB_Y1", 4)],
   IOB18 |-> [CLB_IO_CLK |-> IobBits("IOB_Y0", 0) @@ IobBits("IOB_Y1", 4) @@
                Name("IOB_Y0", "SLEW") :> {On(0, 8)} @@ Name("IOB_Y1", "SLEW") :> {On(0, 9)} @@
                Name("IOB_Y0", "OBUF_GLUE") :> {On(0, 10)} @@
                Name("IOB_Y0", "IBUF_GLUE") :> {On(0, 11)}],
   HCLK |-> [CLB_IO_CLK |-> (Name("STEPDOWN", "") :> {On(0, 0), OnLast(0, 0)})]]

\* The same, as functions that TLC keeps sorted by their domains.
MCSegbits ==
  [t \in MCTiles |-> [b \in DOMAIN SegbitsByTile[t] |->
     [name \in DOMAIN SegbitsByTile[t][b] |-> SegbitsByTile[t][b][name]]]]

MCPpips == [t \in MCTiles |-> IF t = "INT" THEN {<<"ALWAYS", "">>} ELSE {}]

Line(tile, site, tag, address) == [tile |-> tile, feature |-> <<site, tag>>, address |-> address]

MCFileLines ==
  { Line("INT", "MUX", "A", 0), Line("INT", "MUX", "B", 0), Line("CLB", "FF", "", 0),
    Line("CLB", "ODD", "", 0), Line("BRAM", "EN", "", 0),
    Line("BRAM", "RAM", "INIT", 1), Line("NONE", "IN", "", 0),
    Line("IOB1", "IOB_Y0", "STEPDOWN", 0), Line("IOB1", "IOB_Y1", "DRIVE", 0),
    Line("IOB2", "IOB_Y1", "STEPDOWN", 0), Line("IOB18", "IOB_Y1", "DRIVE", 0),
    Line("IOB18", "IOB_Y0", "PULLUP", 0), Line("INT", "GFAN0", "GND_WIRE", 0) }

MCLines ==
  MCFileLines \cup {Line(t, site, tag, 0) : t \in {"IOB1", "IOB2", "IOB18"}, site \in Sites,
      tag \in {"IN", "PULLUP", "PULLDOWN", "STEPDOWN", "SLEW", "OBUF_GLUE", "IBUF_GLUE", "IBUFDS_GLUE"}}
    \cup {Line("HCLK", "STEPDOWN", "", 0), Line("CLB", "GFAN_TIE", "", 0)}
    \cup {Line("INT", site, "", 0) : site \in {"CASCADE", "ACTIVE"}}

\* Bitstreams of any origin: two bits in each word of the logic tiles, one in each
\* word of the block RAM, and one in a word of no tile.
MCBitstreams ==
  SUBSET (({0, 1} \X {0} \X {0, 1}) \cup {<<0, 1, 0>>, <<0, 2, 0>>, <<1, 1, 0>>})

MCRows == << <<"HCLK", "b1">>, <<"IOB1", "b1">>, <<"IOB2package", "b1">>, <<"IOB18", "b2">> >>
MCGridOrder == <<"INT", "CLB", "BRAM", "IOB1", "IOB2", "IOB18", "HCLK">>
MCPrefixY ==
  [t \in MCTiles \cup {"IOB2package", "NONE"} |-> IF t = "IOB2package" THEN "IOB2" ELSE t]
MCMirror == [t \in {"INT"} |-> "CLB"]
MCPudcSites == {<<"IOB1", "IOB_Y0">>, <<"IOB18", "IOB_Y0">>}
=============================================================================
