----------------------------- MODULE MCTilegrid -----------------------------
(***************************************************************************)
(* Five small devices for TilegridDerive.  A device is a list of columns   *)
(* of tiles, the same in each of its clock rows, and the list of the rows  *)
(* of its part from the top down; each clock row is three tiles high.  A   *)
(* column is [type, x, up, bits], up its place above the lower end of the  *)
(* row and bits a function of buses to <<column, frames, shape>>.          *)
(***************************************************************************)
EXTENDS TilegridDerive, TilegridSilicon

MCHalfHeight == 1
MCAnchors == [CLB_IO_CLK |-> {"INT_L", "INT_FEEDTHRU_2"}, BLOCK_RAM |-> {"BRAM_L"}]
MCHclkTypes == {"HCLK_L"}

Tile(type, x, up) == [type |-> type, x |-> x, up |-> up, bits |-> <<>>]
Fabric(type, x, up, column, frames, shape) ==
  [Tile(type, x, up) EXCEPT !.bits = [CLB_IO_CLK |-> <<column, frames, shape>>]]
Ram(x, column, shape, ramColumn, ramShape) ==
  [Tile("BRAM_L", x, 1) EXCEPT !.bits =
     [CLB_IO_CLK |-> <<column, 2, shape>>, BLOCK_RAM |-> <<ramColumn, 2, ramShape>>]]

Tall == <<<<"top", 1>>, <<"top", 0>>, <<"bottom", 0>>>>
Flat == <<<<"top", 0>>, <<"bottom", 0>>>>
Interconnect(x, column, frames) == Fabric("INT_L", x, 1, column, frames, "int")
Hclk == Tile("HCLK_L", 0, 1)

\* [family, rows, columns, frames], frames the counts by bus, left to right.
Device == <<
  \* Two interconnect columns, the second deeper than the first.  Its BRAM has
  \* an alias; nobody elsewhere votes on that.
  [family |-> "a", rows |-> Tall, frames |-> [CLB_IO_CLK |-> <<2, 3>>, BLOCK_RAM |-> <<2>>],
   columns |-> <<Hclk, Interconnect(2, 0, 2), Fabric("CLB", 1, 1, 0, 2, "old"), Interconnect(4, 1, 3),
                 Ram(5, 1, "bram", 0, "alias"), Fabric("IOI", 3, 0, 1, 3, "p"),
                 Fabric("IOI", 1, 0, 0, 2, "q")>>],
  \* Its CLB is told otherwise, and its IOIs are in another order.
  [family |-> "a", rows |-> Flat, frames |-> [CLB_IO_CLK |-> <<3, 2>>, BLOCK_RAM |-> <<2>>],
   columns |-> <<Hclk, Interconnect(2, 0, 3), Fabric("CLB", 1, 1, 0, 3, "new"), Interconnect(5, 1, 2),
                 Ram(6, 1, "bram", 0, "ram"), Fabric("IOI", 1, 0, 0, 3, "q"),
                 Fabric("IOI", 4, 0, 1, 2, "p")>>],
  \* A hard block hides the first interconnect column, which the part counts.
  [family |-> "a", rows |-> Flat, frames |-> [CLB_IO_CLK |-> <<2, 2, 2>>, BLOCK_RAM |-> <<2>>],
   columns |-> <<Hclk, Interconnect(3, 1, 2), Fabric("CLB", 2, 1, 1, 2, "new"), Interconnect(6, 2, 2),
                 Ram(7, 2, "bram", 0, "ram")>>],
  \* A feed-through holds a column, and there is no IOI.
  [family |-> "a", rows |-> Tall, frames |-> [CLB_IO_CLK |-> <<2, 3, 2>>, BLOCK_RAM |-> <<2>>],
   columns |-> <<Hclk, Interconnect(1, 0, 2), Tile("INT_FEEDTHRU_2", 3, 1), Interconnect(5, 2, 2),
                 Fabric("CLB", 4, 1, 2, 2, "old"), Ram(6, 2, "bram", 0, "ram")>>],
  \* The only device of its family: it has DSPs, and no BRAM in its fabric.
  [family |-> "b", rows |-> Flat, frames |-> [CLB_IO_CLK |-> <<2, 3>>, BLOCK_RAM |-> <<>>],
   columns |-> <<Hclk, Interconnect(2, 0, 2), Fabric("CLB", 1, 1, 0, 2, "new"), Interconnect(4, 1, 3),
                 Fabric("DSP", 6, 1, 1, 3, "dsp")>>]
  >>

MCDevices == DOMAIN Device
MCFamily == [d \in MCDevices |-> Device[d].family]
MCAstray == {3}

\* No list, every list of up to three devices, and lists that name one twice.
MCReferenceLists ==
  {<<>>} \cup {<<d>> : d \in MCDevices}
  \cup {r \in [1..2 -> MCDevices] \cup [1..3 -> MCDevices] : r[1] # r[2] /\ r[Len(r)] # r[Len(r) - 1]}

TileOf(d, row, column) ==
  LET c == Device[d].columns[column]
  IN  [type |-> c.type, x |-> c.x, y |-> 4 * row - c.up,
       bits |-> [bus \in DOMAIN c.bits |->
                   [half |-> Device[d].rows[row][1], row |-> Device[d].rows[row][2],
                    column |-> c.bits[bus][1], frames |-> c.bits[bus][2],
                    shape |-> c.bits[bus][3]]]]

\* The tiles by their names; a tile below the last row is in no clock row.
MCGrid == [d \in MCDevices |->
  LET width == Len(Device[d].columns)
      height == Len(Device[d].rows)
  IN  [t \in 0..(width * height) |->
         IF t = width * height THEN [type |-> "CLB", x |-> 1, y |-> 4 * height + 2, bits |-> <<>>]
         ELSE TileOf(d, (t \div width) + 1, (t % width) + 1)]]

MCPart == [d \in MCDevices |->
  LET rows == Range(Device[d].rows)
  IN  [rows |-> [half \in Halves |-> {r[2] : r \in {s \in rows : s[1] = half}}],
       frames |-> [k \in UNION {{<<r[1], r[2], bus, i - 1>> : i \in DOMAIN Device[d].frames[bus]}
                                : <<r, bus>> \in rows \X Buses}
                   |-> Device[d].frames[k[3]][k[4] + 1]]]]
-----------------------------------------------------------------------------
(* A part of a device for TilegridFull, in frames of 17 words: two pairs of  *)
(* interconnect columns, in the second of which a hard block takes the lower *)
(* half, an interface column, a clock column, and IOBs and IOIs.             *)
Placed(type, x, y) == [type |-> type, x |-> x, y |-> y]

\* y of the tiles of an interconnect column and their offsets, top to bottom.
Offsets == <<15, 13, 11, 10, 8, 6, 4, 2, 0>>
Column(x, int, hclk, top, bottom, rows) ==
  <<Placed(top, x, 0)>> \o [y \in 1..rows |-> Placed(IF y = 4 THEN hclk ELSE int, x, y)]
  \o <<Placed(bottom, x, rows + 1)>>
IoColumn(x, full, half, hclk) ==
  <<Placed(half, x, 1), Placed(full, x, 2), Placed(hclk, x, 3), Placed(full, x, 4),
    Placed(full, x, 5), Placed(half, x, 6)>>
IoOffsets == <<15, 11, 10, 6, 2, 0>>
IoWords == <<2, 4, 1, 4, 4, 2>>

\* A function as a table, which TLC builds once.
Kept(f) == f @@ <<>>

MCTilegridOf ==
  Column(2, "INT_L", "HCLK_L", "T_TERM_INT", "BRKH_INT", 9)
  \o Column(3, "INT_R", "HCLK_R", "BRKH_INT", "B_TERM_INT", 9)
  \o Column(4, "PCIE_INT_INTERFACE_L", "HCLK_INT_INTERFACE", "VBRK", "VBRK", 9)
  \o Column(5, "INT_L", "HCLK_L_BOT_UTURN", "T_TERM_INT", "PCIE_NULL", 4)
  \o Column(6, "INT_R", "HCLK_R_BOT_UTURN", "T_TERM_INT", "PCIE_NULL", 4)
  \o IoColumn(10, "LIOB33", "LIOB33_SING", "HCLK_IOB")
  \o IoColumn(11, "LIOI3", "LIOI3_SING", "HCLK_IOI3")
  \o <<Placed("CFG_CENTER_MID", 0, 2), Placed("VBRK", 1, 2), Placed("CLK_HROW_TOP_R", 8, 12),
       Placed("CLK_BUFG_REBUF", 8, 0), Placed("CLK_BUFG_REBUF", 8, 25)>>
MCInterfaces == {"GTP_INT_INTERFACE", "GTX_INT_INTERFACE_R", "PCIE_INT_INTERFACE_L"}
MCGtxInterfaces == {"GTX_INT_INTERFACE_R"}

\* The tiles are numbers, from the top of the first column on; in the order of
\* their names the lower ones are first.
InFile == [n \in DOMAIN MCTilegridOf |-> n]
MCOrder ==
  [p \in DOMAIN Following |->
     IF p \in {"int_lr", "iob_sing", "ioi_sing", "ioi_y9", "hclk_alias"} THEN InFile ELSE Reverse(InFile)]
MCWordCount == 17
MCRebufAt == [hrow |-> 5, over |-> 12, under |-> 1]
MCMaxFrames ==
  Kept([b \in {0} \X (2..11) |-> CASE b[2] \in {3, 6} -> 27 [] b[2] = 8 -> 30 [] OTHER -> 28])

\* The law of this device: the columns are numbered by x.
MCSilicon ==
  Kept([n \in {m \in DOMAIN MCTilegridOf : MCTilegridOf[m].type \notin
           {"T_TERM_INT", "BRKH_INT", "B_TERM_INT", "VBRK", "PCIE_NULL", "HCLK_IOB", "HCLK_IOI3",
            "HCLK_INT_INTERFACE"}} |->
     LET t == MCTilegridOf[n]
         at(offset, words, frames) ==
           Segment(<<0, t.x>>, Smaller(frames, MCMaxFrames[<<0, t.x>>]), offset, words)
     IN  CASE t.type = "CFG_CENTER_MID" -> Segment(<<0, 2>>, 28, 0, 17)
           [] t.type = "CLK_HROW_TOP_R" -> at(5, 4, 30)
           [] t.type = "CLK_BUFG_REBUF" -> at(IF t.y = 0 THEN 12 ELSE 1, 4, 30)
           [] t.x >= 10 -> at(IoOffsets[t.y], IoWords[t.y], 28)
           [] t.y = 4 /\ t.type \in Hclks -> at(10, 1, 26)
           [] OTHER -> at(Offsets[t.y], 2, 28)])

\* What was solved: one tile of each pair of interconnect columns and of the
\* interfaces, any one of one of these and a certain one of the others, or none;
\* and of the IO columns those above the bottom half, or any of the full tiles.
Of(xs, types) == {n \in DOMAIN MCSilicon : MCTilegridOf[n].x \in xs /\ MCTilegridOf[n].type \in types}
AtMostOne(S) == {{}} \cup {{n} : n \in S}
MCY9Tiles == {n \in DOMAIN MCTilegridOf : MCTilegridOf[n].x = 11 /\ MCTilegridOf[n].y = 4}
LowIo == {n \in DOMAIN MCTilegridOf : MCTilegridOf[n].x \in {10, 11} /\ MCTilegridOf[n].y \in {2, 5}}
MCSolvable ==
  LET fixed == Of({8}, {"CLK_HROW_TOP_R"})
      groups == {Of({2, 3}, Ints), Of({5, 6}, Ints), Of({4}, Interfaces)}
      certain == {CHOOSE n \in G : \A m \in G : n <= m : G \in groups}
  IN  {fixed \cup LowIo \cup (certain \ G) \cup a : <<G, a>> \in
         UNION {{<<G, a>> : a \in AtMostOne(G)} : G \in groups}}
      \cup {fixed \cup certain \cup S : S \in SUBSET Of({10, 11}, {"LIOB33", "LIOI3"})}
      \cup {certain \cup LowIo}
MCOwnSegbits == {"INT_L"}
MCLent ==
  [n \in DOMAIN MCTilegridOf |->
     CASE MCTilegridOf[n].type \in Hclks -> (0 :> 10)
       [] MCTilegridOf[n].y = 1 -> (0 :> 15) @@ (1 :> 16)
       [] OTHER -> (2 :> 0) @@ (3 :> 1)]
-----------------------------------------------------------------------------
(* Each behavior is one of the two programs.                                 *)
IdleFull ==
  /\ bits = [t \in AllTiles |-> {}] /\ alias = bits
  /\ pass = "idle" /\ left = <<>> /\ walks = <<>> /\ seen = {} /\ failed = FALSE
IdleDerive ==
  /\ target = 1 /\ others = {} /\ to_learn = <<>> /\ prefer = {} /\ allow = FALSE /\ borrow = FALSE
  /\ elsewhere = NoModel /\ model = NoModel /\ resolved = <<>> /\ derived = {} /\ pc = "idle"

MCInit == \/ Init /\ IdleFull
          \/ FullInit /\ IdleDerive
MCNext == \/ Next /\ UNCHANGED fullVars
          \/ FullNext /\ UNCHANGED vars
MCSpec == MCInit /\ [][MCNext]_<<vars, fullVars>>
=============================================================================
