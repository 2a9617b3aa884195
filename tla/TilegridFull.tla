---------------------------- MODULE TilegridFull ----------------------------
(***************************************************************************)
(* fuzzers/005-tilegrid: add_tdb.py and generate_full.py.  The fuzzers of  *)
(* the kinds of tiles have solved where the bits of some tiles are.  From  *)
(* these, pass by pass over the grid, the other tiles of their columns get *)
(* theirs, and half tiles and others without a fuzzer of their own borrow  *)
(* the segbits of another type (prjxray/grid.py, tile_segbits_alias.py).   *)
(*                                                                         *)
(* Only CLB_IO_CLK bits are propagated.  A base address is <<row, column>>,*)
(* grid_y grows downwards, and a dict entry that need not be there is a    *)
(* set with at most one element.                                           *)
(***************************************************************************)
EXTENDS Integers, SequencesExt

CONSTANTS
  Tilegrid,    \* Tilegrid[t]: type, x and y of a tile
  Order,       \* Order[p]: the tiles in the order in which the loops of pass p come to
               \* them, that of tilegrid.json, of the names or of XRAY_IOI3_TILES
  Interfaces,  \* types that begin with GTP_, GTX_ or PCIE_INT_INTERFACE
  GtxInterfaces,  \* those of GTX
  Silicon,     \* Silicon[t]: where the bits of t really are, for the tiles that
               \* have some
  Solvable,    \* sets of tiles that the fuzzers can have solved
  MaxFrames,   \* the frames of each column in part.json
  WordCount,   \* words of a frame, 101
  RebufAt,     \* offsets of CLK_HROW and of the REBUF tiles above and below it
  Y9Tiles,     \* XRAY_IOI3_TILES
  Y9Offset,    \* 18
  OwnSegbits,  \* types with a segbits database of their own
  Lent         \* Lent[t]: for a tile that has no segbits of its own, the words of a
               \* tile of the other type that t has, and where t has them

VARIABLES
  bits,    \* bits[t]: [base, frames, offset, words] in database[t]["bits"]
  alias,   \* alias[t]: [type, start_offset] in that
  pass,    \* the function that runs, "done" when the grid is saved
  left,    \* tiles that it has still to come to
  walks,   \* walks up or down a column that it has still to make
  seen,    \* seen_int, seen_iobs or seen_iois
  failed   \* an assertion or a look-up has failed

fullVars == <<bits, alias, pass, left, walks, seen, failed>>

AllTiles == DOMAIN Tilegrid
Type(t) == Tilegrid[t].type
TileAt(x, y) == {t \in AllTiles : Tilegrid[t].x = x /\ Tilegrid[t].y = y}
Down == 1
Up == -1
Beyond(t, way, steps) == TileAt(Tilegrid[t].x, Tilegrid[t].y + steps * way)

Ints == {"INT_L", "INT_R"}
HclkOf == [INT_L |-> {"HCLK_L", "HCLK_L_BOT_UTURN"}, INT_R |-> {"HCLK_R", "HCLK_R_BOT_UTURN"}]
Hclks == HclkOf["INT_L"] \cup HclkOf["INT_R"]
HclkNamed == Hclks \cup {"HCLK_INT_INTERFACE"}
EndsOf == [way \in {Down, Up} |->
  IF way = Down THEN {"B_TERM_INT", "BRKH_INT", "BRKH_B_TERM_INT"}
  ELSE {"T_TERM_INT", "BRKH_INT", "BRKH_TERM_INT", "BRKH_INT_PSS"}]
Hrows == {"CLK_HROW_BOT_R", "CLK_HROW_TOP_R"}
Iobs == {"LIOB33", "RIOB33", "LIOB18", "RIOB18"}
Iois == {"LIOI3", "RIOI3", "LIOI", "RIOI"}
IoiNamed == Iois \cup {"LIOI3_TBYTESRC", "LIOI3_TBYTETERM", "RIOI3_TBYTESRC", "RIOI3_TBYTETERM",
                       "LIOI_TBYTESRC", "LIOI_TBYTETERM", "RIOI_TBYTESRC", "RIOI_TBYTETERM"}
IobSings == {"LIOB33_SING", "RIOB33_SING", "LIOB18_SING", "RIOB18_SING"}
Sings == IobSings \cup {"LIOI3_SING", "RIOI3_SING", "LIOI_SING", "RIOI_SING"}
LastOffset == WordCount - 2

\* run, pass by pass; the calls for GTP, GTX and PCIE, each with columns of its
\* own, are one pass that has the tiles of the one before those of the next.
Following == [int_lr |-> "int_column", int_column |-> "interface", interface |-> "rebuf",
              rebuf |-> "iob_sing", iob_sing |-> "ioi_sing", ioi_sing |-> "ioi_y9",
              ioi_y9 |-> "cfg", cfg |-> "hclk_alias", hclk_alias |-> "done"]

ASSUME FullAssumption ==
  /\ \A p \in DOMAIN Following :
       /\ Order[p] \in Seq(AllTiles) /\ Range(Order[p]) = AllTiles
       /\ \A i, j \in DOMAIN Order[p] : Order[p][i] = Order[p][j] => i = j
  /\ GtxInterfaces \subseteq Interfaces
  /\ Interfaces \cap (Ints \cup HclkNamed \cup Hrows \cup Iobs \cup IoiNamed \cup Sings
                     \cup {"CFG_CENTER_MID", "CLK_BUFG_REBUF"}) = {}
  /\ DOMAIN Silicon \subseteq AllTiles /\ Y9Tiles \subseteq AllTiles
  /\ \A S \in Solvable : S \subseteq DOMAIN Silicon
  /\ \A t \in AllTiles : Tilegrid[t].x \in Nat /\ Tilegrid[t].y \in Nat
  /\ \A t, u \in AllTiles : t = u \/ Tilegrid[t].x # Tilegrid[u].x \/ Tilegrid[t].y # Tilegrid[u].y
-----------------------------------------------------------------------------
(* util.py.                                                                  *)
Smaller(m, n) == IF m < n THEN m ELSE n
Segment(base, frames, offset, words) ==
  [base |-> base, frames |-> frames, offset |-> offset, words |-> words]

\* get_entry: frames and words.
IntEntry == [frames |-> 28, words |-> 2]
HclkEntry == [frames |-> 26, words |-> 1]

\* What add_tile_bits records: no more frames than the column has.
Capped(b) == [b EXCEPT !.frames = Smaller(@, MaxFrames[b.base])]

\* The assertions of add_tile_bits; what is known of a tile must agree.
Fits(t, b) ==
  /\ b.base \in DOMAIN MaxFrames
  /\ b.offset >= 0 \/ Type(t) \in Iobs \cup IobSings \cup GtxInterfaces
  /\ b.words >= 1 /\ b.offset + b.words <= WordCount
  /\ bits[t] \subseteq {Capped(b)}

AddTileBits(t, b) ==
  IF Fits(t, b) THEN bits' = [bits EXCEPT ![t] = {Capped(b)}] /\ UNCHANGED failed
  ELSE failed' = TRUE /\ UNCHANGED bits
-----------------------------------------------------------------------------
FullInit ==
  /\ bits = [t \in AllTiles |-> {}] /\ alias = [t \in AllTiles |-> {}]
  /\ pass = "add_tdb" /\ left = <<>> /\ walks = <<>> /\ seen = {} /\ failed = FALSE

\* add_tdb.py: tags that segmatch could not resolve are skipped.
AddTdb ==
  /\ pass = "add_tdb"
  /\ \E solved \in Solvable :
       bits' = [t \in AllTiles |-> IF t \in solved THEN {Capped(Silicon[t])} ELSE {}]
  /\ pass' = "int_lr" /\ left' = Order["int_lr"]
  /\ UNCHANGED <<alias, walks, seen, failed>>

Lateral(t) == TileAt(Tilegrid[t].x + (IF Type(t) = "INT_L" THEN 1 ELSE -1), Tilegrid[t].y)

\* The tiles that a pass does not skip.
Wanted(t) ==
  CASE pass = "int_lr"     -> Type(t) \in Ints /\ bits[t] # {} /\ Lateral(t) # {}
    [] pass = "int_column" -> Type(t) \in Ints /\ bits[t] # {} /\ t \notin seen
    [] pass = "interface"  -> Type(t) \in Interfaces /\ bits[t] # {} /\ t \notin seen
    [] pass = "rebuf"      -> Type(t) \in Hrows
    [] pass = "iob_sing"   -> Type(t) \in Iobs /\ t \notin seen
    [] pass = "ioi_sing"   -> Type(t) \in Iois /\ t \notin seen
    [] pass = "ioi_y9"     -> t \in Y9Tiles
    [] pass = "cfg"        -> Type(t) = "CFG_CENTER_MID" /\ bits[t] = {}
    [] OTHER               -> Type(t) \in {"HCLK_L_BOT_UTURN", "HCLK_R_BOT_UTURN"}

Running == ~ failed /\ walks = <<>> /\ pass \in DOMAIN Following

\* The tile that the loop of this pass comes to next, if any.
NextTile ==
  LET wanted == {i \in DOMAIN left : Wanted(left[i])}
  IN  IF Running THEN {left[i] : i \in {j \in wanted : \A k \in wanted : j <= k}} ELSE {}

NextPass ==
  /\ Running /\ NextTile = {}
  /\ pass' = Following[pass] /\ seen' = {}
  /\ left' = IF Following[pass] = "done" THEN <<>> ELSE Order[Following[pass]]
  /\ UNCHANGED <<bits, alias, walks, failed>>

\* The loop of pass p comes to tile t.
Reaches(p, t) ==
  /\ pass = p
  /\ \E i \in {j \in DOMAIN left : left[j] = t} : left' = SubSeq(left, i + 1, Len(left))
  /\ UNCHANGED pass

\* propagate_INT_lr_bits: the columns of INT_L and INT_R are next to each other.
LeftRight(t) ==
  /\ Reaches("int_lr", t)
  /\ \E other \in Lateral(t), b \in bits[t] :
       IF Type(other) \in Ints \ {Type(t)}
       THEN AddTileBits(other,
              Segment(<<b.base[1], b.base[2] + (IF Type(t) = "INT_L" THEN 1 ELSE -1)>>,
                      IntEntry.frames, b.offset, IntEntry.words))
       ELSE failed' = TRUE /\ UNCHANGED bits
  /\ UNCHANGED <<alias, walks, seen>>

\* propagate_INT_bits_in_column goes down first, and up again from where it got
\* to; propagate_INT_INTERFACE_bits_in_column goes both ways from the same tile.
StartWalk(t) ==
  /\ \/ Reaches("int_column", t) /\ walks' = <<<<t, Down>>>>
     \/ Reaches("interface", t) /\ walks' = <<<<t, Down>>, <<t, Up>>>>
  /\ UNCHANGED <<bits, alias, seen, failed>>
-----------------------------------------------------------------------------
(* A walk is at tile t and goes on with the tile beyond it.                  *)
Walking(p, t) ==
  /\ ~ failed /\ pass = p
  /\ seen' = seen \cup {t}
  /\ UNCHANGED <<alias, pass, left>>

AtEnd(t, way) == \E b \in bits[t] : b.offset = (IF way = Down THEN 0 ELSE LastOffset)

Turned(t, way) == IF way = Down THEN <<<<t, Up>>>> ELSE <<>>

\* The last INT of the clock row has a tile beyond it that ends the column, or,
\* going down, the HCLK tile one that is not an INT.
EndColumn(t, way) ==
  /\ Walking("int_column", t)
  /\ \A n \in Beyond(t, way, 1) : AtEnd(t, way) \/ (Type(t) \in Hclks /\ Type(n) \notin Ints)
  /\ failed' = ~ \E n \in Beyond(t, way, 1) :
                   IF AtEnd(t, way) THEN Type(n) \in EndsOf[way]
                   ELSE way = Down /\ Type(n) = "PCIE_NULL"
  /\ walks' = Turned(t, way)
  /\ UNCHANGED bits

EntryOf(t) == IF Type(t) \in Hclks THEN HclkEntry ELSE IntEntry

\* INT beside INT, or HCLK between INTs of its side.
Adjoin(t, n) ==
  \/ Type(t) \in Ints /\ Type(n) \in {Type(t)} \cup HclkOf[Type(t)]
  \/ Type(n) \in Ints /\ Type(t) \in HclkOf[Type(n)]

\* Faulty form of OffsetBeyond: going up, too, the words of the tile beyond count.
OffsetBeyondNext(b, t, n, way) ==
  IF way = Down THEN b.offset - EntryOf(n).words ELSE b.offset + EntryOf(n).words

\* Offset of the tile beyond: a tile begins where the one below it ends.
OffsetBeyond(b, t, n, way) ==
  IF way = Down THEN b.offset - EntryOf(n).words ELSE b.offset + EntryOf(t).words

WalkColumn(t, way) ==
  /\ Walking("int_column", t) /\ ~ AtEnd(t, way)
  /\ \E n \in Beyond(t, way, 1), b \in bits[t] :
       /\ Type(t) \in Ints \/ Type(n) \in Ints
       /\ IF Adjoin(t, n)
          THEN AddTileBits(n, Segment(b.base, EntryOf(n).frames, OffsetBeyond(b, t, n, way),
                                      EntryOf(n).words))
          ELSE failed' = TRUE /\ UNCHANGED bits
       /\ walks' = <<<<n, way>>>>

\* The next tile of an interface column, over an HCLK tile if there is one, and
\* the words to it.
NextInterface(t, way) ==
  IF \E n \in Beyond(t, way, 1) : Type(n) \in HclkNamed
  THEN {<<n, IntEntry.words + HclkEntry.words>> : n \in Beyond(t, way, 2)}
  ELSE {<<n, IntEntry.words>> : n \in Beyond(t, way, 1)}

EndInterface(t, way) ==
  /\ Walking("interface", t)
  /\ \A n \in NextInterface(t, way) : Type(n[1]) # Type(t)
  /\ failed' = (NextInterface(t, way) = {})
  /\ walks' = Tail(walks)
  /\ UNCHANGED bits

WalkInterface(t, way) ==
  /\ Walking("interface", t)
  /\ \E n \in NextInterface(t, way), b \in bits[t] :
       /\ Type(n[1]) = Type(t)
       /\ AddTileBits(n[1], Segment(b.base, IntEntry.frames, b.offset - way * n[2], IntEntry.words))
       /\ walks' = <<<<n[1], way>>>> \o Tail(walks)
-----------------------------------------------------------------------------
Fail == failed' = TRUE /\ UNCHANGED <<bits, alias>>

\* propagate_rebuf, with its distances.
Rebuf(t) ==
  /\ Reaches("rebuf", t)
  /\ LET rebufs(way, distance) == {n \in Beyond(t, way, distance) : Type(n) = "CLK_BUFG_REBUF"}
         over == rebufs(Up, 12)
         under == rebufs(Down, 13)
     IN  IF over # {} /\ under # {} /\ \E b \in bits[t] : b.offset = RebufAt.hrow
         THEN /\ bits' = [n \in AllTiles |->
                            IF n \in over THEN {[b EXCEPT !.offset = RebufAt.over, !.words = 4] : b \in bits[t]}
                            ELSE IF n \in under THEN {[b EXCEPT !.offset = RebufAt.under, !.words = 4] : b \in bits[t]}
                            ELSE bits[n]]
              /\ UNCHANGED <<alias, failed>>
         ELSE Fail
  /\ UNCHANGED <<walks, seen>>

\* The half tile that a column of IOBs or IOIs ends with, above or below t, and
\* the tiles between.
SingsBeyond(t, way) ==
  {s \in AllTiles : /\ Type(s) \in Sings /\ Tilegrid[s].x = Tilegrid[t].x
                    /\ way * (Tilegrid[s].y - Tilegrid[t].y) > 0}
Nearest(S, t) ==
  {s \in S : \A r \in S : (Tilegrid[s].y - Tilegrid[t].y) * (Tilegrid[s].y - Tilegrid[t].y)
                           <= (Tilegrid[r].y - Tilegrid[t].y) * (Tilegrid[r].y - Tilegrid[t].y)}
Between(s, r) == {t \in AllTiles : Tilegrid[t].x = Tilegrid[s].x
                                   /\ Tilegrid[t].y \in Tilegrid[s].y..Tilegrid[r].y}

Agree(b, c) == b.base = c.base /\ b.frames = c.frames /\ b.words = c.words

\* Faulty form of TopStart: the words of the upper half of the full tile, where
\* the half tile has them (generate_full.py:405-418 tells of it).
TopStartUpper == 2

\* The alias of the half tile at the top begins with the first word of the full
\* tile, that of the one at the bottom with the third.
TopStart == 0
BottomStart == 2

\* propagate_IOB_SING and propagate_IOI_SING for one column: the bits of the tile
\* above the bottom half, with words of the halves' own, and an alias.  The site
\* map of an alias names no site that a feature has (IOB33_Y0), so it is left out.
Halve(p, t, compared) ==
  /\ Reaches(p, t)
  /\ \/ \E bottom \in Nearest(SingsBeyond(t, Down), t) :
        \E top \in Nearest(SingsBeyond(bottom, Up), bottom) :
        \E last \in Beyond(bottom, Up, 1) : \E b \in bits[last] :
          /\ seen' = seen \cup Between(top, bottom)
          /\ IF \A u \in Between(top, bottom) \ {top, bottom} :
                  Type(u) \in compared => \A c \in bits[u] : Agree(b, c)
             THEN /\ bits' = [bits EXCEPT ![top] = {[b EXCEPT !.words = 2, !.offset = LastOffset]},
                                          ![bottom] = {[b EXCEPT !.words = 2, !.offset = 0]}]
                  /\ alias' = [alias EXCEPT ![top] = {[type |-> Type(last), start_offset |-> TopStart]},
                                            ![bottom] = {[type |-> Type(last), start_offset |-> BottomStart]}]
                  /\ UNCHANGED failed
             ELSE Fail
     \/ /\ \A bottom \in Nearest(SingsBeyond(t, Down), t) :
             SingsBeyond(bottom, Up) = {} \/ \A last \in Beyond(bottom, Up, 1) : bits[last] = {}
        /\ Fail /\ UNCHANGED seen
  /\ UNCHANGED walks

HalveIob(t) == Halve("iob_sing", t, {Type(u) : u \in AllTiles})
HalveIoi(t) == Halve("ioi_sing", t, IoiNamed)

SameAbove(t) ==
  Nearest({s \in AllTiles : /\ Type(s) = Type(t) /\ Tilegrid[s].x = Tilegrid[t].x
                            /\ Tilegrid[s].y < Tilegrid[t].y}, t)

\* propagate_IOI_Y9: the bits of the nearest tile above of the same type.
IoiY9(t) ==
  /\ Reaches("ioi_y9", t)
  /\ LET known == UNION {bits[s] : s \in SameAbove(t)}
     IN  IF known = {} THEN Fail
         ELSE /\ bits' = [bits EXCEPT ![t] = {[b EXCEPT !.words = 4, !.offset = Y9Offset] : b \in known}]
              /\ UNCHANGED <<alias, failed>>
  /\ UNCHANGED <<walks, seen>>

\* The first INT to the right.
FirstIntRight(t) ==
  {i \in AllTiles : /\ Type(i) \in Ints /\ Tilegrid[i].y = Tilegrid[t].y
                    /\ Tilegrid[i].x > Tilegrid[t].x
                    /\ \A x \in (Tilegrid[t].x + 1)..(Tilegrid[i].x - 1) :
                         \E u \in TileAt(x, Tilegrid[t].y) : Type(u) \notin Ints}

\* propagate_CFG_CENTER_MID: the first INT to the right tells the column.
CfgCenterMid(t) ==
  /\ Reaches("cfg", t)
  /\ LET known == UNION {bits[i] : i \in FirstIntRight(t)}
     IN  IF known = {} THEN UNCHANGED <<bits, failed>>
         ELSE \E b \in known :
                AddTileBits(t, Segment(b.base, MaxFrames[b.base], 0, WordCount))
  /\ UNCHANGED <<alias, walks, seen>>

\* alias_HCLKs.
AliasHclk(t) ==
  /\ Reaches("hclk_alias", t)
  /\ IF bits[t] = {} THEN Fail
     ELSE /\ alias' = [alias EXCEPT ![t] =
               {[type |-> IF Type(t) = "HCLK_L_BOT_UTURN" THEN "HCLK_L" ELSE "HCLK_R", start_offset |-> 0]}]
          /\ UNCHANGED <<bits, failed>>
  /\ UNCHANGED <<walks, seen>>

FullNext ==
  \/ AddTdb \/ NextPass
  \/ \E t \in NextTile :
       \/ LeftRight(t) \/ StartWalk(t) \/ Rebuf(t) \/ HalveIob(t) \/ HalveIoi(t)
       \/ IoiY9(t) \/ CfgCenterMid(t) \/ AliasHclk(t)
  \/ \E i \in DOMAIN walks : i = 1 /\
       LET t == walks[1][1]
           way == walks[1][2]
       IN  \/ EndColumn(t, way) \/ WalkColumn(t, way)
           \/ EndInterface(t, way) \/ WalkInterface(t, way)

FullSpec == FullInit /\ [][FullNext]_fullVars
-----------------------------------------------------------------------------
(* What the tools see of a tile.                                             *)

\* get_tile_segbits_at_tilename: a database of its own goes before an alias.
AliasOf(t) == IF Type(t) \in OwnSegbits THEN {} ELSE alias[t]

\* The words of the frame in which a tile with an alias looks for a bit in word w
\* of a full tile: none if match_filter leaves it out.
WordsSeen(t, w) ==
  {x[1].offset - x[2].start_offset + w :
     x \in {y \in bits[t] \X AliasOf(t) : w - y[2].start_offset \in 0..(y[1].words - 1)}}

\* The words in which feature_to_bits puts such a bit; it has no filter.
WordsWritten(t, w) == {x[1].offset - x[2].start_offset + w : x \in bits[t] \X AliasOf(t)}

\* INT tiles beside each other, or interface tiles, that have to share what is
\* known of their columns.
Kin(t, u) ==
  \/ Type(t) = Type(u) /\ Type(t) \in Ints \cup Interfaces /\ Silicon[t].base = Silicon[u].base
  \/ {Type(t), Type(u)} = Ints /\ u \in Lateral(t)

\* The tile whose bits this pass cannot do without.
Indispensable(t) ==
  CASE pass = "rebuf"      -> Type(t) \in Hrows
    [] pass = "iob_sing"   -> Type(t) \in Iobs /\ \E n \in Beyond(t, Down, 1) : Type(n) \in Sings
    [] pass = "ioi_sing"   -> Type(t) \in Iois /\ \E n \in Beyond(t, Down, 1) : Type(n) \in Sings
    [] pass = "ioi_y9"     -> \E y9 \in Y9Tiles : t \in SameAbove(y9)
    [] pass = "hclk_alias" -> Wanted(t)
    [] OTHER               -> FALSE

\* Whichever tiles of a column were solved, every tile gets the address, the
\* offset and the words that it has in the silicon, or none; a tile of an
\* interconnect column gets them if any of the column, or of the one that it
\* shares with its neighbour, was solved.  An assertion fails only where the
\* tile that a pass starts from was not solved.
PropagatesSilicon ==
  /\ pass = "done" =>
       /\ \A t \in AllTiles : bits[t] # {} => t \in DOMAIN Silicon /\ bits[t] = {Silicon[t]}
       /\ \A t, u \in DOMAIN Silicon : Kin(t, u) => (bits[t] = {} <=> bits[u] = {})
  /\ failed => \E t \in AllTiles : Indispensable(t) /\ bits[t] = {}

\* A tile that borrows the segbits of another type finds each of its features in
\* its own words of the frame, and none of the words that it does not have; its
\* features are written where they are found.
HalvesStayHome ==
  pass = "done" =>
    \A t \in {u \in AllTiles : AliasOf(u) # {}} : \A w \in 0..3 :
      /\ WordsSeen(t, w) = IF w \in DOMAIN Lent[t] THEN {Lent[t][w]} ELSE {}
      /\ w \in DOMAIN Lent[t] => WordsWritten(t, w) = WordsSeen(t, w)
=============================================================================
