----------------------------- MODULE Fasm2Frames ------------------------------
(***************************************************************************)
(* utils/fasm2frames.py, run, for a given part: the assembler reads the    *)
(* file, and then the tool adds lines of its own that depend on the lines  *)
(* read: a pull-up for an unused PUDC_B pin, STEPDOWN for the unused IOBs  *)
(* of a bank that steps down, and the bits that Vivado sets beside those   *)
(* of a used HP bank, clock leaf or tie.  bit2fasm then takes the frames,  *)
(* or some other bitstream, apart.                                         *)
(*                                                                         *)
(* A feature is <<site, tag>>.  A tag stands for its class: "STEPDOWN" for *)
(* every tag that contains STEPDOWN, "DRIVE" for .DRIVE. and so on.        *)
(***************************************************************************)
EXTENDS FasmRoundTrip, Sequences, FiniteSets

CONSTANTS
  Rows,       \* <<tile, bank>>: the HCLK tile of each bank in iobanks, if the
              \* grid has it, then the rows of package_pins.csv
  GridOrder,  \* the tiles of the fabric's tilegrid.json, in its order
  PrefixY,    \* PrefixY[t]: tile type prefix and Y of the name t
  Iob33, Hp,  \* the tiles with IOB33 in the name, and LIOB18 and RIOB18 tiles
  Hclk,       \* HCLK_IOI3 and HCLK_IOI tiles
  ObufColumn, \* the tiles LIOB18_X81*
  GfanColumn, \* the tiles INT_L_X62*
  Mirror,     \* Mirror[t]: the tile ten rows above t of GfanColumn
  CascadeTile,\* INT_L_X32Y49
  RoiTiles,   \* the tiles of the ROI that --roi may give
  PudcSites,  \* the <<tile, site>> that may have the pin PUDC_B
  EmitArgs,   \* the values that emit may have
  FileLines,  \* the lines that a file may have; Lines has those of the tool too
  MaxLines    \* bound on the lines of a file

Sites == {"IOB_Y0", "IOB_Y1"}

ASSUME Fasm2FramesAssumption ==
  /\ {GridOrder[i] : i \in DOMAIN GridOrder} = Tiles
  /\ Iob33 \cap Hp = {} /\ GfanColumn \subseteq DOMAIN Mirror
  /\ EmitArgs \subseteq BOOLEAN /\ FileLines \subseteq Lines /\ MaxLines \in Nat

VARIABLES
  pudc,         \* find_pudc_b: the site with PUDC_B, empty if there is none
  emit,         \* --emit_pudc_b_pullup
  set_features, \* lines that feature_callback was called with, value 0 too
  phase,        \* whose lines are added: "file", "pudc", "stepdown", "glue",
                \* "frames" when all are
  pending       \* the lines of this phase still to add

glueVars == <<pudc, emit, set_features, phase, pending>>
toolVars == <<vars, glueVars>>

ToolInit ==
  /\ Init
  /\ pudc \in {{s} : s \in PudcSites} \cup {{}}
  /\ emit \in EmitArgs
  /\ set_features = {} /\ phase = "file" /\ pending = {}
-----------------------------------------------------------------------------
(* tile_to_bank and bank_to_tile, after add_fabric_tilename_aliases.         *)
Packaged == {Rows[i][1] : i \in DOMAIN Rows}
First(indices) == {i \in indices : \A j \in indices : i <= j}

\* tile_to_bank from the rows: a later row has overwritten an earlier one.
RowBank == [t \in Packaged |->
  Rows[CHOOSE i \in DOMAIN Rows : Rows[i][1] = t /\
         \A j \in DOMAIN Rows : Rows[j][1] = t => j <= i][2]]

\* by_prefix_y: the first tile of the rows with the prefix and Y of t, if any.
Package == [t \in DOMAIN PrefixY |->
  {Rows[i][1] : i \in First({j \in DOMAIN Rows : PrefixY[Rows[j][1]] = PrefixY[t]})}]

\* Faulty form of TileToBank: without the aliases.
TileToBankRows == [t \in DOMAIN PrefixY |-> IF t \in Packaged THEN {RowBank[t]} ELSE {}]

\* tile_to_bank: the bank of t, or of its alias, or nothing.
TileToBank == [t \in DOMAIN PrefixY |->
  IF t \in Packaged THEN {RowBank[t]} ELSE {RowBank[p] : p \in Package[t]}]

\* The first tile of the fabric's grid that takes the place of p in p's bank,
\* if p is not itself a tile of the grid.
Replacement == [p \in Packaged |->
  IF p \in Tiles THEN {}
  ELSE {GridOrder[i] : i \in First({j \in DOMAIN GridOrder :
          GridOrder[j] \notin Packaged /\ p \in Package[GridOrder[j]]})}]

\* bank_to_tile.
BankToTile == [bank \in {Rows[i][2] : i \in DOMAIN Rows} |->
  LET known == {Rows[i][1] : i \in {j \in DOMAIN Rows : Rows[j][2] = bank}}
      moved == {p \in known : Replacement[p] # {} /\ RowBank[p] = bank}
  IN  (known \ moved) \cup UNION {Replacement[p] : p \in moved}]

\* What the alias of an IOB tile rests on: of the tiles of the package, one at most
\* has its prefix and Y, and of the tiles of the grid that the package does not
\* name, no other has; the pins of an IOB tile are of one bank; and only IOBs have
\* a tag STEPDOWN.
ASSUME PackageAssumption ==
  /\ Tiles \cup Packaged \subseteq DOMAIN PrefixY
  /\ Len(Rows) \in Nat /\ DOMAIN Rows = 1..Len(Rows)
  /\ Len(GridOrder) \in Nat /\ DOMAIN GridOrder = 1..Len(GridOrder)
  /\ \A t \in ((Iob33 \cup Hp) \cap Tiles) \ Packaged :
       \A p, q \in {x \in Packaged : PrefixY[x] = PrefixY[t]} :
         p = q /\ \A u \in Tiles \ Packaged : PrefixY[u] = PrefixY[t] => u = t
  /\ \A i, j \in DOMAIN Rows : (Rows[i][1] = Rows[j][1] /\ Rows[i][1] \in Iob33) =>
       Rows[i][2] = Rows[j][2]
  /\ \A line \in FileLines : line.feature[2] = "STEPDOWN" =>
       line.tile \in Iob33 \cup Hp
-----------------------------------------------------------------------------
(* The lines that the tool adds.                                             *)
Tag(t, site, tag) == [tile |-> t, feature |-> <<site, tag>>, address |-> 0]

\* The set features with a value other than 0, and of them those that have a
\* site and a tag.
Set == {s.line : s \in {x \in set_features : x.value}}
HasTag(t, site, tag) == \E line \in Set : line.tile = t /\ line.feature = <<site, tag>>

\* Faulty form of PudcUsed: the other site of the tile counts as well.
PudcUsedTile == \E s \in set_features, p \in pudc : s.line.tile = p[1]

\* pudc_b_in_use: a line of the site, whatever its value.
PudcUsed == \E s \in set_features, p \in pudc : s.line.tile = p[1] /\ s.line.feature[1] = p[2]

Partner(site) == CHOOSE other \in Sites : other # site

\* pudc_template.
PudcTemplate(p) ==
  {Tag(p[1], p[2], tag) : tag \in {"IN", "PULLUP"}} \cup
  (IF p[1] \in Hp
   THEN {Tag(p[1], site, tag) : site \in Sites, tag \in {"SLEW", "STEPDOWN"}} \cup
        {Tag(p[1], Partner(p[2]), "PULLDOWN")}
   ELSE {})

PudcLines == IF ~ emit \/ PudcUsed THEN {} ELSE UNION {PudcTemplate(p) : p \in pudc}

Used33 == {<<line.tile, line.feature[1]>> : line \in {l \in Set : l.tile \in Iob33 /\ l.feature[2] # ""}}

\* Faulty form of StepdownLines: all IOBs of the bank.
StepdownLinesAll ==
  LET banks == UNION {TileToBank[line.tile] : line \in {l \in Set : l.feature[2] = "STEPDOWN"}}
      tiles == UNION {BankToTile[b] : b \in banks}
  IN  {Tag(t, site, "STEPDOWN") : t \in tiles \cap Iob33, site \in Sites} \cup
      {Tag(t, "STEPDOWN", "") : t \in tiles \cap Hclk}

\* STEPDOWN for the unused IOBs and the HCLK tile of the banks that have one.
StepdownLines ==
  LET banks == UNION {TileToBank[line.tile] : line \in {l \in Set : l.feature[2] = "STEPDOWN"}}
      tiles == UNION {BankToTile[b] : b \in banks}
  IN  {Tag(s[1], s[2], "STEPDOWN") : s \in ((tiles \cap Iob33) \X Sites) \ Used33} \cup
      {Tag(t, "STEPDOWN", "") : t \in tiles \cap Hclk}

\* What goes with the direction of a used HP site; not for the PUDC_B tile.
BankGlue ==
  LET has(t, tag) == {site \in Sites : HasTag(t, site, tag)}
  IN  UNION {{Tag(t, site, "IBUF_GLUE") : site \in has(t, "IN")} \cup
             {Tag(t, site, "OBUF_GLUE") : site \in has(t, "DRIVE")} \cup
             {Tag(t, "IOB_Y0", "IBUFDS_GLUE") : site \in has(t, "IN_DIFF")} \cup
             {Tag(CascadeTile, tag, "") : tag \in {x \in {"CASCADE", "ACTIVE"} :
                t \in ObufColumn /\ "IOB_Y1" \in has(t, "DRIVE")}}
               : t \in Hp \ {p[1] : p \in pudc}}

\* The first tie of the column in the order of a Python set, which is any
\* order, and no other, gets its glue.
TieGlue ==
  LET ties == {t \in GfanColumn : HasTag(t, "GFAN0", "GND_WIRE")}
  IN  IF ties = {} THEN {{}} ELSE {{Tag(Mirror[t], "GFAN_TIE", "")} : t \in ties}

LeafGlue == {Tag(line.tile, "BUFRCLK3_ACTIVE", "") : line \in {l \in Set : l.feature[2] = "BUFRCLK3"}}

LinesOf(p) == CASE p = "pudc" -> {PudcLines} [] p = "stepdown" -> {StepdownLines}
                [] p = "glue" -> {BankGlue \cup g \cup LeafGlue : g \in TieGlue}
                [] OTHER -> {{}}
-----------------------------------------------------------------------------
(* What is known of the bits of the lines that are added.                    *)
\* No bit is set by one line and cleared by the other.
Agree(a, b) == SetBits(a) \cap ClearBits(b) = {} /\ SetBits(b) \cap ClearBits(a) = {}

IobAdded == (UNION {PudcTemplate(p) : p \in PudcSites}) \cup
            {Tag(t, site, "STEPDOWN") : t \in Iob33, site \in Sites}

GlueFeatures == (Sites \X {"IBUF_GLUE", "OBUF_GLUE", "IBUFDS_GLUE"}) \cup
                ({"STEPDOWN", "CASCADE", "ACTIVE", "GFAN_TIE", "BUFRCLK3_ACTIVE"} \X {""})
Glue == [tile : Tiles, feature : GlueFeatures, address : {0}]

\* The lines that the database has bits for, of the file and of the tool.
Known == {line \in FileLines \cup IobAdded \cup Glue :
            line.tile \in Tiles /\ ~ IsMissing(line)}

\* a and b are of one site, or of one HP tile whose sites share bits.
MayDiffer(a, b) ==
  /\ a.tile = b.tile
  /\ a.feature[1] = b.feature[1] \/ (a.tile \in Hp /\ b.feature[1] \in Sites)

\* PUDC_B is an IOB, and each feature of an IOB33 site has a tag.  The bits of a
\* tile are its own (utils/checkdb.py:14), those of the two sites of an IOB33 tile
\* lie in halves of their own (filter_bits in fuzzers/030-iob/process_rdb.py),
\* pudc_template is what Vivado sets at once, and glue is a group of set bits
\* (README.md:298) that no feature clears.
ASSUME IobAssumption ==
  /\ PudcSites \subseteq (Iob33 \cup Hp) \X Sites
  /\ \A line \in FileLines :
       (line.tile \in Iob33 /\ line.feature[1] \in Sites) => line.feature[2] # ""
  /\ \A p \in PudcSites : \A a, b \in PudcTemplate(p) \cap Known : Agree(a, b)
  /\ \A a \in IobAdded \cap Known :
       /\ Agree(a, a)
       /\ \A b \in Known : Agree(a, b) \/ MayDiffer(a, b)
  /\ \A a \in Glue \cap Known : \A b \in Known : Agree(a, b)
-----------------------------------------------------------------------------
Callback(line, value) == set_features' = set_features \cup {[line |-> line, value |-> value]}

\* add_fasm_line for a line that is enabled: the callback comes first.
AddLine(line) ==
  /\ Callback(line, TRUE)
  /\ UnknownTile(line) \/ EnableFeature(line) \/ InconsistentBits(line) \/ MissingFeature(line)
  /\ UNCHANGED <<disVars, pudc, emit, phase>>

MarkRoi(t) == phase = "file" /\ MarkRoiTile(t) /\ set_features = {} /\ UNCHANGED <<disVars, glueVars>>

FileLine(line) ==
  /\ phase = "file" /\ pc = "load" /\ Cardinality(set_features) < MaxLines
  /\ AddLine(line)
  /\ UNCHANGED pending

\* A line with the value 0 sets no bits; only for an IOB does the tool ask which
\* lines there were.
ZeroLine(line) ==
  /\ line.tile \in Iob33 \cup Hp
  /\ phase = "file" /\ state = "read" /\ pc = "load" /\ Cardinality(set_features) < MaxLines
  /\ Callback(line, FALSE)
  /\ UNCHANGED <<vars, pudc, emit, phase, pending>>

\* The lines of a template come in its order, all others, from sets and dicts, in
\* any order.
ToolLine(line) ==
  /\ phase # "file" /\ line \in pending
  /\ phase = "pudc" => line = CHOOSE l \in pending : TRUE
  /\ pending' = pending \ {line}
  /\ AddLine(line)

After(p) == CASE p = "file" -> "pudc" [] p = "pudc" -> "stepdown" [] p = "stepdown" -> "glue"
              [] OTHER -> "frames"

\* Each phase has its own list of missing features, which ends the run at the
\* end of the phase; for the file XRAY_ALLOW_MISSING_FEATURES can allow them,
\* and those of the glue are never looked at.
NextPhase ==
  /\ state = "read" /\ pc = "load" /\ pending = {} /\ phase # "frames"
  /\ \/ missing = {} \/ phase = "glue" \/ (phase = "file" /\ AllowMissing)
  /\ phase' = After(phase)
  /\ pending' \in LinesOf(phase')
  /\ missing' = {}
  /\ UNCHANGED <<frames, frames_in_use, enabled, image, state, disVars, pudc, emit, set_features>>

MissingEnds ==
  /\ phase \in {"file", "pudc", "stepdown"} /\ pending = {}
  /\ IF phase = "file" THEN LookupError
     ELSE /\ state = "read" /\ missing # {} /\ state' = "lookup_error"
          /\ UNCHANGED <<frames, frames_in_use, missing, enabled, image>>
  /\ UNCHANGED <<disVars, glueVars>>

Frames(sparse) == phase = "frames" /\ GetFrames(sparse) /\ UNCHANGED <<disVars, glueVars>>

\* bit2fasm of the frames, or of a bitstream of whatever origin, which has
\* nothing to do with the arguments of fasm2frames.
Disassembly == (HandOver \/ Disassemble) /\ UNCHANGED glueVars

Foreign ==
  /\ set_features = {} /\ phase = "file" /\ pc = "load" /\ pudc = {}
  /\ \E data \in Bitstreams : Load(data)
  /\ UNCHANGED <<asmVars, glueVars>>

ToolNext ==
  \/ \E t \in RoiTiles : MarkRoi(t)
  \/ \E line \in FileLines : FileLine(line) \/ ZeroLine(line)
  \/ \E line \in pending : ToolLine(line)
  \/ NextPhase \/ MissingEnds
  \/ \E sparse \in BOOLEAN : Frames(sparse)
  \/ Disassembly \/ Foreign

ToolSpec ==
  ToolInit /\ [][ToolNext]_toolVars /\ WF_vars(HandOver) /\ WF_vars(Disassemble)
-----------------------------------------------------------------------------
\* The bank of a tile of the fabric: that of the package tile of its name or, as
\* the docstring of add_fabric_tilename_aliases has it, of one that is not itself
\* a tile of the fabric and has the same prefix and Y.
BankOf(t) == IF t \in Packaged THEN {RowBank[t]}
             ELSE {RowBank[p] : p \in {x \in Packaged \ Tiles : PrefixY[x] = PrefixY[t]}}

\* One IOB with STEPDOWN, by whatever line, and every IOB33 of its bank that no
\* line configures has STEPDOWN too, whichever of its two names its tile goes by
\* in the file and in package_pins.csv.
BankStepsDown ==
  state = "done" =>
    \A line \in Set : line.feature[2] = "STEPDOWN" =>
      \A t \in Iob33 \cap Tiles, site \in Sites :
        (BankOf(t) \cap BankOf(line.tile) # {}) => <<t, site>> \in Used33

\* The lines that the tool adds for unused IOBs never contradict the file, nor
\* each other: a run ends with FasmInconsistentBits only over two lines of the
\* file, or because the file uses the IOB that shares its tile with an unused
\* PUDC_B.
AddedAgrees ==
  state = "inconsistent" =>
    \/ phase = "file"
    \/ phase = "pudc" /\ \E p \in pudc : p[1] \in Hp /\ \E line \in Set \ PudcTemplate(p) :
                           line.tile = p[1] /\ line.feature[1] = Partner(p[2])

\* PUDC_B is never left open: it has the pull-up, or a line of the file that
\* configures its own IOB.
PudcIsPulled ==
  (state = "done" /\ emit) =>
    \A p \in pudc : \E s \in set_features : s.line.tile = p[1] /\ s.line.feature[1] = p[2]
=============================================================================
