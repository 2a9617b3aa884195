--------------------------- MODULE TilegridModel ----------------------------
(***************************************************************************)
(* utils/tilegrid_model.py: the law that gives the tiles of a 7-series     *)
(* device their frame addresses, learnt from the device models that a      *)
(* database has and applied to the grid of another device.                 *)
(*                                                                         *)
(* A tile is the rank of its name among those of its grid, and a device    *)
(* the rank of its name.  A model of the law is a record of the deltas and *)
(* of the observations in the order in which they were made, for the order *)
(* decides where nothing else does.                                        *)
(***************************************************************************)
EXTENDS Integers, FiniteSets, Sequences, SequencesExt

CONSTANTS
  Devices,     \* the device models, as numbers
  Grid,        \* Grid[d][tile]: [type, x, y, bits], bits a function of buses to
               \* [half, row, column, frames, shape], where shape stands for
               \* offset, words and alias
  Part,        \* Part[d]: [rows, frames], the rows of each half and the frame
               \* counts by <<half, row, bus, column>>
  Anchors,     \* ANCHOR_TYPES
  HclkTypes,   \* the types that begin with HCLK
  HalfHeight   \* CLOCK_ROW_HALF_HEIGHT

Buses == {"CLB_IO_CLK", "BLOCK_RAM"}
Halves == {"top", "bottom"}

ASSUME TilegridAssumption ==
  /\ Devices \subseteq Nat /\ IsFiniteSet(Devices) /\ HalfHeight \in Nat
  /\ DOMAIN Anchors = Buses
  /\ \A d \in Devices : DOMAIN Grid[d] \subseteq Nat /\ IsFiniteSet(DOMAIN Grid[d])
                        /\ DOMAIN Part[d].rows = Halves
  /\ \A d \in Devices : \A t \in DOMAIN Grid[d] :
       Grid[d][t].x \in Nat /\ DOMAIN Grid[d][t].bits \subseteq Buses
-----------------------------------------------------------------------------
(* Where a tile is.                                                          *)
Ascending(S) == [i \in 1..Cardinality(S) |-> CHOOSE n \in S : Cardinality({k \in S : k < n}) = i - 1]
Highest(S) == CHOOSE n \in S : \A k \in S : k <= n

\* clock_rows.
ClockRows(grid) == Ascending({grid[t].y : t \in {u \in DOMAIN grid : grid[u].type \in HclkTypes}})

\* clock_row_of: <<index of the clock row, position above its lower end>>, for
\* the tiles that are in one of the rows.
PlacesIn(rows, grid) ==
  LET holds(i, t) == grid[t].y \in (rows[i] - HalfHeight)..(rows[i] + HalfHeight)
      index(t) == CHOOSE i \in DOMAIN rows : holds(i, t) /\ \A j \in 1..(i - 1) : ~ holds(j, t)
  IN  [t \in {u \in DOMAIN grid : \E i \in DOMAIN rows : holds(i, u)} |->
         <<index(t), rows[index(t)] + HalfHeight - grid[t].y>>]
ClockRowOf(grid) == PlacesIn(ClockRows(grid), grid)

\* anchor_columns, by bus.
AnchorColumns(grid) ==
  [bus \in Buses |->
     Ascending({grid[t].x : t \in {u \in DOMAIN grid : grid[u].type \in Anchors[bus]}})]

\* part_rows: the row of each clock row, from the top of the device down.
RowsOf(part, half) ==
  [i \in 1..Cardinality(part.rows[half]) |-> <<half, Ascending(part.rows[half])[i]>>]
PartRows(part) == Reverse(RowsOf(part, "top")) \o RowsOf(part, "bottom")

\* declared, of column_gate.
Declared(part, bus) ==
  Highest({0} \cup {k[4] + 1 : k \in {c \in DOMAIN part.frames : c[3] = bus}})

\* Faulty form of ColumnGate: every grid is taken.
ColumnGateOpen(grid, part) == TRUE

\* column_gate: grid and part are of one device.
ColumnGate(grid, part) ==
  /\ \A bus \in Buses : Len(AnchorColumns(grid)[bus]) = Declared(part, bus)
  /\ Len(ClockRows(grid)) = Cardinality(part.rows["top"]) + Cardinality(part.rows["bottom"])
-----------------------------------------------------------------------------
(* Learning.                                                                 *)
NoModel == [deltas |-> {}, observations |-> <<>>, references |-> <<>>]

\* What learn sees of device d, tile by tile in the order of their names, of a
\* tile first its BLOCK_RAM and then its CLB_IO_CLK: these are the even and the
\* odd slots.
Bus(slot) == IF slot % 2 = 0 THEN "BLOCK_RAM" ELSE "CLB_IO_CLK"

Observe(d, slot, tile, bits, position, columns) ==
  [key |-> <<tile.type, position, Bus(slot)>>, device |-> d, shape |-> bits.shape,
   frames |-> bits.frames, delta |-> tile.x - columns[Bus(slot)][bits.column + 1]]

ObserveAll(d, slots, grid, places, columns) ==
  [i \in DOMAIN slots |->
     Observe(d, slots[i], grid[slots[i] \div 2], grid[slots[i] \div 2].bits[Bus(slots[i])],
             places[slots[i] \div 2][2], columns)]

Slots(grid, places, columns) ==
  {slot \in {2 * t + i : t \in DOMAIN places, i \in {0, 1}} :
     /\ Bus(slot) \in DOMAIN grid[slot \div 2].bits
     /\ grid[slot \div 2].bits[Bus(slot)].column < Len(columns[Bus(slot)])}

Observations(d) ==
  ObserveAll(d, Ascending(Slots(Grid[d], ClockRowOf(Grid[d]), AnchorColumns(Grid[d]))),
             Grid[d], ClockRowOf(Grid[d]), AnchorColumns(Grid[d]))

\* Model.learn; a device that is refused leaves the model as it is.
Add(model, d, new) ==
  [deltas |-> model.deltas \cup {<<o.key[3], o.key[1], o.delta>> : o \in Range(new)},
   observations |-> model.observations \o new,
   references |-> Append(model.references, d)]

Learn(model, d) ==
  IF ColumnGate(Grid[d], Part[d]) THEN Add(model, d, Observations(d)) ELSE model

\* learn_families and Model.merge: the devices one after the other.
LearnAll(devices) == FoldLeft(Learn, NoModel, devices)
-----------------------------------------------------------------------------
(* Model.resolve.                                                            *)
Seen(model, key, shape) ==
  {i \in DOMAIN model.observations : /\ model.observations[i].key = key
                                     /\ model.observations[i].shape = shape}
KeysOf(model) == {o.key : o \in Range(model.observations)}
Shapes(model, key) == {o.shape : o \in {p \in Range(model.observations) : p.key = key}}

\* The devices that have the geometry, also _outside_votes.
Voters(model, key, shape) == {model.observations[i].device : i \in Seen(model, key, shape)}
Votes(model, key, shape) == Cardinality(Voters(model, key, shape))

\* The shapes with the most votes of a model.
Foremost(model, key, shapes) ==
  {s \in shapes : \A t \in shapes : Votes(model, key, t) <= Votes(model, key, s)}

\* The shapes that a preferred device has.
Liked(model, key, shapes, prefer) == {s \in shapes : Voters(model, key, s) \cap prefer # {}}

\* The list of devices of a comes before that of b; both are as long.
Before(a, b) == a # b /\ \E d \in a \ b : \A e \in b \ a : d < e

\* Faulty form of FirstOf: the order of learning decides.
FirstOfLearnt(model, key, shapes) ==
  CHOOSE s \in shapes : \A t \in shapes :
    \E i \in Seen(model, key, s) : \A j \in Seen(model, key, t) : i <= j

\* leaders.sort by the lists of devices.  The sort is stable, and alternatives
\* with the same devices stay in the order in which they were first seen.
FirstOf(model, key, shapes) ==
  CHOOSE s \in shapes : \A t \in shapes \ {s} :
    LET a == Voters(model, key, s)
        b == Voters(model, key, t)
    IN  \/ Before(a, b)
        \/ a = b /\ \E i \in Seen(model, key, s) : \A j \in Seen(model, key, t) : i < j

\* The winner of a key and how it won.
Only(S) == CHOOSE s \in S : TRUE
Broken(model, key, backed) ==
  IF Cardinality(backed) = 1 THEN <<Only(backed), "other families">>
  ELSE <<FirstOf(model, key, backed), "arbitrary">>
Untied(model, key, leaders, liked, elsewhere) ==
  IF Cardinality(leaders) = 1 THEN <<Only(leaders), "majority">>
  ELSE IF Cardinality(liked) = 1 THEN <<Only(liked), "preferred reference">>
  ELSE Broken(model, key, Foremost(elsewhere, key, leaders))
Decided(model, key, leaders, elsewhere, prefer) ==
  Untied(model, key, leaders, Liked(model, key, leaders, prefer), elsewhere)
Winner(model, key, elsewhere, prefer) ==
  Decided(model, key, Foremost(model, key, Shapes(model, key)), elsewhere, prefer)

\* self.geometry, with the resolution of each key; a geometry is as deep as the
\* deepest column in which it was seen.
Geometry(model, key, winner) ==
  [shape |-> winner[1], how |-> winner[2],
   frames |-> Highest({model.observations[i].frames : i \in Seen(model, key, winner[1])})]
Resolve(model, elsewhere, prefer) ==
  [key \in KeysOf(model) |-> Geometry(model, key, Winner(model, key, elsewhere, prefer))]
-----------------------------------------------------------------------------
(* Model.apply.                                                              *)
\* The columns of a bus that a delta of the type reaches from x.
Hits(columns, bus, type, x, deltas) ==
  {i \in DOMAIN columns[bus] : <<bus, type, x - columns[bus][i]>> \in deltas}

\* The one entry of a tile on a bus, if the law gives one: one column must be in
\* reach, and in the part.
AtColumn(row, column, geometry, depth) ==
  [half |-> row[1], row |-> row[2], column |-> column, shape |-> geometry.shape,
   frames |-> IF geometry.frames < depth THEN geometry.frames ELSE depth]
EntryAt(part, row, bus, hits, geometry) ==
  {AtColumn(row, i - 1, geometry, part.frames[<<row[1], row[2], bus, i - 1>>]) :
     i \in {h \in hits : /\ Cardinality(hits) = 1
                         /\ <<row[1], row[2], bus, h - 1>> \in DOMAIN part.frames}}
Entry(part, tile, place, bus, columns, law) ==
  UNION {EntryAt(part, PartRows(part)[place[1]], bus,
                 Hits(columns, bus, tile.type, tile.x, law.deltas), law.geometry[key]) :
         key \in {<<tile.type, place[2], bus>>} \cap DOMAIN law.geometry}

\* The entries of a whole grid, <<tile, bus, entry, borrowed>>.  A law is a
\* geometry and deltas.  For a key that the family has no geometry for, fallback
\* is asked: all of it or nothing.
FillAll(grid, part, places, columns, law, fallback) ==
  LET known(t, bus) == <<grid[t].type, places[t][2], bus>> \in DOMAIN law.geometry
  IN  UNION {{<<t, bus, e, ~ known(t, bus)>> :
                e \in Entry(part, grid[t], places[t], bus, columns,
                            IF known(t, bus) THEN law ELSE fallback)}
              : t \in DOMAIN places, bus \in Buses}
Apply(grid, part, law, fallback) ==
  FillAll(grid, part, ClockRowOf(grid), AnchorColumns(grid), law, fallback)
=============================================================================
