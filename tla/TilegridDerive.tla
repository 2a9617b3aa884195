--------------------------- MODULE TilegridDerive ---------------------------
(***************************************************************************)
(* utils/tilegrid_derive.py derive: the tilegrid of a device from the law  *)
(* of its family, with the other families to settle ties and, if asked     *)
(* for, to lend geometries.  The references are learnt in the order of the *)
(* command line.                                                           *)
(***************************************************************************)
EXTENDS TilegridModel

CONSTANTS
  Family,   \* Family[d], in the order of the devices: families are told by names too
  Astray,   \* the devices whose grid is not the one that their part.yaml tells of
  ReferenceLists  \* the lists of --reference, the empty one where it is not given

VARIABLES
  target,     \* the device to derive; its part is of it
  others,     \* devices of the other families still to be learnt
  to_learn,   \* references still to be learnt, in their order
  prefer,     \* --prefer-reference
  allow,      \* --allow-reference-conflicts
  borrow,     \* --cross-family-fallback
  elsewhere,  \* the model of the other families and its geometry
  model,      \* the model of the family
  resolved,   \* its geometry and how each was settled
  derived,    \* the entries of the new grid
  pc

options == <<target, prefer, allow, borrow>>
vars == <<options, others, to_learn, elsewhere, model, resolved, derived, pc>>

ASSUME DeriveAssumption ==
  /\ DOMAIN Family = Devices /\ Astray \subseteq Devices
  /\ ReferenceLists \subseteq Seq(Devices)
  /\ \A d, e \in Devices : \A c \in d..e : Family[d] = Family[e] /\ c \in Devices => Family[c] = Family[d]

\* The row of the part that a tile is in, and the frame count of a column there.
RowAt(d, t) == PartRows(Part[d])[ClockRowOf(Grid[d])[t][1]]
CellAt(d, t, bus) == <<RowAt(d, t)[1], RowAt(d, t)[2], bus, Grid[d][t].bits[bus].column>>
DepthAt(d, t, bus) == Part[d].frames[CellAt(d, t, bus)]

\* The entry of a tile is of its part, in a column that the grid has.
InPart(d, t, bus, entry) ==
  /\ entry.column \in 0..(Len(AnchorColumns(Grid[d])[bus]) - 1)
  /\ CellAt(d, t, bus) \in DOMAIN Part[d].frames
  /\ DepthAt(d, t, bus) \in Nat /\ entry.frames \in 0..DepthAt(d, t, bus)
  /\ entry = AtColumn(RowAt(d, t), entry.column, entry, DepthAt(d, t, bus))

\* A tile has fewer frames than another of its kind only if its column has no more.
FramesCapped(d, t, e, u, bus) ==
  /\ Grid[d][t].type = Grid[e][u].type /\ ClockRowOf(Grid[d])[t][2] = ClockRowOf(Grid[e])[u][2]
  /\ Grid[d][t].bits[bus].shape = Grid[e][u].bits[bus].shape
  /\ Grid[d][t].bits[bus].frames < Grid[e][u].bits[bus].frames
  => Grid[d][t].bits[bus].frames = DepthAt(d, t, bus)

\* "Every frame address in a tilegrid has the same shape", its frames "capped by
\* the column's own frame_count" (docs/db_dev_process/tilegrid_derivation.rst);
\* a grid that is of another device, or has holes, has other columns than its
\* part.yaml declares.
ASSUME LawAssumption ==
  /\ \A d \in Astray : \E bus \in Buses : Len(AnchorColumns(Grid[d])[bus]) # Declared(Part[d], bus)
  /\ \A d \in Devices \ Astray : \A t \in DOMAIN ClockRowOf(Grid[d]) :
       \A bus \in DOMAIN Grid[d][t].bits :
         /\ InPart(d, t, bus, Grid[d][t].bits[bus])
         /\ \A e \in Devices \ Astray : \A u \in DOMAIN ClockRowOf(Grid[e]) :
              bus \in DOMAIN Grid[e][u].bits => FramesCapped(d, t, e, u, bus)

\* --reference, without which every device of the family but the target itself is
\* one; a list may name the target, which gives a warning, and a device more than
\* once.  --prefer-reference may name references only.
Siblings == {d \in Devices : Family[d] = Family[target]}
References(given) == IF given = <<>> THEN Ascending(Siblings \ {target}) ELSE given
Init ==
  /\ target \in Devices
  /\ others = Devices \ Siblings
  /\ to_learn \in {References(given) : given \in ReferenceLists \cap Seq(Siblings)}
  /\ prefer \in SUBSET Range(to_learn)
  /\ allow \in BOOLEAN /\ borrow \in BOOLEAN
  /\ elsewhere = NoModel /\ model = NoModel
  /\ resolved = <<>> /\ derived = {} /\ pc = "families"

\* learn_families and learn_elsewhere: every device of the other families in the
\* order of their names, the family itself never.
LearnElsewhere(d) ==
  /\ pc = "families" /\ d \in others /\ \A e \in others : d <= e
  /\ others' = others \ {d}
  /\ elsewhere' = Learn(elsewhere, d)
  /\ UNCHANGED <<options, to_learn, model, resolved, derived, pc>>

OthersLearnt ==
  /\ pc = "families" /\ others = {}
  /\ pc' = "learn"
  /\ UNCHANGED <<options, others, to_learn, elsewhere, model, resolved, derived>>

LearnReference ==
  /\ pc = "learn" /\ to_learn # <<>>
  /\ to_learn' = Tail(to_learn)
  /\ model' = Learn(model, Head(to_learn))
  /\ UNCHANGED <<options, others, elsewhere, resolved, derived, pc>>

\* model.resolve, then the gate on the target itself.
ResolveTies ==
  /\ pc = "learn" /\ to_learn = <<>>
  /\ resolved' = Resolve(model, elsewhere, prefer)
  /\ pc' = IF ColumnGate(Grid[target], Part[target]) THEN "check" ELSE "refused"
  /\ UNCHANGED <<options, others, to_learn, elsewhere, model, derived>>

\* The keys of the tiles of a grid, whether they get an address or not.
Used(grid, places) ==
  {<<grid[t].type, places[t][2], bus>> : t \in DOMAIN places, bus \in Buses}

\* Faulty form of Unsettled: no pick is too bold.
UnsettledNone == {}

\* unresolved_conflicts that the grid uses.
Unsettled ==
  {key \in Used(Grid[target], ClockRowOf(Grid[target])) :
     key \in DOMAIN resolved /\ resolved[key].how = "arbitrary"}

RefuseConflicts ==
  /\ pc = "check" /\ Unsettled # {} /\ ~ allow
  /\ pc' = "refused"
  /\ UNCHANGED <<options, others, to_learn, elsewhere, model, resolved, derived>>

\* A geometry that is borrowed may rest on a pick that nothing settled; only the
\* conflicts of the family are looked at.
WriteTilegrid ==
  /\ pc = "check" /\ (Unsettled = {} \/ allow)
  /\ derived' = Apply(Grid[target], Part[target],
                      [geometry |-> resolved, deltas |-> model.deltas],
                      [geometry |-> IF borrow THEN Resolve(elsewhere, NoModel, {}) ELSE <<>>,
                       deltas |-> elsewhere.deltas])
  /\ pc' = "done"
  /\ UNCHANGED <<options, others, to_learn, elsewhere, model, resolved>>

Next ==
  \/ \E d \in others : LearnElsewhere(d)
  \/ OthersLearnt \/ LearnReference \/ ResolveTies \/ RefuseConflicts \/ WriteTilegrid

Spec == Init /\ [][Next]_vars
-----------------------------------------------------------------------------
\* "A fixed rule, never the order the references happened to be given in"
\* (docs/db_dev_process/tilegrid_derivation.rst): the geometries are those that
\* the references give in the order of their names.
InAnyOrder ==
  pc = "done" =>
    resolved = Resolve(LearnAll(Ascending(Range(model.references))), elsewhere, prefer)

\* No device has seen two geometries for one key.
OneGeometryEach(key) ==
  \A s, t \in Shapes(model, key) : s = t \/ Voters(model, key, s) \cap Voters(model, key, t) = {}

\* Shape won is ahead of shape s in the order that resolve promises.
Outvotes(key, won, s) == Votes(elsewhere, key, s) < Votes(elsewhere, key, won)
NamedFirst(key, won, s) ==
  /\ Votes(elsewhere, key, s) = Votes(elsewhere, key, won)
  /\ \E d \in Voters(model, key, won) : \A e \in Voters(model, key, s) : d < e
WonByRule(key, won, tied, liked) ==
  /\ won \in tied
  /\ Cardinality(liked) = 1 => won \in liked
  /\ Cardinality(liked) # 1 =>
       \A s \in tied \ {won} : Outvotes(key, won, s) \/ NamedFirst(key, won, s)

Tied(key) == Foremost(model, key, Shapes(model, key))

\* Where no device is of two minds the four rules of resolve decide, whatever
\* the order of learning: most devices of the family; the one that is preferred;
\* most devices elsewhere; the device with the first name.
RulesDecide ==
  resolved # <<>> => \A key \in {k \in DOMAIN resolved : OneGeometryEach(k)} :
    WonByRule(key, resolved[key].shape, Tied(key), Liked(model, key, Tied(key), prefer))

\* Without --allow-reference-conflicts every address that the family's own
\* references give was settled by votes or by the user, never by a name.
SettledByVotes ==
  pc = "done" /\ ~ allow => \A x \in {y \in derived : ~ y[4]} :
    \E key \in {<<Grid[target][x[1]].type, ClockRowOf(Grid[target])[x[1]][2], x[2]>>} :
      \/ Tied(key) = {x[3].shape} \/ Liked(model, key, Tied(key), prefer) = {x[3].shape}
      \/ \A s \in Tied(key) \ {x[3].shape} : Outvotes(key, x[3].shape, s)

\* What device d teaches of a tile's bus is what the target has there.
BearsOut(seen, place, delta, entry) ==
  /\ \A o \in seen : o.delta = delta /\ (o.key[2] = place => o.shape = entry.shape)
  /\ \E o \in seen : o.key[2] = place /\ o.frames >= entry.frames
AllBearOut(t, bus, places, columns, teachers) ==
  /\ teachers # {}
  /\ \A d \in teachers :
       BearsOut({o \in Range(Observations(d)) : o.key[1] = Grid[target][t].type /\ o.key[3] = bus},
                places[t][2],
                Grid[target][t].x - columns[bus][Grid[target][t].bits[bus].column + 1],
                Grid[target][t].bits[bus])

\* "The law learnt off a device rebuilds that device exactly"
\* (utils/test_tilegrid_derive.py), and those of its family: an entry of the
\* target that the references which are not astray bear out is derived as it is
\* in the target's own tilegrid, whatever other references were named.
LawRebuilds ==
  pc = "done" /\ target \notin Astray =>
    \A t \in DOMAIN ClockRowOf(Grid[target]) : \A bus \in DOMAIN Grid[target][t].bits :
      AllBearOut(t, bus, ClockRowOf(Grid[target]), AnchorColumns(Grid[target]),
                 Range(model.references) \ Astray) =>
        {x[3] : x \in {y \in derived : y[1] = t /\ y[2] = bus}} = {Grid[target][t].bits[bus]}
=============================================================================
