-------------------------------- MODULE Part --------------------------------
(***************************************************************************)
(* Frame addresses of a 7-series part and the order in which the           *)
(* configuration logic walks them: lib/xilinx/xc7series/frame_address.cc,  *)
(* configuration_column.cc, configuration_bus.cc, configuration_row.cc,    *)
(* global_clock_region.cc and part.cc.                                     *)
(*                                                                         *)
(* A part is the function from <<block type, half, row, column>> to the    *)
(* number of frames of that column, 0 where the maps of the code have no   *)
(* such column.  An absl::optional<FrameAddress> is a set of at most one   *)
(* address.                                                                *)
(***************************************************************************)
EXTENDS Integers

CONSTANTS NumRows,     \* 2^5 in the address format
          NumColumns,  \* 2^10
          NumMinors    \* 2^7

ASSUME PartAssumption ==
  NumRows \in Nat \ {0} /\ NumColumns \in Nat \ {0} /\ NumMinors \in Nat \ {0}

CLB_IO_CLK == 0
BLOCK_RAM == 1
CFG_CLB == 2

BlockTypes == {CLB_IO_CLK, BLOCK_RAM, CFG_CLB}
Halves == {0, 1}    \* is_bottom_half_rows
Rows == 0..(NumRows - 1)
Columns == 0..(NumColumns - 1)
Minors == 0..(NumMinors - 1)

Addresses == [block_type : BlockTypes, half : Halves, row : Rows,
              column : Columns, minor : Minors]

FrameAddress(t, h, r, c, m) ==
  [block_type |-> t, half |-> h, row |-> r, column |-> c, minor |-> m]

\* The order of the 32-bit addresses, the key order of every std::map of
\* frames: the fields are bit fields, block type on top.
Before(a, b) ==
  \/ a.block_type < b.block_type
  \/ /\ a.block_type = b.block_type
     /\ \/ a.half < b.half
        \/ /\ a.half = b.half
           /\ \/ a.row < b.row
              \/ /\ a.row = b.row
                 /\ \/ a.column < b.column
                    \/ a.column = b.column /\ a.minor < b.minor

ColumnKeys == BlockTypes \X Halves \X Rows \X Columns
Parts == [ColumnKeys -> 0..NumMinors]

\* The part built from a collection of addresses: a column has the frames up
\* to the largest minor address seen in it.
PartOf(addresses) ==
  [k \in ColumnKeys |->
     LET minors == {a.minor : a \in {b \in addresses :
                        <<b.block_type, b.half, b.row, b.column>> = k}}
     IN  IF minors = {} THEN 0
         ELSE 1 + CHOOSE m \in minors : \A n \in minors : n <= m]

\* The columns in the map of a's bus, and the rows in the map of a's region.
KnownColumns(p, a) == {c \in Columns : p[<<a.block_type, a.half, a.row, c>>] > 0}
KnownRows(p, a) == {r \in Rows : \E t \in BlockTypes, c \in Columns :
                                   p[<<t, a.half, r, c>>] > 0}

\* The key after k in an ordered map with the keys S: ++iterator.
Following(S, k) == {j \in S : k < j /\ \A i \in S : k < i => j <= i}

FrameCount(p, a) == p[<<a.block_type, a.half, a.row, a.column>>]

IsValidFrameAddress(p, a) == a.minor < FrameCount(p, a)

ValidAddresses(p) == {a \in Addresses : IsValidFrameAddress(p, a)}
-----------------------------------------------------------------------------
(* Faulty forms of the operators below, each as a plausible bug would        *)
(* change it.                                                                *)

\* "minor + 2 < frame_count_": the last frame of a column is skipped.
ColumnNextShort(p, a) ==
  {b \in {[a EXCEPT !.minor = @ + 1]} : b.minor + 1 < FrameCount(p, a)}

\* "minor + 1 <= frame_count_": one frame too many.
ColumnNextLong(p, a) ==
  {b \in {[a EXCEPT !.minor = @ + 1]} : b.minor <= FrameCount(p, a)}

\* The iterator is not incremented.
RegionRowsStuck(p, a) == KnownRows(p, a) \cap {a.row}
-----------------------------------------------------------------------------
\* ConfigurationColumn::GetNextFrameAddress.
ColumnNext(p, a) ==
  {b \in {[a EXCEPT !.minor = @ + 1]} : b.minor < FrameCount(p, a)}

\* ConfigurationBus::GetNextFrameAddress, to which Row leaves the answer: the
\* next minor address of a known column, or the start of the column after it.
BusNext(p, a) ==
  IF a.column \notin KnownColumns(p, a) THEN {}
  ELSE IF ColumnNext(p, a) # {} THEN ColumnNext(p, a)
  ELSE {[a EXCEPT !.column = c, !.minor = 0] :
          c \in Following(KnownColumns(p, a), a.column)}

\* The rows after a's row in the map of its region, at most one.
RegionRows(p, a) == Following(KnownRows(p, a), a.row)

\* GlobalClockRegion::GetNextFrameAddress: within the row, or the start of the
\* row after it if that row has frame 0 of column 0 on the same bus.
RegionNext(p, a) ==
  IF a.row \notin KnownRows(p, a) THEN {}
  ELSE IF BusNext(p, a) # {} THEN BusNext(p, a)
  ELSE {b \in {[a EXCEPT !.row = r, !.column = 0, !.minor = 0] :
                 r \in RegionRows(p, a)} : IsValidFrameAddress(p, b)}

\* The first address of a block type in one half, if the part has it.
StartOf(p, t, h) ==
  {b \in {FrameAddress(t, h, 0, 0, 0)} : IsValidFrameAddress(p, b)}

\* Part::GetNextFrameAddress: within the region; from the top half to the
\* bottom half; to the next block types, which start in the top half.
GetNextFrameAddress(p, a) ==
  LET region == RegionNext(p, a)
      bottom == IF a.half = 0 THEN StartOf(p, a.block_type, 1) ELSE {}
      ram    == IF a.block_type < BLOCK_RAM THEN StartOf(p, BLOCK_RAM, 0) ELSE {}
      cfg    == IF a.block_type < CFG_CLB THEN StartOf(p, CFG_CLB, 0) ELSE {}
  IN  IF region # {} THEN region
      ELSE IF bottom # {} THEN bottom
      ELSE IF ram # {} THEN ram
      ELSE cfg
-----------------------------------------------------------------------------
\* A part without the gaps that the code takes for the end of a region or of a
\* block type: a bus has column 0, the rows that have a bus come before the
\* rows that lack it, and a block type found anywhere is found in row 0 of its
\* half and of the top half.
HasBus(p, t, h, r) == \E c \in Columns : p[<<t, h, r, c>>] > 0

WellFormed(p) ==
  /\ p[<<CLB_IO_CLK, 0, 0, 0>>] > 0
  /\ \A t \in BlockTypes, h \in Halves, r \in Rows :
       HasBus(p, t, h, r) =>
         /\ p[<<t, h, r, 0>>] > 0
         /\ p[<<t, h, 0, 0>>] > 0
         /\ p[<<t, 0, 0, 0>>] > 0
         /\ \A q \in Rows : (q < r /\ \E u \in BlockTypes : HasBus(p, u, h, q))
                              => HasBus(p, t, h, q)

\* global_clock_region.h, the comment on GetNextFrameAddress: "Returns the next
\* numerically increasing address known within this global clock region", if
\* it has the same block type.
NextInRegion(p, a) ==
  LET later == {b \in ValidAddresses(p) : /\ b.block_type = a.block_type
                                          /\ b.half = a.half
                                          /\ Before(a, b)}
  IN  {b \in later : \A c \in later : c = b \/ Before(b, c)}
=============================================================================
