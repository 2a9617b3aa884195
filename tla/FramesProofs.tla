---------------------------- MODULE FramesProofs ----------------------------
(***************************************************************************)
(* What GetNextFrameAddress returns, for every part and address: a valid   *)
(* address that comes later, and in a part without gaps the next one; and  *)
(* the walk of addMissingFrames along these addresses, and the round trip  *)
(* of xc7frames2bit and InitWithPackets, for every part that the format    *)
(* can hold, every set of frames in the file and every size of the address *)
(* fields.                                                                 *)
(***************************************************************************)
EXTENDS Frames2Bit, SequenceTheorems, NaturalsInduction, WellFoundedInduction, TLAPS

(***************************************************************************)
(* Least and largest elements.                                             *)
(***************************************************************************)
\* A set of naturals that is not empty has a least element.
LEMMA LeastExists ==
  ASSUME NEW S, S \subseteq Nat, S # {}
  PROVE  \E x \in S : \A y \in S : x <= y
<1>1. PICK x \in S : \A y \in S : ~ (<<y, x>> \in OpToRel(<, Nat))
  BY NatLessThanWellFounded, WFMin
<1>2. \A y \in S : ~ (y < x)
  BY <1>1 DEF OpToRel
<1> QED
  BY <1>2

\* A set of naturals with an upper bound has a largest element.
LEMMA LargestExists ==
  ASSUME NEW N \in Nat, NEW S, S \subseteq 0..N, S # {}
  PROVE  \E x \in S : \A y \in S : y <= x
<1> DEFINE T == {n \in Nat : n <= N /\ N - n \in S}
<1>1. T # {}
  <2>1. PICK s \in S : TRUE
    OBVIOUS
  <2>2. s \in 0..N /\ N - s \in Nat /\ N - (N - s) = s /\ N - s <= N
    OBVIOUS
  <2> QED
    BY <2>2
<1>2. T \subseteq Nat
  OBVIOUS
<1> HIDE DEF T
<1>3. PICK t \in T : \A u \in T : t <= u
  BY <1>1, <1>2, LeastExists
<1>4. t \in Nat /\ t <= N /\ N - t \in S
  BY <1>3 DEF T
<1>5. ASSUME NEW y \in S PROVE y <= N - t
  <2>1. y \in 0..N
    OBVIOUS
  <2>2. N - y \in Nat /\ N - y <= N /\ N - (N - y) = y
    BY <2>1
  <2>3. N - y \in T
    BY <2>2 DEF T
  <2>4. t <= N - y
    BY <1>3, <2>3
  <2> QED
    BY <1>4, <2>1, <2>4
<1> QED
  BY <1>4, <1>5

\* ++iterator stays in the map and moves on, and finds the least later key.
LEMMA FollowingFacts ==
  ASSUME NEW S, S \subseteq Nat, NEW k \in Nat
  PROVE  /\ \A j \in Following(S, k) : j \in S /\ k < j /\ j \in Nat
         /\ \A j, i \in Following(S, k) : j = i
         /\ \A i \in S : k < i => \E j \in Following(S, k) : j <= i
<1>1. \A j \in Following(S, k) : j \in S /\ k < j /\ j \in Nat
  BY DEF Following
<1>2. \A j, i \in Following(S, k) : j = i
  <2> SUFFICES ASSUME NEW j \in Following(S, k), NEW i \in Following(S, k)
               PROVE  j = i
    OBVIOUS
  <2>1. j \in Nat /\ i \in Nat /\ j <= i /\ i <= j
    BY DEF Following
  <2> QED
    BY <2>1
<1>3. ASSUME NEW i \in S, k < i PROVE \E j \in Following(S, k) : j <= i
  <2> DEFINE T == {n \in S : k < n}
  <2>1. PICK j \in T : \A n \in T : j <= n
    <3>1. T \subseteq Nat /\ i \in T
      BY <1>3
    <3> HIDE DEF T
    <3> QED
      BY <3>1, LeastExists
  <2>2. j \in Following(S, k)
    BY <2>1 DEF Following
  <2> QED
    BY <1>3, <2>1, <2>2
<1> QED
  BY <1>1, <1>2, <1>3

\* The constructors build a part from any set of addresses.
LEMMA PartOfIsPart ==
  ASSUME NEW S, S \subseteq Addresses
  PROVE  PartOf(S) \in Parts
<1> SUFFICES ASSUME NEW k \in ColumnKeys
             PROVE  PartOf(S)[k] \in 0..NumMinors
  BY DEF PartOf, Parts
<1> DEFINE minors == {a.minor : a \in {b \in S :
                        <<b.block_type, b.half, b.row, b.column>> = k}}
<1>1. minors \subseteq 0..(NumMinors - 1)
  BY DEF Addresses, Minors
<1>2. PartOf(S)[k] = IF minors = {} THEN 0
                     ELSE 1 + CHOOSE m \in minors : \A n \in minors : n <= m
  BY DEF PartOf
<1> HIDE DEF minors
<1>3. NumMinors \in Nat /\ NumMinors - 1 \in Nat
  BY PartAssumption
<1>4. CASE minors = {}
  BY <1>2, <1>3, <1>4
<1>5. CASE minors # {}
  <2> DEFINE top == CHOOSE m \in minors : \A n \in minors : n <= m
  <2>1. \E m \in minors : \A n \in minors : n <= m
    BY <1>1, <1>3, <1>5, LargestExists
  <2>2. top \in minors
    BY <2>1
  <2>3. top \in 0..(NumMinors - 1)
    BY <1>1, <2>2
  <2>4. PartOf(S)[k] = 1 + top
    BY <1>2, <1>5
  <2> HIDE DEF top
  <2> QED
    BY <1>3, <2>3, <2>4
<1> QED
  BY <1>4, <1>5

\* Built from all its own addresses, a part comes out as it was.
THEOREM PartOfValid ==
  ASSUME NEW p \in Parts
  PROVE  PartOf(ValidAddresses(p)) = p
<1> SUFFICES ASSUME NEW k \in ColumnKeys PROVE PartOf(ValidAddresses(p))[k] = p[k]
  <2>1. PartOf(ValidAddresses(p)) \in Parts
    BY PartOfIsPart DEF ValidAddresses
  <2> QED
    BY <2>1 DEF Parts
<1>0. PICK t \in BlockTypes, h \in Halves, r \in Rows, c \in Columns : k = <<t, h, r, c>>
  BY DEF ColumnKeys
<1> DEFINE minors == {a.minor : a \in {b \in ValidAddresses(p) :
                        <<b.block_type, b.half, b.row, b.column>> = k}}
<1>1. p[k] \in 0..NumMinors /\ NumMinors \in Nat
  BY PartAssumption DEF Parts
<1>2. PartOf(ValidAddresses(p))[k] =
        IF minors = {} THEN 0 ELSE 1 + CHOOSE m \in minors : \A n \in minors : n <= m
  BY <1>1 DEF PartOf
<1>3. ASSUME NEW m \in minors PROVE m \in 0..(p[k] - 1)
  <2>1. PICK b \in ValidAddresses(p) :
          <<b.block_type, b.half, b.row, b.column>> = k /\ m = b.minor
    OBVIOUS
  <2>2. m \in Minors /\ m < p[k]
    BY <2>1 DEF ValidAddresses, Addresses, IsValidFrameAddress, FrameCount
  <2> QED
    BY <1>1, <2>2 DEF Minors
<1>4. ASSUME NEW m \in 0..(p[k] - 1) PROVE m \in minors
  <2> DEFINE b == FrameAddress(t, h, r, c, m)
  <2>1. m \in Minors /\ m < p[k]
    BY <1>1 DEF Minors
  <2>2. /\ b \in Addresses /\ b.minor = m
        /\ <<b.block_type, b.half, b.row, b.column>> = k
    BY <1>0, <2>1 DEF FrameAddress, Addresses
  <2>3. b \in ValidAddresses(p)
    BY <2>1, <2>2 DEF ValidAddresses, IsValidFrameAddress, FrameCount, FrameAddress
  <2> QED
    BY <2>2, <2>3
<1> HIDE DEF minors
<1>5. CASE p[k] = 0
  BY <1>1, <1>2, <1>3, <1>5
<1>6. CASE p[k] > 0
  <2>1. p[k] - 1 \in minors /\ \A n \in minors : n \in Int /\ n <= p[k] - 1
    BY <1>1, <1>3, <1>4, <1>6
  <2>2. ASSUME NEW m \in minors, \A n \in minors : n <= m PROVE m = p[k] - 1
    BY <1>1, <2>1, <2>2
  <2>3. (CHOOSE m \in minors : \A n \in minors : n <= m) = p[k] - 1
    BY <2>1, <2>2
  <2> QED
    BY <1>1, <1>2, <2>1, <2>3
<1> QED
  BY <1>1, <1>5, <1>6
-----------------------------------------------------------------------------
(***************************************************************************)
(* What the next address is, level by level.                               *)
(***************************************************************************)
\* Within a column: the next minor address.
LEMMA ColumnNextFacts ==
  ASSUME NEW p \in Parts, NEW a \in Addresses, NEW b \in ColumnNext(p, a)
  PROVE  /\ b \in Addresses /\ IsValidFrameAddress(p, b)
         /\ b.block_type = a.block_type /\ b.half = a.half
         /\ b.row = a.row /\ b.column = a.column /\ b.minor = a.minor + 1
<1>1. b = [a EXCEPT !.minor = a.minor + 1] /\ b.minor < FrameCount(p, a)
  BY DEF ColumnNext
<1>2. FrameCount(p, a) \in 0..NumMinors
  BY DEF FrameCount, Parts, ColumnKeys, Addresses
<1>3. /\ b.block_type = a.block_type /\ b.half = a.half
      /\ b.row = a.row /\ b.column = a.column /\ b.minor = a.minor + 1
  BY <1>1 DEF Addresses
<1>4. FrameCount(p, b) = FrameCount(p, a)
  BY <1>3 DEF FrameCount
<1>5. a.minor + 1 \in Minors
  BY <1>1, <1>2, <1>3, PartAssumption DEF Addresses, Minors
<1>6. b \in Addresses
  BY <1>1, <1>5 DEF Addresses
<1> QED
  BY <1>1, <1>3, <1>4, <1>6 DEF IsValidFrameAddress

\* Within a row: the next minor address or the start of a later column.
LEMMA BusNextFacts ==
  ASSUME NEW p \in Parts, NEW a \in Addresses, NEW b \in BusNext(p, a)
  PROVE  /\ b \in Addresses /\ IsValidFrameAddress(p, b)
         /\ b.block_type = a.block_type /\ b.half = a.half /\ b.row = a.row
         /\ Before(a, b)
         /\ \A d \in BusNext(p, a) : d = b
<1>1. CASE ColumnNext(p, a) # {}
  <2>1. BusNext(p, a) = ColumnNext(p, a)
    BY <1>1 DEF BusNext
  <2>2. \A d \in BusNext(p, a) : d = b
    BY <2>1 DEF ColumnNext
  <2>3. a.minor < a.minor + 1
    BY DEF Addresses, Minors
  <2> QED
    BY <2>1, <2>2, <2>3, ColumnNextFacts DEF Before
<1>2. CASE ColumnNext(p, a) = {}
  <2> DEFINE later == Following(KnownColumns(p, a), a.column)
  <2>1. BusNext(p, a) = {[a EXCEPT !.column = c, !.minor = 0] : c \in later}
    BY <1>2 DEF BusNext
  <2>2. KnownColumns(p, a) \subseteq Nat /\ a.column \in Nat
    BY DEF KnownColumns, Columns, Addresses
  <2>3. PICK c \in later : b = [a EXCEPT !.column = c, !.minor = 0]
    BY <2>1
  <2>4. c \in KnownColumns(p, a) /\ a.column < c /\ \A d \in later : d = c
    BY <2>2, FollowingFacts
  <2>5. c \in Columns /\ p[<<a.block_type, a.half, a.row, c>>] > 0
    BY <2>4 DEF KnownColumns
  <2>6. 0 \in Minors
    BY PartAssumption DEF Minors
  <2>7. /\ b.block_type = a.block_type /\ b.half = a.half
        /\ b.row = a.row /\ b.column = c /\ b.minor = 0
    BY <2>3 DEF Addresses
  <2>8. b \in Addresses
    BY <2>3, <2>5, <2>6 DEF Addresses
  <2>9. IsValidFrameAddress(p, b)
    BY <2>5, <2>7 DEF IsValidFrameAddress, FrameCount
  <2>10. Before(a, b)
    BY <2>4, <2>7 DEF Before
  <2>11. \A d \in BusNext(p, a) : d = b
    BY <2>1, <2>3, <2>4
  <2> QED
    BY <2>7, <2>8, <2>9, <2>10, <2>11
<1> QED
  BY <1>1, <1>2

\* Within a region: the row, or the start of a later row.
LEMMA RegionNextFacts ==
  ASSUME NEW p \in Parts, NEW a \in Addresses, NEW b \in RegionNext(p, a)
  PROVE  /\ b \in Addresses /\ IsValidFrameAddress(p, b)
         /\ b.block_type = a.block_type /\ b.half = a.half
         /\ Before(a, b)
         /\ \A d \in RegionNext(p, a) : d = b
<1>1. CASE BusNext(p, a) # {}
  <2>1. RegionNext(p, a) = BusNext(p, a)
    BY <1>1 DEF RegionNext
  <2> QED
    BY <2>1, BusNextFacts
<1>2. CASE BusNext(p, a) = {}
  <2> DEFINE start(r) == [a EXCEPT !.row = r, !.column = 0, !.minor = 0]
             later == RegionRows(p, a)
  <2>1. \A d \in RegionNext(p, a) : /\ d \in {start(r) : r \in later}
                                    /\ IsValidFrameAddress(p, d)
    BY <1>2 DEF RegionNext
  <2>2. KnownRows(p, a) \subseteq Nat /\ a.row \in Nat
    BY DEF KnownRows, Rows, Addresses
  <2>3. PICK r \in later : b = start(r)
    BY <2>1
  <2>4. r \in KnownRows(p, a) /\ a.row < r /\ \A d \in later : d = r
    BY <2>2, FollowingFacts DEF RegionRows
  <2>5. r \in Rows
    BY <2>4 DEF KnownRows
  <2>6. 0 \in Minors /\ 0 \in Columns
    BY PartAssumption DEF Minors, Columns
  <2>7. b.block_type = a.block_type /\ b.half = a.half /\ b.row = r
    BY <2>3 DEF Addresses
  <2>8. b \in Addresses
    BY <2>3, <2>5, <2>6 DEF Addresses
  <2>9. Before(a, b)
    BY <2>4, <2>7 DEF Before
  <2>10. \A d \in RegionNext(p, a) : d = b
    BY <2>1, <2>3, <2>4
  <2> QED
    BY <2>1, <2>7, <2>8, <2>9, <2>10
<1> QED
  BY <1>1, <1>2

\* The start of a block type in a half is an address of the part.
LEMMA StartOfFacts ==
  ASSUME NEW p \in Parts, NEW t \in BlockTypes, NEW h \in Halves,
         NEW b \in StartOf(p, t, h)
  PROVE  /\ b = FrameAddress(t, h, 0, 0, 0)
         /\ b \in Addresses /\ IsValidFrameAddress(p, b)
         /\ b.block_type = t /\ b.half = h
<1>1. b = FrameAddress(t, h, 0, 0, 0) /\ IsValidFrameAddress(p, b)
  BY DEF StartOf
<1>2. 0 \in Rows /\ 0 \in Columns /\ 0 \in Minors
  BY PartAssumption DEF Rows, Columns, Minors
<1>3. b \in Addresses
  BY <1>1, <1>2 DEF Addresses, FrameAddress
<1> QED
  BY <1>1, <1>3 DEF FrameAddress

\* The next address of a part is at most one, is an address of the part, and
\* comes later: GetNextFrameAddress of part.cc, for any part and address.
THEOREM NextIsLater ==
  ASSUME NEW p \in Parts, NEW a \in Addresses,
         NEW b \in GetNextFrameAddress(p, a)
  PROVE  /\ b \in Addresses /\ IsValidFrameAddress(p, b)
         /\ Before(a, b)
         /\ \A d \in GetNextFrameAddress(p, a) : d = b
<1> DEFINE bottom == IF a.half = 0 THEN StartOf(p, a.block_type, 1) ELSE {}
           ram == IF a.block_type < BLOCK_RAM THEN StartOf(p, BLOCK_RAM, 0) ELSE {}
           cfg == IF a.block_type < CFG_CLB THEN StartOf(p, CFG_CLB, 0) ELSE {}
<1>1. GetNextFrameAddress(p, a) =
        IF RegionNext(p, a) # {} THEN RegionNext(p, a)
        ELSE IF bottom # {} THEN bottom ELSE IF ram # {} THEN ram ELSE cfg
  BY DEF GetNextFrameAddress
<1>2. /\ a.block_type \in BlockTypes /\ a.half \in Halves
      /\ 0 \in Halves /\ 1 \in Halves
      /\ BLOCK_RAM \in BlockTypes /\ CFG_CLB \in BlockTypes
  BY DEF Addresses, Halves, BlockTypes
<1>3. CASE RegionNext(p, a) # {}
  BY <1>1, <1>3, RegionNextFacts
<1>4. CASE RegionNext(p, a) = {} /\ bottom # {}
  <2>1. a.half = 0 /\ GetNextFrameAddress(p, a) = StartOf(p, a.block_type, 1)
    BY <1>1, <1>4
  <2>2. \A d \in GetNextFrameAddress(p, a) :
          /\ d = FrameAddress(a.block_type, 1, 0, 0, 0)
          /\ d \in Addresses /\ IsValidFrameAddress(p, d)
          /\ d.block_type = a.block_type /\ d.half = 1
    BY <1>2, <2>1, StartOfFacts
  <2> QED
    BY <2>1, <2>2 DEF Before
<1>5. CASE RegionNext(p, a) = {} /\ bottom = {} /\ ram # {}
  <2>1. a.block_type < BLOCK_RAM /\ GetNextFrameAddress(p, a) = StartOf(p, BLOCK_RAM, 0)
    BY <1>1, <1>5
  <2>2. \A d \in GetNextFrameAddress(p, a) :
          /\ d = FrameAddress(BLOCK_RAM, 0, 0, 0, 0)
          /\ d \in Addresses /\ IsValidFrameAddress(p, d)
          /\ d.block_type = BLOCK_RAM
    BY <1>2, <2>1, StartOfFacts
  <2> QED
    BY <2>1, <2>2 DEF Before
<1>6. CASE RegionNext(p, a) = {} /\ bottom = {} /\ ram = {}
  <2>1. a.block_type < CFG_CLB /\ GetNextFrameAddress(p, a) = StartOf(p, CFG_CLB, 0)
    BY <1>1, <1>6
  <2>2. \A d \in GetNextFrameAddress(p, a) :
          /\ d = FrameAddress(CFG_CLB, 0, 0, 0, 0)
          /\ d \in Addresses /\ IsValidFrameAddress(p, d)
          /\ d.block_type = CFG_CLB
    BY <1>2, <2>1, StartOfFacts
  <2> QED
    BY <2>1, <2>2 DEF Before
<1> QED
  BY <1>3, <1>4, <1>5, <1>6
-----------------------------------------------------------------------------
(***************************************************************************)
(* What the next address does not pass over.                               *)
(***************************************************************************)
\* Not after: the address b is c or comes before c.
UpTo(b, c) == b = c \/ Before(b, c)

\* In a row no address of the part is passed over, gaps or not.
LEMMA BusPassesNothing ==
  ASSUME NEW p \in Parts,
         NEW a \in Addresses, IsValidFrameAddress(p, a),
         NEW c \in Addresses, IsValidFrameAddress(p, c),
         c.block_type = a.block_type, c.half = a.half, c.row = a.row,
         Before(a, c)
  PROVE  \E b \in BusNext(p, a) : UpTo(b, c)
<1>1. /\ a.column \in Columns /\ a.minor \in Minors
      /\ c.column \in Columns /\ c.minor \in Minors
      /\ a.column \in Nat /\ c.column \in Nat
      /\ a.minor \in Int /\ c.minor \in Int
  BY DEF Addresses, Minors, Columns
<1>2. a.column < c.column \/ (a.column = c.column /\ a.minor < c.minor)
  BY DEF Before, Addresses, BlockTypes, Halves, Rows, CLB_IO_CLK, BLOCK_RAM, CFG_CLB
<1>3. p[<<a.block_type, a.half, a.row, a.column>>] \in 0..NumMinors
  BY DEF Parts, ColumnKeys, Addresses
<1>4. p[<<a.block_type, a.half, a.row, c.column>>] \in 0..NumMinors
  BY DEF Parts, ColumnKeys, Addresses
<1>5. /\ a.minor < p[<<a.block_type, a.half, a.row, a.column>>]
      /\ c.minor < p[<<a.block_type, a.half, a.row, c.column>>]
  BY DEF IsValidFrameAddress, FrameCount
<1>6. 0 <= a.minor /\ 0 <= c.minor
  BY DEF Addresses, Minors
<1>7. a.column \in KnownColumns(p, a) /\ c.column \in KnownColumns(p, a)
  BY <1>1, <1>3, <1>4, <1>5, <1>6, PartAssumption DEF KnownColumns, Minors
<1>8. CASE ColumnNext(p, a) # {}
  <2>1. PICK b \in ColumnNext(p, a) : TRUE
    BY <1>8
  <2>2. b \in BusNext(p, a)
    BY <1>7, <2>1 DEF BusNext
  <2>3. /\ b \in Addresses /\ b.block_type = c.block_type /\ b.half = c.half
        /\ b.row = c.row /\ b.column = a.column /\ b.minor = a.minor + 1
    BY <2>1, ColumnNextFacts
  <2>4. CASE a.column < c.column
    BY <2>2, <2>3, <2>4 DEF UpTo, Before
  <2>5. CASE a.column = c.column /\ a.minor < c.minor
    <3>1. a.minor + 1 = c.minor \/ a.minor + 1 < c.minor
      BY <1>1, <2>5
    <3>2. CASE a.minor + 1 < c.minor
      BY <2>2, <2>3, <2>5, <3>2 DEF UpTo, Before
    <3>3. CASE a.minor + 1 = c.minor
      <4>1. b = c
        BY <2>3, <2>5, <3>3 DEF Addresses
      <4> QED
        BY <2>2, <4>1 DEF UpTo
    <3> QED
      BY <3>1, <3>2, <3>3
  <2> QED
    BY <1>2, <2>4, <2>5
<1>9. CASE ColumnNext(p, a) = {}
  <2>1. a.column < c.column
    <3> SUFFICES ASSUME a.column = c.column, a.minor < c.minor
                 PROVE  FALSE
      BY <1>2
    <3> DEFINE b == [a EXCEPT !.minor = a.minor + 1]
    <3>1. b.minor = a.minor + 1
      BY DEF Addresses
    <3>2. a.minor + 1 < p[<<a.block_type, a.half, a.row, a.column>>]
      BY <1>1, <1>3, <1>5, PartAssumption DEF Minors
    <3>3. b \in ColumnNext(p, a)
      BY <3>1, <3>2 DEF ColumnNext, FrameCount
    <3> QED
      BY <1>9, <3>3
  <2>2. KnownColumns(p, a) \subseteq Nat
    BY DEF KnownColumns, Columns
  <2>3. PICK j \in Following(KnownColumns(p, a), a.column) : j <= c.column
    BY <1>1, <1>7, <2>1, <2>2, FollowingFacts
  <2>4. j \in Nat
    BY <1>1, <2>2, FollowingFacts
  <2> DEFINE b == [a EXCEPT !.column = j, !.minor = 0]
  <2>5. b \in BusNext(p, a)
    BY <1>7, <1>9 DEF BusNext
  <2>6. b \in Addresses
    BY <2>5, BusNextFacts
  <2>7. /\ b.block_type = c.block_type /\ b.half = c.half
        /\ b.row = c.row /\ b.column = j /\ b.minor = 0
    BY DEF Addresses
  <2> HIDE DEF b
  <2>8. \/ j < c.column
        \/ j = c.column /\ 0 < c.minor
        \/ j = c.column /\ 0 = c.minor
    BY <1>1, <1>6, <2>3, <2>4
  <2>9. CASE j < c.column
    BY <2>5, <2>7, <2>9 DEF UpTo, Before
  <2>10. CASE j = c.column /\ 0 < c.minor
    BY <2>5, <2>7, <2>10 DEF UpTo, Before
  <2>11. CASE j = c.column /\ 0 = c.minor
    <3>1. b = c
      BY <2>6, <2>7, <2>11 DEF Addresses
    <3> QED
      BY <2>5, <3>1 DEF UpTo
  <2> QED
    BY <2>8, <2>9, <2>10, <2>11
<1> QED
  BY <1>8, <1>9

\* The start of a column 0 comes up to every address of its bus and row.
LEMMA StartUpTo ==
  ASSUME NEW b \in Addresses, NEW c \in Addresses,
         b.block_type = c.block_type, b.half = c.half, b.row <= c.row,
         b.column = 0, b.minor = 0
  PROVE  UpTo(b, c)
<1>1. /\ b.row \in Int /\ c.row \in Int
      /\ c.column \in Nat /\ c.minor \in Int /\ 0 <= c.minor
  BY DEF Addresses, Rows, Columns, Minors
<1>2. \/ b.row < c.row
      \/ b.row = c.row /\ 0 < c.column
      \/ b.row = c.row /\ 0 = c.column /\ 0 < c.minor
      \/ b.row = c.row /\ 0 = c.column /\ 0 = c.minor
  BY <1>1
<1>3. CASE b.row = c.row /\ 0 = c.column /\ 0 = c.minor
  <2>1. b = c
    BY <1>3 DEF Addresses
  <2> QED
    BY <2>1 DEF UpTo
<1> QED
  BY <1>2, <1>3 DEF UpTo, Before

\* The part has the bus of each of its addresses.
LEMMA ValidHasBus ==
  ASSUME NEW p \in Parts, NEW c \in Addresses, IsValidFrameAddress(p, c)
  PROVE  HasBus(p, c.block_type, c.half, c.row)
<1>1. p[<<c.block_type, c.half, c.row, c.column>>] \in 0..NumMinors
  BY DEF Parts, ColumnKeys, Addresses
<1>2. c.minor \in Int /\ 0 <= c.minor /\ c.column \in Columns
  BY DEF Addresses, Minors
<1>3. c.minor < p[<<c.block_type, c.half, c.row, c.column>>]
  BY DEF IsValidFrameAddress, FrameCount
<1>4. p[<<c.block_type, c.half, c.row, c.column>>] > 0
  BY <1>1, <1>2, <1>3, PartAssumption
<1> QED
  BY <1>2, <1>4 DEF HasBus

\* In a half of a part without gaps no address of the same block type is
\* passed over.
LEMMA RegionPassesNothing ==
  ASSUME NEW p \in Parts, WellFormed(p),
         NEW a \in Addresses, IsValidFrameAddress(p, a),
         NEW c \in Addresses, IsValidFrameAddress(p, c),
         c.block_type = a.block_type, c.half = a.half, Before(a, c)
  PROVE  \E b \in RegionNext(p, a) : UpTo(b, c)
<1>1. /\ a.row \in Rows /\ c.row \in Rows /\ a.row \in Nat /\ c.row \in Nat
      /\ a.block_type \in BlockTypes /\ a.half \in Halves
  BY DEF Addresses, Rows
<1>2. a.row <= c.row
  BY <1>1 DEF Before, Addresses, BlockTypes, Halves, Rows, CLB_IO_CLK, BLOCK_RAM, CFG_CLB
<1>3. HasBus(p, a.block_type, a.half, a.row) /\ HasBus(p, a.block_type, a.half, c.row)
  BY ValidHasBus
<1>4. a.row \in KnownRows(p, a) /\ c.row \in KnownRows(p, a)
  BY <1>1, <1>3 DEF HasBus, KnownRows
<1>5. CASE a.row = c.row
  <2>1. PICK b \in BusNext(p, a) : UpTo(b, c)
    BY <1>5, BusPassesNothing
  <2>2. RegionNext(p, a) = BusNext(p, a)
    BY <1>4, <2>1 DEF RegionNext
  <2> QED
    BY <2>1, <2>2
<1>6. CASE a.row < c.row /\ BusNext(p, a) # {}
  <2>1. PICK b \in BusNext(p, a) : TRUE
    BY <1>6
  <2>2. b \in RegionNext(p, a)
    BY <1>4, <2>1 DEF RegionNext
  <2>3. b.block_type = c.block_type /\ b.half = c.half /\ b.row = a.row
    BY <2>1, BusNextFacts
  <2> QED
    BY <1>6, <2>2, <2>3 DEF UpTo, Before
<1>7. CASE a.row < c.row /\ BusNext(p, a) = {}
  <2>1. KnownRows(p, a) \subseteq Nat
    BY DEF KnownRows, Rows
  <2>2. PICK j \in RegionRows(p, a) : j <= c.row
    BY <1>1, <1>4, <1>7, <2>1, FollowingFacts DEF RegionRows
  <2>3. j \in KnownRows(p, a) /\ j \in Rows /\ j \in Nat
    BY <1>1, <2>1, <2>2, FollowingFacts DEF RegionRows, KnownRows
  <2>4. \E u \in BlockTypes : HasBus(p, u, a.half, j)
    BY <2>3 DEF KnownRows, HasBus
  <2>5. HasBus(p, a.block_type, a.half, j)
    <3>1. CASE j = c.row
      BY <1>3, <3>1
    <3>2. CASE j < c.row
      BY <1>1, <1>3, <2>3, <2>4, <3>2 DEF WellFormed
    <3> QED
      BY <1>1, <2>2, <2>3, <3>1, <3>2
  <2>6. p[<<a.block_type, a.half, j, 0>>] > 0
    BY <1>1, <2>3, <2>5 DEF WellFormed
  <2> DEFINE b == [a EXCEPT !.row = j, !.column = 0, !.minor = 0]
  <2>7. /\ b.block_type = a.block_type /\ b.half = a.half
        /\ b.row = j /\ b.column = 0 /\ b.minor = 0
    BY DEF Addresses
  <2>8. b \in RegionNext(p, a)
    <3>1. IsValidFrameAddress(p, b)
      BY <2>6, <2>7 DEF IsValidFrameAddress, FrameCount
    <3> HIDE DEF b
    <3>2. b \in {[a EXCEPT !.row = r, !.column = 0, !.minor = 0] : r \in RegionRows(p, a)}
      BY <2>2 DEF b
    <3> QED
      BY <1>4, <1>7, <3>1, <3>2 DEF RegionNext
  <2> HIDE DEF b
  <2>9. b \in Addresses
    BY <2>8, RegionNextFacts
  <2>10. UpTo(b, c)
    BY <2>2, <2>7, <2>9, StartUpTo
  <2> QED
    BY <2>8, <2>10
<1> QED
  BY <1>1, <1>2, <1>5, <1>6, <1>7

\* GetNextFrameAddress of part.cc passes over no address of a part without
\* gaps: what comes next is up to every later address.
THEOREM NextIsNext ==
  ASSUME NEW p \in Parts, WellFormed(p),
         NEW a \in Addresses, IsValidFrameAddress(p, a),
         NEW c \in Addresses, IsValidFrameAddress(p, c),
         Before(a, c)
  PROVE  \E b \in GetNextFrameAddress(p, a) : UpTo(b, c)
<1> DEFINE bottom == IF a.half = 0 THEN StartOf(p, a.block_type, 1) ELSE {}
           ram == IF a.block_type < BLOCK_RAM THEN StartOf(p, BLOCK_RAM, 0) ELSE {}
           cfg == IF a.block_type < CFG_CLB THEN StartOf(p, CFG_CLB, 0) ELSE {}
<1>1. GetNextFrameAddress(p, a) =
        IF RegionNext(p, a) # {} THEN RegionNext(p, a)
        ELSE IF bottom # {} THEN bottom ELSE IF ram # {} THEN ram ELSE cfg
  BY DEF GetNextFrameAddress
<1>2. /\ a.block_type \in BlockTypes /\ a.half \in Halves
      /\ c.block_type \in BlockTypes /\ c.half \in Halves /\ c.row \in Rows
  BY DEF Addresses
<1>3. HasBus(p, c.block_type, c.half, c.row)
  BY ValidHasBus
<1>4. p[<<c.block_type, c.half, 0, 0>>] > 0 /\ p[<<c.block_type, 0, 0, 0>>] > 0
  BY <1>2, <1>3 DEF WellFormed
<1>5. ASSUME NEW h \in Halves, p[<<c.block_type, h, 0, 0>>] > 0
      PROVE  FrameAddress(c.block_type, h, 0, 0, 0) \in StartOf(p, c.block_type, h)
  BY <1>5 DEF StartOf, IsValidFrameAddress, FrameCount, FrameAddress
<1>6. CASE c.block_type = a.block_type /\ c.half = a.half
  BY <1>1, <1>6, RegionPassesNothing
<1>7. CASE c.block_type = a.block_type /\ c.half # a.half
  <2>1. a.half = 0 /\ c.half = 1
    BY <1>2, <1>7 DEF Before, Halves, BlockTypes, CLB_IO_CLK, BLOCK_RAM, CFG_CLB
  <2>2. CASE RegionNext(p, a) # {}
    <3>1. PICK b \in RegionNext(p, a) : TRUE
      BY <2>2
    <3>2. b \in GetNextFrameAddress(p, a)
      BY <1>1, <3>1
    <3>3. b.block_type = c.block_type /\ b.half = 0
      BY <1>7, <2>1, <3>1, RegionNextFacts
    <3> QED
      BY <2>1, <3>2, <3>3 DEF UpTo, Before
  <2>3. CASE RegionNext(p, a) = {}
    <3> DEFINE b == FrameAddress(c.block_type, 1, 0, 0, 0)
    <3>1. b \in StartOf(p, c.block_type, 1)
      BY <1>4, <1>5, <2>1 DEF Halves
    <3>2. b \in Addresses /\ b.block_type = c.block_type /\ b.half = 1
      BY <1>2, <3>1, StartOfFacts DEF Halves
    <3>3. b.row = 0 /\ b.column = 0 /\ b.minor = 0 /\ 0 <= c.row
      BY <1>2 DEF FrameAddress, Rows
    <3>4. b \in GetNextFrameAddress(p, a)
      BY <1>1, <1>7, <2>1, <2>3, <3>1
    <3> HIDE DEF b
    <3> QED
      BY <2>1, <3>2, <3>3, <3>4, StartUpTo
  <2> QED
    BY <2>2, <2>3
<1>8. CASE c.block_type # a.block_type
  <2>1. a.block_type < c.block_type
    BY <1>2, <1>8 DEF Before, BlockTypes, CLB_IO_CLK, BLOCK_RAM, CFG_CLB
  <2>2. CASE RegionNext(p, a) # {}
    <3>1. PICK b \in RegionNext(p, a) : TRUE
      BY <2>2
    <3>2. b \in GetNextFrameAddress(p, a) /\ b.block_type = a.block_type
      BY <1>1, <3>1, RegionNextFacts
    <3> QED
      BY <2>1, <3>2 DEF UpTo, Before
  <2>3. CASE RegionNext(p, a) = {} /\ bottom # {}
    <3>1. PICK b \in bottom : TRUE
      BY <2>3
    <3>2. b \in GetNextFrameAddress(p, a) /\ b \in StartOf(p, a.block_type, 1)
      BY <1>1, <2>3, <3>1
    <3>3. b.block_type = a.block_type
      BY <1>2, <3>2, StartOfFacts DEF Halves
    <3> QED
      BY <2>1, <3>2, <3>3 DEF UpTo, Before
  <2>4. ASSUME NEW t \in BlockTypes, t <= c.block_type,
               NEW b \in StartOf(p, t, 0), b \in GetNextFrameAddress(p, a)
        PROVE  \E d \in GetNextFrameAddress(p, a) : UpTo(d, c)
    <3>1. /\ b = FrameAddress(t, 0, 0, 0, 0)
          /\ b \in Addresses /\ b.block_type = t /\ b.half = 0
      BY <2>4, StartOfFacts DEF Halves
    <3>2. b.row = 0 /\ b.column = 0 /\ b.minor = 0 /\ 0 <= c.row
      BY <1>2, <3>1 DEF FrameAddress, Rows
    <3>3. \/ t < c.block_type
          \/ t = c.block_type /\ 0 < c.half
          \/ t = c.block_type /\ 0 = c.half
      BY <1>2, <2>4 DEF BlockTypes, Halves, CLB_IO_CLK, BLOCK_RAM, CFG_CLB
    <3>4. CASE t = c.block_type /\ 0 = c.half
      BY <2>4, <3>1, <3>2, <3>4, StartUpTo
    <3>5. CASE t < c.block_type \/ (t = c.block_type /\ 0 < c.half)
      BY <2>4, <3>1, <3>5 DEF UpTo, Before
    <3> QED
      BY <3>3, <3>4, <3>5
  <2>5. CASE RegionNext(p, a) = {} /\ bottom = {} /\ ram # {}
    <3>1. PICK b \in ram : TRUE
      BY <2>5
    <3>2. /\ a.block_type < BLOCK_RAM /\ b \in StartOf(p, BLOCK_RAM, 0)
          /\ b \in GetNextFrameAddress(p, a)
      BY <1>1, <2>5, <3>1
    <3>3. BLOCK_RAM \in BlockTypes /\ BLOCK_RAM <= c.block_type
      BY <1>2, <2>1, <3>2 DEF BlockTypes, CLB_IO_CLK, BLOCK_RAM, CFG_CLB
    <3> QED
      BY <2>4, <3>2, <3>3
  <2>6. CASE RegionNext(p, a) = {} /\ bottom = {} /\ ram = {}
    <3>1. c.block_type = CFG_CLB
      <4> SUFFICES ASSUME c.block_type = BLOCK_RAM, a.block_type < BLOCK_RAM
                   PROVE  FALSE
        BY <1>2, <2>1 DEF BlockTypes, CLB_IO_CLK, BLOCK_RAM, CFG_CLB
      <4>1. StartOf(p, BLOCK_RAM, 0) # {}
        BY <1>4, <1>5 DEF Halves
      <4> QED
        BY <2>6, <4>1
    <3>2. FrameAddress(CFG_CLB, 0, 0, 0, 0) \in StartOf(p, CFG_CLB, 0)
      BY <1>4, <1>5, <3>1 DEF Halves
    <3>3. GetNextFrameAddress(p, a) = StartOf(p, CFG_CLB, 0)
      BY <1>1, <2>1, <2>6, <3>1
    <3>4. CFG_CLB \in BlockTypes /\ CFG_CLB <= c.block_type
      BY <3>1 DEF BlockTypes, CFG_CLB
    <3> QED
      BY <2>4, <3>2, <3>3, <3>4
  <2> QED
    BY <2>2, <2>3, <2>5, <2>6
<1> QED
  BY <1>6, <1>7, <1>8

(***************************************************************************)
(* The walk of addMissingFrames.                                           *)
(***************************************************************************)
\* Address 0 is an address, whatever the part has there.
LEMMA ZeroIsAddress == Zero \in Addresses
<1>1. 0 \in Rows /\ 0 \in Columns /\ 0 \in Minors
  BY PartAssumption DEF Rows, Columns, Minors
<1> QED
  BY <1>1 DEF Zero, FrameAddress, Addresses, BlockTypes, Halves

\* No address comes before address 0.
LEMMA ZeroUpTo ==
  ASSUME NEW c \in Addresses
  PROVE  UpTo(Zero, c)
<1>1. /\ Zero.block_type = 0 /\ Zero.half = 0 /\ Zero.row = 0
      /\ Zero.column = 0 /\ Zero.minor = 0
  BY DEF Zero, FrameAddress, CLB_IO_CLK
<1>2. /\ c.block_type \in {0, 1, 2} /\ c.half \in {0, 1} /\ 0 <= c.row
  BY DEF Addresses, BlockTypes, Halves, Rows, CLB_IO_CLK, BLOCK_RAM, CFG_CLB
<1>3. CASE c.block_type = 0 /\ c.half = 0
  BY <1>1, <1>2, <1>3, ZeroIsAddress, StartUpTo
<1>4. CASE c.block_type > 0 \/ (c.block_type = 0 /\ c.half > 0)
  BY <1>1, <1>4 DEF UpTo, Before
<1> QED
  BY <1>2, <1>3, <1>4

\* In the initial states everything lies ahead.
LEMMA InitInv ==
  Init => TypeOK /\ WalkStandsOnPart /\ OnlyMissingAdded /\ NoFrameMissing
<1> SUFFICES ASSUME Init
             PROVE  TypeOK /\ WalkStandsOnPart /\ OnlyMissingAdded /\ NoFrameMissing
  OBVIOUS
<1>1. /\ frames = [a \in file |-> Data(a)] /\ file \subseteq Addresses
      /\ current = {Zero}
  BY FramesAssumption DEF Init
<1>2. part \in Parts
  <2>1. PICK known \in SUBSET PartAddresses : part = PartOf(known)
    BY DEF Init
  <2>2. known \subseteq Addresses
    BY <2>1, FramesAssumption
  <2> QED
    BY <2>1, <2>2, PartOfIsPart
<1>3. TypeOK
  BY <1>1, <1>2, ZeroIsAddress DEF TypeOK, FrameData
<1>4. WalkStandsOnPart
  BY <1>1 DEF WalkStandsOnPart
<1>5. OnlyMissingAdded
  BY <1>1 DEF OnlyMissingAdded
<1>6. NoFrameMissing
  BY <1>1, ZeroUpTo DEF NoFrameMissing, ValidAddresses, UpTo
<1> QED
  BY <1>3, <1>4, <1>5, <1>6

\* One turn of the loop: what changes.
LEMMA StepFacts ==
  ASSUME TypeOK, NEW a \in current, AddMissingFrame(a)
  PROVE  /\ part' = part /\ file' = file
         /\ a \in Addresses /\ part \in Parts
         /\ current = {a} /\ current' = GetNextFrameAddress(part, a)
         /\ DOMAIN frames' = DOMAIN frames \cup {a}
         /\ \A b \in DOMAIN frames : frames'[b] = frames[b]
         /\ a \notin DOMAIN frames => frames'[a] = Empty
BY DEF TypeOK, AddMissingFrame

\* Every turn of the loop keeps the four invariants.
LEMMA NextInv ==
  ASSUME TypeOK, WalkStandsOnPart, OnlyMissingAdded, NoFrameMissing,
         [Next]_vars
  PROVE  TypeOK' /\ WalkStandsOnPart' /\ OnlyMissingAdded' /\ NoFrameMissing'
<1>1. CASE UNCHANGED vars
  BY <1>1 DEF vars, TypeOK, WalkStandsOnPart, OnlyMissingAdded, NoFrameMissing
<1>2. ASSUME NEW a \in current, AddMissingFrame(a)
      PROVE  TypeOK' /\ WalkStandsOnPart' /\ OnlyMissingAdded' /\ NoFrameMissing'
  <2>1. /\ part' = part /\ file' = file
        /\ a \in Addresses /\ part \in Parts
        /\ current = {a} /\ current' = GetNextFrameAddress(part, a)
        /\ DOMAIN frames' = DOMAIN frames \cup {a}
        /\ \A b \in DOMAIN frames : frames'[b] = frames[b]
        /\ a \notin DOMAIN frames => frames'[a] = Empty
    BY <1>2, StepFacts
  <2>2. \A b \in current' : /\ b \in Addresses
                            /\ IsValidFrameAddress(part, b)
                            /\ \A d \in current' : d = b
    BY <2>1, NextIsLater
  <2>3. TypeOK'
    BY <2>1, <2>2 DEF TypeOK, FrameData
  <2>4. WalkStandsOnPart'
    BY <2>1, <2>2 DEF WalkStandsOnPart
  <2>5. OnlyMissingAdded'
    BY <2>1 DEF OnlyMissingAdded, WalkStandsOnPart
  <2>6. NoFrameMissing'
    <3> SUFFICES ASSUME WellFormed(part),
                        NEW c \in Addresses, IsValidFrameAddress(part, c),
                        c \notin DOMAIN frames'
                 PROVE  \E b \in current' : UpTo(b, c)
      BY <2>1 DEF NoFrameMissing, ValidAddresses, UpTo
    <3>1. Before(a, c)
      BY <2>1 DEF NoFrameMissing, ValidAddresses
    <3>2. IsValidFrameAddress(part, a)
      <4>1. CASE a = Zero
        <5>1. part[<<0, 0, 0, 0>>] > 0
          BY DEF WellFormed, CLB_IO_CLK
        <5> QED
          BY <4>1, <5>1 DEF IsValidFrameAddress, FrameCount, Zero, FrameAddress, CLB_IO_CLK
      <4> QED
        BY <4>1 DEF WalkStandsOnPart
    <3> QED
      BY <2>1, <3>1, <3>2, NextIsNext
  <2> QED
    BY <2>3, <2>4, <2>5, <2>6
<1> QED
  BY <1>1, <1>2 DEF Next

\* The four are invariants of the walk.
LEMMA Inv ==
  Spec => [](TypeOK /\ WalkStandsOnPart /\ OnlyMissingAdded /\ NoFrameMissing)
BY InitInv, NextInv, PTL DEF Spec

\* Every state of the walk is well typed.
THEOREM TypeCorrect == Spec => []TypeOK
BY Inv, PTL

\* Every frame of the file stays as it was read, and a frame is added only
\* where the part has one or at address 0.
THEOREM FramesOfFileStay == Spec => []OnlyMissingAdded
BY Inv, PTL

\* When the walk over a part without gaps ends, no frame is missing.
THEOREM AllFramesAdded == Spec => []NoFrameMissing
BY Inv, PTL

\* The walk goes forward only, in every part, with gaps or without.
THEOREM Forward == Spec => WalkGoesForward
<1>1. ASSUME TypeOK, [Next]_vars
      PROVE  [\A a \in current, b \in current' : Before(a, b)]_vars
  <2>1. CASE UNCHANGED vars
    BY <2>1
  <2>2. ASSUME NEW a \in current, AddMissingFrame(a)
        PROVE  \A c \in current, b \in current' : Before(c, b)
    <3>1. /\ a \in Addresses /\ part \in Parts
          /\ current = {a} /\ current' = GetNextFrameAddress(part, a)
      BY <1>1, <2>2, StepFacts
    <3> QED
      BY <3>1, NextIsLater
  <2> QED
    BY <1>1, <2>1, <2>2 DEF Next
<1> QED
  BY <1>1, TypeCorrect, PTL DEF Spec, WalkGoesForward

(***************************************************************************)
(* The order of the addresses.                                             *)
(***************************************************************************)
\* The fields of an address are integers.
LEMMA FieldsAreInts ==
  ASSUME NEW a \in Addresses
  PROVE  /\ a.block_type \in Nat /\ a.half \in Nat /\ a.row \in Nat
         /\ a.column \in Nat /\ a.minor \in Nat
BY DEF Addresses, BlockTypes, Halves, Rows, Columns, Minors,
       CLB_IO_CLK, BLOCK_RAM, CFG_CLB

\* Two addresses with the same fields are the same.
LEMMA SameFields ==
  ASSUME NEW a \in Addresses, NEW b \in Addresses,
         a.block_type = b.block_type, a.half = b.half, a.row = b.row,
         a.column = b.column, a.minor = b.minor
  PROVE  a = b
BY DEF Addresses

\* Before is a strict total order.
LEMMA BeforeOrder ==
  /\ \A a, b \in Addresses : a = b \/ Before(a, b) \/ Before(b, a)
  /\ \A a, b \in Addresses : Before(a, b) => a # b /\ ~ Before(b, a)
  /\ \A a, b, c \in Addresses : Before(a, b) /\ Before(b, c) => Before(a, c)
<1>1. ASSUME NEW a \in Addresses, NEW b \in Addresses
      PROVE  a = b \/ Before(a, b) \/ Before(b, a)
  BY FieldsAreInts, SameFields DEF Before
<1>2. ASSUME NEW a \in Addresses, NEW b \in Addresses, Before(a, b)
      PROVE  a # b /\ ~ Before(b, a)
  BY <1>2, FieldsAreInts DEF Before
<1>3. ASSUME NEW a \in Addresses, NEW b \in Addresses, NEW c \in Addresses,
             Before(a, b), Before(b, c)
      PROVE  Before(a, c)
  BY <1>3, FieldsAreInts DEF Before
<1> QED
  BY <1>1, <1>2, <1>3

\* A set of addresses that is not empty has exactly one first element.
LEMMA FirstExists ==
  ASSUME NEW S, S \subseteq Addresses, S # {}
  PROVE  \E a \in S : First(S) = {a}
<1>1. PICK s1 \in S : \A a \in S : s1.block_type <= a.block_type
  <2> DEFINE T == {a.block_type : a \in S}
  <2>1. T \subseteq Nat /\ T # {}
    BY FieldsAreInts
  <2>2. PICK t \in T : \A u \in T : t <= u
    BY <2>1, LeastExists
  <2> QED
    BY <2>2
<1> DEFINE S1 == {a \in S : a.block_type = s1.block_type}
<1>2. PICK s2 \in S1 : \A a \in S1 : s2.half <= a.half
  <2> DEFINE T == {a.half : a \in S1}
  <2>1. T \subseteq Nat /\ T # {}
    BY FieldsAreInts
  <2>2. PICK t \in T : \A u \in T : t <= u
    BY <2>1, LeastExists
  <2> QED
    BY <2>2
<1> DEFINE S2 == {a \in S1 : a.half = s2.half}
<1>3. PICK s3 \in S2 : \A a \in S2 : s3.row <= a.row
  <2> DEFINE T == {a.row : a \in S2}
  <2>1. T \subseteq Nat /\ T # {}
    BY FieldsAreInts
  <2>2. PICK t \in T : \A u \in T : t <= u
    BY <2>1, LeastExists
  <2> QED
    BY <2>2
<1> DEFINE S3 == {a \in S2 : a.row = s3.row}
<1>4. PICK s4 \in S3 : \A a \in S3 : s4.column <= a.column
  <2> DEFINE T == {a.column : a \in S3}
  <2>1. T \subseteq Nat /\ T # {}
    BY FieldsAreInts
  <2>2. PICK t \in T : \A u \in T : t <= u
    BY <2>1, LeastExists
  <2> QED
    BY <2>2
<1> DEFINE S4 == {a \in S3 : a.column = s4.column}
<1>5. PICK s5 \in S4 : \A a \in S4 : s5.minor <= a.minor
  <2> DEFINE T == {a.minor : a \in S4}
  <2>1. T \subseteq Nat /\ T # {}
    BY FieldsAreInts
  <2>2. PICK t \in T : \A u \in T : t <= u
    BY <2>1, LeastExists
  <2> QED
    BY <2>2
<1>6. ASSUME NEW a \in S PROVE s5 = a \/ Before(s5, a)
  <2>1. s5 \in Addresses /\ a \in Addresses
    OBVIOUS
  <2>2. /\ s5.block_type = s1.block_type /\ s5.half = s2.half
        /\ s5.row = s3.row /\ s5.column = s4.column
    OBVIOUS
  <2>3. CASE a.block_type # s5.block_type
    BY <1>1, <2>1, <2>2, <2>3, FieldsAreInts DEF Before
  <2>4. CASE a.block_type = s5.block_type /\ a.half # s5.half
    BY <1>2, <2>1, <2>2, <2>4, FieldsAreInts DEF Before
  <2>5. CASE a \in S2 /\ a.row # s5.row
    BY <1>3, <2>1, <2>2, <2>5, FieldsAreInts DEF Before
  <2>6. CASE a \in S3 /\ a.column # s5.column
    BY <1>4, <2>1, <2>2, <2>6, FieldsAreInts DEF Before
  <2>7. CASE a \in S4
    BY <1>5, <2>1, <2>2, <2>7, FieldsAreInts, SameFields DEF Before
  <2> QED
    BY <2>2, <2>3, <2>4, <2>5, <2>6, <2>7
<1>7. ASSUME NEW a \in First(S) PROVE a = s5
  BY <1>6, <1>7, BeforeOrder DEF First
<1> QED
  BY <1>6, <1>7 DEF First

\* ++ of the iterator gives the next key, if there is one.
LEMMA AfterFacts ==
  ASSUME NEW S, S \subseteq Addresses, NEW a \in Addresses
  PROVE  /\ \A b \in After(S, a) : b \in S /\ Before(a, b)
         /\ \A b, c \in After(S, a) : b = c
         /\ \A b \in After(S, a), c \in S : Before(a, c) => b = c \/ Before(b, c)
         /\ (\E c \in S : Before(a, c)) => After(S, a) # {}
<1> DEFINE T == {b \in S : Before(a, b)}
<1>1. After(S, a) = First(T)
  BY DEF After
<1>2. T # {} => First(T) # {}
  BY FirstExists
<1>3. \A b, c \in First(T) : b = c
  BY BeforeOrder DEF First
<1> QED
  BY <1>1, <1>2, <1>3 DEF First

\* In a part without gaps the order of the part is that of the map of all its
\* addresses.
LEMMA WellFormedInStep ==
  ASSUME NEW p \in Parts, WellFormed(p)
  PROVE  InStep(p, ValidAddresses(p))
<1> DEFINE V == ValidAddresses(p)
<1>1. V \subseteq Addresses /\ \A a \in V : IsValidFrameAddress(p, a)
  BY DEF ValidAddresses
<1>2. Zero \in V
  <2>1. p[<<0, 0, 0, 0>>] > 0
    BY DEF WellFormed, CLB_IO_CLK
  <2> QED
    BY <2>1, ZeroIsAddress DEF ValidAddresses, IsValidFrameAddress, FrameCount,
                               Zero, FrameAddress, CLB_IO_CLK
<1>3. First(V) = {Zero}
  <2>1. Zero \in First(V)
    BY <1>1, <1>2, ZeroUpTo DEF First, UpTo
  <2>2. \A a \in First(V) : a = Zero
    BY <1>1, <1>2, <2>1, BeforeOrder DEF First
  <2> QED
    BY <2>1, <2>2
<1>4. ASSUME NEW a \in V PROVE GetNextFrameAddress(p, a) = After(V, a)
  <2>1. ASSUME NEW b \in GetNextFrameAddress(p, a) PROVE b \in After(V, a)
    <3>1. b \in V /\ Before(a, b) /\ \A d \in GetNextFrameAddress(p, a) : d = b
      BY <1>1, <2>1, NextIsLater DEF ValidAddresses
    <3>2. \A c \in V : Before(a, c) => b = c \/ Before(b, c)
      BY <1>1, <3>1, NextIsNext DEF UpTo
    <3> QED
      BY <3>1, <3>2 DEF After, First
  <2>2. ASSUME NEW x \in After(V, a) PROVE x \in GetNextFrameAddress(p, a)
    <3>1. x \in V /\ Before(a, x)
      BY <1>1, AfterFacts
    <3>2. PICK b \in GetNextFrameAddress(p, a) : UpTo(b, x)
      BY <1>1, <3>1, NextIsNext
    <3>3. b \in After(V, a)
      BY <2>1
    <3>4. b = x
      BY <1>1, <3>3, AfterFacts
    <3> QED
      BY <3>4
  <2> QED
    BY <2>1, <2>2
<1> QED
  BY <1>3, <1>4 DEF InStep

(***************************************************************************)
(* The order of the map of frames, once addMissingFrames is through.       *)
(***************************************************************************)
\* The invariants of Frames hold in the tool, and the walk has ended when the
\* copy starts.
FillInv == /\ TypeOK /\ WalkStandsOnPart /\ OnlyMissingAdded /\ NoFrameMissing
           /\ pc \in {"fill", "copy", "read"}
           /\ pc # "fill" => current = {}

\* Only addMissingFrames changes the frames.
LEMMA FillStep == FillInv /\ [ToolNext]_allVars => FillInv'
<1> SUFFICES ASSUME FillInv, [ToolNext]_allVars PROVE FillInv'
  OBVIOUS
<1>1. TypeOK /\ WalkStandsOnPart /\ OnlyMissingAdded /\ NoFrameMissing
  BY DEF FillInv
<1>2. ASSUME UNCHANGED <<part, file, frames, current>>,
             pc' \in {"fill", "copy", "read"}, pc' # "fill" => current = {}
      PROVE  FillInv'
  <2>1. [Next]_vars
    BY <1>2 DEF vars
  <2> QED
    BY <1>1, <1>2, <2>1, NextInv DEF FillInv
<1>3. ASSUME NEW a \in current, Fill(a) PROVE FillInv'
  BY <1>1, <1>3, NextInv DEF Fill, Next, FillInv
<1>4. CASE StartCopy
  BY <1>2, <1>4 DEF StartCopy, FillInv
<1>5. ASSUME NEW a \in frame, CopyFrame(a) PROVE FillInv'
  BY <1>2, <1>5 DEF CopyFrame, FillInv
<1>6. CASE WritePackage
  BY <1>2, <1>6 DEF WritePackage, FillInv
<1>7. CASE ReadBack
  BY <1>2, <1>7 DEF ReadBack, tool, FillInv
<1>8. CASE UNCHANGED allVars
  BY <1>2, <1>8 DEF allVars, tool, FillInv
<1> QED
  BY <1>3, <1>4, <1>5, <1>6, <1>7, <1>8 DEF ToolNext

\* They hold in every reachable state.
LEMMA FillInvariant == ToolSpec => []FillInv
<1>1. ToolInit => FillInv
  BY InitInv DEF ToolInit, FillInv
<1> QED
  BY <1>1, FillStep, PTL DEF ToolSpec

\* For a part without gaps and a file of frames of that part, the map of
\* frames and the part have one order once the walk has ended.
LEMMA FilledFromWalk ==
  TypeOK /\ OnlyMissingAdded /\ NoFrameMissing /\ (pc # "fill" => current = {})
    => FilledInStep
<1> SUFFICES ASSUME TypeOK, OnlyMissingAdded, NoFrameMissing, current = {},
                    WellFormed(part), file \subseteq ValidAddresses(part)
             PROVE  InStep(part, DOMAIN frames)
  BY DEF FilledInStep
<1>1. part \in Parts
  BY DEF TypeOK
<1>2. Zero \in ValidAddresses(part)
  BY <1>1, WellFormedInStep DEF InStep, First
<1>3. ValidAddresses(part) \subseteq DOMAIN frames
  BY <1>1 DEF NoFrameMissing
<1>4. DOMAIN frames \subseteq ValidAddresses(part)
  BY <1>2 DEF TypeOK, OnlyMissingAdded, ValidAddresses
<1>5. DOMAIN frames = ValidAddresses(part)
  BY <1>3, <1>4
<1> QED
  BY <1>1, <1>5, WellFormedInStep

\* They have when the frames are put in a row.
THEOREM FilledMapInStep == ToolSpec => []FilledInStep
<1>1. FillInv => FilledInStep
  BY FilledFromWalk DEF FillInv
<1> QED
  BY <1>1, FillInvariant, PTL

(***************************************************************************)
(* The frames in a row.  F are the frames, d the data of the packet: these *)
(* are xc7frames2bit's own, or those of xc7patch.                          *)
(***************************************************************************)
\* The frames of padding after the one at a.
Pad(p, a) == IF RowChanges(p, a) THEN 2 ELSE 0

\* The keys that the iterator next has passed.
Passed(S, next) == {b \in S : \A a \in next : Before(b, a)}

\* The frames at the keys K are in the data, each in the place that the frame
\* before it, and the padding after that, leaves to it.
Placed(p, F, d, K, place) ==
  /\ place \in [K -> Nat]
  /\ \A a \in K : place[a] < Len(d) /\ d[place[a] + 1] = F[a]
  /\ \A a \in K \cap First(DOMAIN F) : place[a] = 0
  /\ \A a \in K : \A b \in After(DOMAIN F, a) \cap K : place[b] = place[a] + 1 + Pad(p, a)

\* What comes next goes behind the last of them.
EndsAt(p, F, d, K, place) ==
  /\ K = {} => Len(d) = 0
  /\ \A a \in K : After(DOMAIN F, a) \cap K = {} => Len(d) = place[a] + 1 + Pad(p, a)

RowOf(F) == Seq({F[a] : a \in DOMAIN F} \cup {Empty})

Copying(p, F, d, next) ==
  /\ d \in RowOf(F)
  /\ \E place : /\ Placed(p, F, d, Passed(DOMAIN F, next), place)
                /\ EndsAt(p, F, d, Passed(DOMAIN F, next), place)

Copied(p, F, d) ==
  /\ d \in RowOf(F)
  /\ \E place : Placed(p, F, d, DOMAIN F, place)

\* At the end the iterator has passed all keys.
LEMMA PassedAll == ASSUME NEW S PROVE Passed(S, {}) = S
BY DEF Passed

\* At first it has passed none.
LEMMA PassedNone ==
  ASSUME NEW S, S \subseteq Addresses
  PROVE  Passed(S, First(S)) = {}
<1> SUFFICES ASSUME NEW b \in Passed(S, First(S)) PROVE FALSE
  OBVIOUS
<1>1. b \in S /\ \A a \in First(S) : Before(b, a)
  BY DEF Passed
<1>2. PICK a \in S : First(S) = {a}
  BY <1>1, FirstExists
<1>3. Before(b, a) /\ (a = b \/ Before(a, b))
  BY <1>1, <1>2 DEF First
<1> QED
  BY <1>1, <1>3, BeforeOrder

\* ++ passes the key it was at.
LEMMA PassedNext ==
  ASSUME NEW S, S \subseteq Addresses, NEW a \in S
  PROVE  Passed(S, After(S, a)) = Passed(S, {a}) \cup {a}
<1> DEFINE K == Passed(S, {a})
           L == Passed(S, After(S, a))
<1>1. K = {b \in S : Before(b, a)}
  BY DEF Passed
<1>2. ASSUME NEW b \in L PROVE b \in K \cup {a}
  <2>1. b \in S /\ \A x \in After(S, a) : Before(b, x)
    BY <1>2 DEF Passed
  <2>2. ASSUME Before(a, b) PROVE FALSE
    <3>1. PICK x \in After(S, a) : TRUE
      BY <2>1, <2>2, AfterFacts
    <3>2. Before(b, x) /\ (x = b \/ Before(x, b)) /\ x \in S
      BY <2>1, <2>2, <3>1, AfterFacts
    <3> QED
      BY <2>1, <3>2, BeforeOrder
  <2> QED
    BY <1>1, <2>1, <2>2, BeforeOrder
<1>3. ASSUME NEW b \in K \cup {a} PROVE b \in L
  <2>1. b \in S /\ (b = a \/ Before(b, a))
    BY <1>1, <1>3
  <2>2. \A x \in After(S, a) : x \in S /\ Before(a, x)
    BY AfterFacts
  <2>3. \A x \in After(S, a) : Before(b, x)
    BY <2>1, <2>2, BeforeOrder
  <2> QED
    BY <2>1, <2>3 DEF Passed
<1> HIDE DEF K, L
<1>4. L = K \cup {a}
  BY <1>2, <1>3
<1> QED
  BY <1>4 DEF K, L

\* Nothing is copied at first.
LEMMA CopyInit ==
  ASSUME NEW p, NEW F, DOMAIN F \subseteq Addresses
  PROVE  Copying(p, F, <<>>, First(DOMAIN F))
<1> DEFINE K == Passed(DOMAIN F, First(DOMAIN F))
           place == [a \in {} |-> 0]
<1>1. K = {}
  BY PassedNone
<1>2. Placed(p, F, <<>>, {}, place) /\ EndsAt(p, F, <<>>, {}, place)
  BY DEF Placed, EndsAt
<1>3. <<>> \in RowOf(F)
  BY DEF RowOf
<1> QED
  BY <1>1, <1>2, <1>3 DEF Copying

\* createType2ConfigurationPacketData puts the next frame behind the others.
LEMMA CopyStep ==
  ASSUME NEW p, NEW F, DOMAIN F \subseteq Addresses, NEW a \in DOMAIN F, NEW d,
         Copying(p, F, d, {a})
  PROVE  Copying(p, F, Append(d, F[a]) \o (IF RowChanges(p, a) THEN Padding ELSE <<>>),
                 After(DOMAIN F, a))
<1> DEFINE S == DOMAIN F
           T == {F[x] : x \in S} \cup {Empty}
           K == Passed(S, {a})
           L == Passed(S, After(S, a))
           pad == IF RowChanges(p, a) THEN Padding ELSE <<>>
           e == Append(d, F[a]) \o pad
<1>1. K = {b \in S : Before(b, a)} /\ a \notin K
  BY BeforeOrder DEF Passed
<1>2. L = K \cup {a}
  BY PassedNext
<1>3. d \in Seq(T) /\ \E place : Placed(p, F, d, K, place) /\ EndsAt(p, F, d, K, place)
  BY DEF Copying, RowOf
<1>4. PICK place : Placed(p, F, d, K, place) /\ EndsAt(p, F, d, K, place)
  BY <1>3
<1>5. /\ F[a] \in T /\ pad \in Seq(T) /\ Len(pad) = Pad(p, a) /\ Len(d) \in Nat
      /\ Pad(p, a) \in Nat
  <2>1. F[a] \in T /\ Empty \in T
    OBVIOUS
  <2> HIDE DEF T
  <2> QED
    BY <1>3, <2>1 DEF Pad, Padding
<1>6. /\ Append(d, F[a]) \in Seq(T) /\ Len(Append(d, F[a])) = Len(d) + 1
      /\ Append(d, F[a])[Len(d) + 1] = F[a]
      /\ \A i \in 1..Len(d) : Append(d, F[a])[i] = d[i]
  BY <1>3, <1>5
<1>7. /\ e \in Seq(T) /\ Len(e) = Len(d) + 1 + Pad(p, a)
      /\ e[Len(d) + 1] = F[a]
      /\ \A i \in 1..Len(d) : e[i] = d[i]
  <2> DEFINE g == Append(d, F[a])
  <2>1. g \in Seq(T) /\ Len(g) = Len(d) + 1
    BY <1>6
  <2> HIDE DEF g, T, pad
  <2>2. g \o pad \in Seq(T) /\ Len(g \o pad) = Len(g) + Len(pad)
        /\ \A i \in 1..Len(g) : (g \o pad)[i] = g[i]
    BY <1>5, <2>1
  <2>3. /\ g \o pad \in Seq(T) /\ Len(g \o pad) = Len(d) + 1 + Pad(p, a)
        /\ \A i \in 1..(Len(d) + 1) : (g \o pad)[i] = g[i]
    BY <1>5, <2>1, <2>2
  <2> QED
    BY <1>5, <1>6, <2>3 DEF g
<1> HIDE DEF T, pad, e, K, L, S
<1> DEFINE q == [x \in L |-> IF x = a THEN Len(d) ELSE place[x]]
<1>8. /\ q \in [L -> Nat] /\ q[a] = Len(d)
      /\ \A x \in K : q[x] = place[x] /\ place[x] \in Nat /\ place[x] < Len(d)
                      /\ d[place[x] + 1] = F[x]
  BY <1>1, <1>2, <1>4, <1>5 DEF Placed
<1>9. \A x \in L : q[x] < Len(e) /\ e[q[x] + 1] = F[x]
  <2> SUFFICES ASSUME NEW x \in L PROVE q[x] < Len(e) /\ e[q[x] + 1] = F[x]
    OBVIOUS
  <2>1. CASE x = a
    BY <1>5, <1>7, <1>8, <2>1
  <2>2. CASE x \in K
    <3>1. place[x] + 1 \in 1..Len(d)
      BY <1>5, <1>8, <2>2
    <3>2. e[place[x] + 1] = F[x]
      BY <1>7, <1>8, <2>2, <3>1
    <3>3. place[x] < Len(d) + 1 + Pad(p, a)
      <4>1. place[x] \in Nat /\ place[x] < Len(d)
        BY <1>8, <2>2
      <4>2. Len(d) \in Nat /\ Pad(p, a) \in Nat
        BY <1>5
      <4> QED
        BY <4>1, <4>2
    <3> QED
      BY <1>7, <1>8, <2>2, <3>2, <3>3
  <2> QED
    BY <1>2, <2>1, <2>2
<1>10. \A x \in L \cap First(S) : q[x] = 0
  <2>1. ASSUME a \in First(S) PROVE q[a] = 0
    <3>1. K = {}
      <4> SUFFICES ASSUME NEW b \in K PROVE FALSE
        OBVIOUS
      <4>1. b \in S /\ Before(b, a)
        BY <1>1
      <4>2. a = b \/ Before(a, b)
        BY <2>1, <4>1 DEF First
      <4> QED
        BY <4>1, <4>2, BeforeOrder DEF S
    <3> QED
      BY <1>4, <1>8, <3>1 DEF EndsAt
  <2>2. \A x \in K \cap First(S) : place[x] = 0
    BY <1>4 DEF Placed, S
  <2> QED
    BY <1>2, <1>8, <2>1, <2>2
<1>11. ASSUME NEW x \in K, NEW b \in After(S, x) PROVE b \in K \/ (b = a /\ After(S, x) \cap K = {})
  <2>1. x \in S /\ Before(x, a) /\ a \in S /\ S \subseteq Addresses
    BY <1>1 DEF S
  <2>2. b \in S /\ (b = a \/ Before(b, a)) /\ \A c \in After(S, x) : c = b
    BY <1>11, <2>1, AfterFacts
  <2> QED
    BY <1>1, <2>2
<1>12. \A x \in L : \A b \in After(S, x) \cap L : q[b] = q[x] + 1 + Pad(p, x)
  <2> SUFFICES ASSUME NEW x \in L, NEW b \in After(S, x), b \in L
               PROVE  q[b] = q[x] + 1 + Pad(p, x)
    OBVIOUS
  <2>1. x # a
    <3> SUFFICES ASSUME x = a PROVE FALSE
      OBVIOUS
    <3>1. b \in S /\ Before(a, b)
      BY AfterFacts DEF S
    <3>2. b = a \/ Before(b, a)
      BY <1>1, <1>2
    <3> QED
      BY <3>1, <3>2, BeforeOrder DEF S
  <2>2. x \in K
    BY <1>2, <2>1
  <2>3. CASE b \in K
    BY <1>4, <1>8, <2>2, <2>3 DEF Placed, S
  <2>4. CASE b = a /\ After(S, x) \cap K = {}
    <3>1. Len(d) = place[x] + 1 + Pad(p, x)
      BY <1>4, <2>2, <2>4 DEF EndsAt, S
    <3> QED
      BY <1>8, <2>2, <2>4, <3>1
  <2> QED
    BY <1>11, <2>2, <2>3, <2>4
<1>13. Placed(p, F, e, L, q)
  BY <1>8, <1>9, <1>10, <1>12 DEF Placed, S
<1>14. EndsAt(p, F, e, L, q)
  <2>1. ASSUME NEW x \in L, After(S, x) \cap L = {} PROVE x = a
    <3> SUFFICES ASSUME x \in K PROVE FALSE
      BY <1>2, <2>1
    <3>1. x \in S /\ Before(x, a) /\ a \in S /\ S \subseteq Addresses
      BY <1>1 DEF S
    <3>2. After(S, x) # {}
      BY <3>1, AfterFacts
    <3> QED
      BY <1>2, <1>11, <2>1, <3>2
  <2> QED
    BY <1>2, <1>7, <1>8, <2>1 DEF EndsAt, S
<1> QED
  BY <1>7, <1>13, <1>14 DEF Copying, RowOf, T, S, L, e, pad

\* The padding after the last frame does not move any.
LEMMA CopyEnd ==
  ASSUME NEW p, NEW F, DOMAIN F \subseteq Addresses, NEW d, Copying(p, F, d, {})
  PROVE  Copied(p, F, d \o Padding)
<1> DEFINE T == {F[x] : x \in DOMAIN F} \cup {Empty}
<1>1. d \in Seq(T) /\ Padding \in Seq(T) /\ Passed(DOMAIN F, {}) = DOMAIN F
  <2>1. d \in Seq(T) /\ Empty \in T
    BY DEF Copying, RowOf
  <2> HIDE DEF T
  <2> QED
    BY <2>1, PassedAll DEF Padding
<1>2. PICK place : Placed(p, F, d, DOMAIN F, place)
  BY <1>1 DEF Copying
<1> HIDE DEF T
<1>3. /\ d \o Padding \in Seq(T) /\ Len(d) \in Nat /\ Len(Padding) \in Nat
      /\ Len(d \o Padding) = Len(d) + Len(Padding)
      /\ \A i \in 1..Len(d) : (d \o Padding)[i] = d[i]
  BY <1>1
<1>4. Placed(p, F, d \o Padding, DOMAIN F, place)
  <2>1. ASSUME NEW a \in DOMAIN F
        PROVE  place[a] < Len(d \o Padding) /\ (d \o Padding)[place[a] + 1] = F[a]
    <3>1. place[a] \in Nat /\ place[a] < Len(d) /\ d[place[a] + 1] = F[a]
      BY <1>2 DEF Placed
    <3> QED
      BY <1>3, <3>1
  <2> QED
    BY <1>2, <2>1 DEF Placed
<1> QED
  BY <1>3, <1>4 DEF Copied, RowOf, T

(***************************************************************************)
(* The frames taken out of the row again: F at the addresses they are      *)
(* read for, c the address at hand, i its place, rd the frames read.       *)
(***************************************************************************)
\* The row and the part are in step at c.
AtKey(p, F, place, c, i, rd) ==
  /\ c \in DOMAIN F /\ InStepTo(p, DOMAIN F, c) /\ i = place[c]
  /\ DOMAIN rd = {b \in DOMAIN F : Before(b, c)}
  /\ \A b \in DOMAIN rd : rd[b] = F[b]

\* They are out of step; whatever was in step is behind c, and stays as it is.
BehindKeys(p, F, c, rd) ==
  /\ ~ InStep(p, DOMAIN F)
  /\ \A b \in DOMAIN F : InStepTo(p, DOMAIN F, b) =>
       Before(b, c) /\ b \in DOMAIN rd /\ rd[b] = F[b]

AtFrame(p, F, d, c, i, rd) ==
  /\ c \in Addresses /\ i \in Nat
  /\ \/ \E place : Placed(p, F, d, DOMAIN F, place) /\ AtKey(p, F, place, c, i, rd)
     \/ BehindKeys(p, F, c, rd)

\* What RoundTrip and PatchedUpToGap say of the frames read.
Collected(p, F, rd) ==
  /\ \A b \in DOMAIN F : InStepTo(p, DOMAIN F, b) => b \in DOMAIN rd /\ rd[b] = F[b]
  /\ InStep(p, DOMAIN F) => DOMAIN rd = DOMAIN F

\* The orders are one up to each key if they are one.
LEMMA InStepUpTo ==
  ASSUME NEW p, NEW S, InStep(p, S), NEW a \in S
  PROVE  InStepTo(p, S, a)
BY DEF InStep, InStepTo

\* The data of the packet begin with the frame of address 0.
LEMMA ReadStart ==
  ASSUME NEW p, NEW F, DOMAIN F \subseteq Addresses, NEW d, Copied(p, F, d)
  PROVE  AtFrame(p, F, d, Zero, 0, <<>>)
<1> DEFINE S == DOMAIN F
<1>1. CASE First(S) = {Zero}
  <2>1. Zero \in S /\ \A b \in S : b = Zero \/ Before(Zero, b)
    BY <1>1 DEF First
  <2>2. {b \in S : Before(b, Zero)} = {}
    BY <2>1, BeforeOrder
  <2>3. InStepTo(p, S, Zero)
    BY <1>1, <2>2 DEF InStepTo
  <2>4. PICK place : Placed(p, F, d, S, place)
    BY DEF Copied
  <2>5. place[Zero] = 0
    BY <1>1, <2>1, <2>4 DEF Placed
  <2>6. AtKey(p, F, place, Zero, 0, <<>>)
    BY <2>1, <2>2, <2>3, <2>5 DEF AtKey
  <2> QED
    BY <2>4, <2>6, ZeroIsAddress DEF AtFrame
<1>2. CASE First(S) # {Zero}
  <2>1. BehindKeys(p, F, Zero, <<>>)
    BY <1>2 DEF BehindKeys, InStep, InStepTo
  <2> QED
    BY <2>1, ZeroIsAddress DEF AtFrame
<1> QED
  BY <1>1, <1>2

\* One turn of the loop in step: the frame at hand is the one of its address,
\* and either the next one is, too, or all that were in step are read.
LEMMA ReadKey ==
  ASSUME NEW p \in Parts, NEW F, DOMAIN F \subseteq Addresses, NEW d, NEW place,
         Placed(p, F, d, DOMAIN F, place),
         NEW c, NEW i, NEW rd, AtKey(p, F, place, c, i, rd),
         NEW new, new = [a \in DOMAIN rd \cup {c} |-> IF a = c THEN d[i + 1] ELSE rd[a]]
  PROVE  /\ GetNextFrameAddress(p, c) = {} => Collected(p, F, new)
         /\ \A e \in GetNextFrameAddress(p, c) :
              \/ AtKey(p, F, place, e, i + 1 + Pad(p, c), new)
              \/ BehindKeys(p, F, e, new)
<1> DEFINE S == DOMAIN F
<1>1. /\ c \in S /\ c \in Addresses /\ InStepTo(p, S, c) /\ i = place[c]
      /\ DOMAIN rd = {b \in S : Before(b, c)}
      /\ \A b \in DOMAIN rd : rd[b] = F[b]
  BY DEF AtKey
<1>2. /\ DOMAIN new = {b \in S : b = c \/ Before(b, c)}
      /\ \A b \in DOMAIN new : new[b] = F[b]
  <2>1. d[i + 1] = F[c]
    BY <1>1 DEF Placed
  <2> QED
    BY <1>1, <2>1
<1>3. ASSUME NEW b \in S, InStepTo(p, S, b), b \notin DOMAIN new
      PROVE  /\ Before(c, b) /\ GetNextFrameAddress(p, c) = After(S, c)
             /\ After(S, c) # {}
  <2>1. Before(c, b)
    BY <1>1, <1>2, <1>3, BeforeOrder
  <2> QED
    BY <1>1, <1>3, <2>1, AfterFacts DEF InStepTo
<1>4. CASE GetNextFrameAddress(p, c) = {}
  <2>1. \A b \in S : InStepTo(p, S, b) => b \in DOMAIN new /\ new[b] = F[b]
    BY <1>2, <1>3, <1>4
  <2>2. InStep(p, S) => DOMAIN new = S
    BY <1>2, <2>1, InStepUpTo
  <2> QED
    BY <1>4, <2>1, <2>2 DEF Collected
<1>5. ASSUME NEW e \in GetNextFrameAddress(p, c)
      PROVE  \/ AtKey(p, F, place, e, i + 1 + Pad(p, c), new)
             \/ BehindKeys(p, F, e, new)
  <2>1. /\ e \in Addresses /\ Before(c, e) /\ GetNextFrameAddress(p, c) = {e}
    BY <1>1, <1>5, NextIsLater
  <2>2. CASE After(S, c) = {e}
    <3>1. e \in S /\ \A b \in S : Before(c, b) => e = b \/ Before(e, b)
      BY <1>1, <2>2, AfterFacts
    <3>2. {b \in S : Before(b, e)} = DOMAIN new
      BY <1>1, <1>2, <2>1, <3>1, BeforeOrder
    <3>3. InStepTo(p, S, e)
      BY <1>1, <1>2, <2>1, <2>2, <3>2 DEF InStepTo
    <3>4. place[e] = i + 1 + Pad(p, c)
      BY <1>1, <2>2, <3>1 DEF Placed
    <3> QED
      BY <1>2, <3>1, <3>2, <3>3, <3>4 DEF AtKey
  <2>3. CASE After(S, c) # {e}
    <3>1. \A b \in S : InStepTo(p, S, b) => b \in DOMAIN new
      BY <1>3, <2>1, <2>3
    <3>2. \A b \in DOMAIN new : Before(b, e)
      BY <1>1, <1>2, <2>1, BeforeOrder
    <3>3. ~ InStep(p, S)
      BY <1>1, <2>1, <2>3 DEF InStep
    <3> QED
      BY <1>2, <3>1, <3>2, <3>3 DEF BehindKeys
  <2> QED
    BY <2>2, <2>3
<1> QED
  BY <1>4, <1>5

\* One turn of the loop, in step or not.
LEMMA ReadFrame ==
  ASSUME NEW p \in Parts, NEW F, DOMAIN F \subseteq Addresses, NEW d,
         NEW c, NEW i, NEW rd, AtFrame(p, F, d, c, i, rd),
         NEW new, new = [a \in DOMAIN rd \cup {c} |-> IF a = c THEN d[i + 1] ELSE rd[a]]
  PROVE  /\ GetNextFrameAddress(p, c) = {} => Collected(p, F, new)
         /\ \A e \in GetNextFrameAddress(p, c) :
              AtFrame(p, F, d, e, i + 1 + Pad(p, c), new)
<1>1. \A e \in GetNextFrameAddress(p, c) : e \in Addresses /\ Before(c, e)
  BY NextIsLater DEF AtFrame
<1>2. i + 1 + Pad(p, c) \in Nat
  BY DEF AtFrame, Pad
<1>3. ASSUME NEW place, Placed(p, F, d, DOMAIN F, place), AtKey(p, F, place, c, i, rd)
      PROVE  /\ GetNextFrameAddress(p, c) = {} => Collected(p, F, new)
             /\ \A e \in GetNextFrameAddress(p, c) :
                  AtFrame(p, F, d, e, i + 1 + Pad(p, c), new)
  <2>1. /\ GetNextFrameAddress(p, c) = {} => Collected(p, F, new)
        /\ \A e \in GetNextFrameAddress(p, c) :
             \/ AtKey(p, F, place, e, i + 1 + Pad(p, c), new)
             \/ BehindKeys(p, F, e, new)
    BY <1>3, ReadKey
  <2>2. ASSUME NEW e \in GetNextFrameAddress(p, c)
        PROVE  AtFrame(p, F, d, e, i + 1 + Pad(p, c), new)
    BY <1>1, <1>2, <1>3, <2>1 DEF AtFrame
  <2> QED
    BY <2>1, <2>2
<1>4. CASE BehindKeys(p, F, c, rd)
  <2>1. \A b \in DOMAIN F : InStepTo(p, DOMAIN F, b) =>
           b # c /\ Before(b, c) /\ b \in DOMAIN new /\ new[b] = F[b]
    BY <1>4, BeforeOrder DEF BehindKeys, AtFrame
  <2>2. \A e \in GetNextFrameAddress(p, c) : BehindKeys(p, F, e, new)
    <3> SUFFICES ASSUME NEW e \in GetNextFrameAddress(p, c) PROVE BehindKeys(p, F, e, new)
      OBVIOUS
    <3>1. \A b \in DOMAIN F : InStepTo(p, DOMAIN F, b) => Before(b, e)
      BY <1>1, <2>1, BeforeOrder DEF AtFrame
    <3> QED
      BY <1>4, <2>1, <3>1 DEF BehindKeys
  <2>3. Collected(p, F, new)
    BY <1>4, <2>1 DEF BehindKeys, Collected
  <2> QED
    BY <1>1, <1>2, <2>2, <2>3 DEF AtFrame
<1> QED
  BY <1>3, <1>4 DEF AtFrame

\* The data are used up: in step they never are before the last frame.
LEMMA ReadEnd ==
  ASSUME NEW p, NEW F, NEW d, NEW c, NEW i, NEW rd, AtFrame(p, F, d, c, i, rd),
         Len(d) \in Nat, i >= Len(d)
  PROVE  Collected(p, F, rd)
<1>1. ASSUME NEW place, Placed(p, F, d, DOMAIN F, place), AtKey(p, F, place, c, i, rd)
      PROVE  FALSE
  <2>1. i = place[c] /\ i \in Nat /\ place[c] < Len(d)
    BY <1>1 DEF AtKey, Placed, AtFrame
  <2> QED
    BY <2>1
<1> QED
  BY <1>1 DEF AtFrame, BehindKeys, Collected

(***************************************************************************)
(* The packets of xc7frames2bit.                                           *)
(***************************************************************************)
\* The frames are in packet 23, after an empty packet for the same register.
LEMMA PackageFacts ==
  ASSUME NEW d
  PROVE  /\ Len(ConfigurationPackage(d)) = 38
         /\ ConfigurationPackage(d)[11] = Packet("IDCODE", <<Idcode>>)
         /\ ConfigurationPackage(d)[19] = Packet("FAR", <<Zero>>)
         /\ ConfigurationPackage(d)[20] = Packet("CMD", <<"WCFG">>)
         /\ ConfigurationPackage(d)[21] = NopPacket
         /\ ConfigurationPackage(d)[22] = Packet("FDRI", <<>>)
         /\ ConfigurationPackage(d)[23] = Packet("FDRI", d)
BY DEF ConfigurationPackage

\* No other packet goes to FDRI, and none before them to FAR but one.
LEMMA PackageRegisters ==
  ASSUME NEW d, NEW i \in 1..38
  PROVE  /\ ConfigurationPackage(d)[i].address = "FDRI" => i \in {22, 23}
         /\ ConfigurationPackage(d)[i].address = "IDCODE" => i = 11
         /\ ConfigurationPackage(d)[i].address = "FAR" => i \in {19, 32}
<1> DEFINE pk == ConfigurationPackage(d)
<1>1. /\ pk[1].address = "CRC" /\ pk[2].address = "TIMER" /\ pk[3].address = "WBSTAR"
      /\ pk[4].address = "CMD" /\ pk[5].address = "CRC" /\ pk[6].address = "CMD"
      /\ pk[7].address = "CRC" /\ pk[8].address = "UNKNOWN" /\ pk[9].address = "COR0"
      /\ pk[10].address = "COR1" /\ pk[11].address = "IDCODE" /\ pk[12].address = "CMD"
      /\ pk[13].address = "CRC" /\ pk[14].address = "MASK" /\ pk[15].address = "CTL0"
      /\ pk[16].address = "MASK" /\ pk[17].address = "CTL1" /\ pk[18].address = "CRC"
      /\ pk[19].address = "FAR" /\ pk[20].address = "CMD" /\ pk[21].address = "CRC"
  BY DEF ConfigurationPackage, Packet, NopPacket
<1>2. /\ pk[22].address = "FDRI" /\ pk[23].address = "FDRI" /\ pk[24].address = "CMD"
      /\ pk[25].address = "CRC" /\ pk[26].address = "CMD" /\ pk[27].address = "CRC"
      /\ pk[28].address = "CMD" /\ pk[29].address = "CRC" /\ pk[30].address = "CMD"
      /\ pk[31].address = "CRC" /\ pk[32].address = "FAR" /\ pk[33].address = "MASK"
      /\ pk[34].address = "CTL0" /\ pk[35].address = "CMD" /\ pk[36].address = "CRC"
      /\ pk[37].address = "CMD" /\ pk[38].address = "CRC"
  BY DEF ConfigurationPackage, Packet, NopPacket
<1> HIDE DEF pk
<1>3. /\ pk[i].address = "FDRI" => i \in {22, 23}
      /\ pk[i].address = "IDCODE" => i = 11
      /\ pk[i].address = "FAR" => i \in {19, 32}
  <2>1. CASE i \in 1..21
    BY <1>1, <2>1
  <2>2. CASE i \in 22..38
    BY <1>2, <2>2
  <2> QED
    BY <2>1, <2>2
<1> QED
  BY <1>3 DEF pk

\* What InitWithPackets knows at packet pos of a bitstream with the frames F:
\* it comes to the data of packet 23 at address 0, and through them in step.
PackageRead(F, d) ==
  /\ packets = ConfigurationPackage(d)
  /\ Copied(part, F, d)
  /\ pos \in 1..39
  /\ fdri => pos \in {22, 23}
  /\ pos <= 22 => far = Zero
  /\ (pos <= 22 \/ (pos = 23 /\ ~ fdri)) => read = <<>>
  /\ pos \in {21, 22} /\ ~ fdri => start_new_write
  /\ pos = 22 /\ fdri => current_frame_address = Zero /\ ~ start_new_write /\ ii = 0
  /\ pos = 23 /\ ~ fdri => current_frame_address = Zero /\ ~ start_new_write
  /\ pos = 23 /\ fdri => AtFrame(part, F, d, current_frame_address, ii, read)
  /\ pos >= 24 => Collected(part, F, read)
  /\ DOMAIN read \subseteq Addresses
  /\ result = "some" => pos = 39

\* Where it begins.
LEMMA PackageStart ==
  ASSUME NEW F, NEW d, Copied(part, F, d), packets = ConfigurationPackage(d), ReaderInit
  PROVE  PackageRead(F, d)
BY DEF PackageRead, ReaderInit

\* It knows it after every step.
LEMMA PackageStep ==
  ASSUME NEW F, DOMAIN F \subseteq Addresses, NEW d, PackageRead(F, d),
         part \in Parts, part' = part, ReaderNext
  PROVE  PackageRead(F, d)'
<1>1. /\ packets = ConfigurationPackage(d) /\ Copied(part, F, d)
      /\ pos \in 1..39 /\ Len(packets) = 38
  BY PackageFacts DEF PackageRead
<1>2. d \in Seq({F[a] : a \in DOMAIN F} \cup {Empty})
  BY <1>1 DEF Copied, RowOf
<1>3. /\ packets[11] = Packet("IDCODE", <<Idcode>>)
      /\ packets[19] = Packet("FAR", <<Zero>>)
      /\ packets[20] = Packet("CMD", <<"WCFG">>)
      /\ packets[21] = NopPacket
      /\ packets[22] = Packet("FDRI", <<>>)
      /\ packets[23] = Packet("FDRI", d)
  BY <1>1, PackageFacts
<1>4. \A i \in 1..38 : /\ packets[i].address = "FDRI" => i \in {22, 23}
                       /\ packets[i].address = "IDCODE" => i = 11
                       /\ packets[i].address = "FAR" => i \in {19, 32}
  BY <1>1, PackageRegisters
<1>a. /\ packets[19].opcode = "Write" /\ packets[19].address = "FAR" /\ packets[19].data # <<>>
      /\ packets[20].opcode = "Write" /\ packets[20].address = "CMD" /\ packets[20].data # <<>>
      /\ packets[21].opcode = "NOP"
      /\ packets[22].opcode = "Write" /\ packets[22].address = "FDRI"
      /\ packets[23].opcode = "Write" /\ packets[23].address = "FDRI"
      /\ packets[22].data = <<>> /\ packets[23].data = d
  BY <1>3 DEF Packet, NopPacket
<1>b. pos <= 22 => far = Zero
  BY DEF PackageRead
\* Packets other than those of FDRI move on to the next.
<1>5. ASSUME packets' = packets, UNCHANGED <<current_frame_address, fdri, ii, read, result>>,
             pos \in 1..38, pos' = pos + 1, pos \notin {22, 23},
             pos <= 21 => far' = Zero,
             pos = 20 => start_new_write', pos = 21 => start_new_write' = start_new_write
      PROVE  PackageRead(F, d)'
  <2>1. ~ fdri
    BY <1>5 DEF PackageRead
  <2>2. pos' \in 2..39 /\ pos' # 23 /\ (pos' >= 24 => pos >= 24)
    BY <1>5
  <2>3. pos' \in {21, 22} => start_new_write'
    BY <1>5, <2>1 DEF PackageRead
  <2>4. result' # "some"
    BY <1>1, <1>5 DEF PackageRead
  <2>5. Copied(part, F, d)'
    BY <1>1
  <2>6. pos >= 24 => Collected(part, F, read)'
    BY <1>5 DEF PackageRead
  <2>7. pos' <= 22 => far' = Zero /\ read' = <<>>
    BY <1>5, <2>2 DEF PackageRead
  <2> QED
    BY <1>1, <1>5, <2>1, <2>2, <2>3, <2>4, <2>5, <2>6, <2>7 DEF PackageRead
<1>6. CASE Skip
  <2>1. pos \in 1..38 /\ pos \notin {19, 20, 22, 23}
    BY <1>1, <1>a, <1>6 DEF Skip
  <2> QED
    <3>1. /\ pos' = pos + 1 /\ packets' = packets /\ far' = far
          /\ UNCHANGED <<current_frame_address, fdri, ii, read, result>>
          /\ start_new_write' = start_new_write
      BY <1>6 DEF Skip, registers, writing
    <3> QED
      BY <1>b, <1>5, <2>1, <3>1
<1>7. CASE WriteMask
  <2>1. pos \in 1..38 /\ pos \notin {19, 20, 21, 22, 23}
    BY <1>1, <1>a, <1>7 DEF WriteMask, At
  <2> QED
    BY <1>b, <1>5, <1>7, <2>1 DEF WriteMask, writing
<1>8. CASE WriteCtl1
  <2>1. pos \in 1..38 /\ pos \notin {19, 20, 21, 22, 23}
    BY <1>1, <1>a, <1>8 DEF WriteCtl1, At
  <2> QED
    BY <1>b, <1>5, <1>8, <2>1 DEF WriteCtl1, writing
<1>9. CASE WriteCmd
  <2>1. pos \in 1..38 /\ pos \notin {19, 21, 22, 23}
    BY <1>1, <1>a, <1>9 DEF WriteCmd, At
  <2>2. pos = 20 => Word = "WCFG"
    BY <1>3 DEF Word, Packet
  <2> QED
    <3>1. /\ pos' = pos + 1 /\ packets' = packets /\ far' = far
          /\ UNCHANGED <<current_frame_address, fdri, ii, read, result>>
      BY <1>9 DEF WriteCmd
    <3>2. pos = 20 => start_new_write'
      BY <1>9, <2>2 DEF WriteCmd
    <3> QED
      BY <1>b, <1>5, <2>1, <3>1, <3>2
<1>10. CASE WriteIdcode
  <2>1. pos \in 1..38 /\ pos = 11
    <3>1. pos <= 38 /\ packets[pos].address = "IDCODE"
      BY <1>1, <1>10 DEF WriteIdcode, At
    <3> QED
      BY <1>1, <1>4, <3>1
  <2>2. Word = Idcode
    BY <1>3, <2>1 DEF Word, Packet
  <2> QED
    BY <1>b, <1>5, <1>10, <2>1, <2>2 DEF WriteIdcode, registers, writing
<1>11. CASE WriteFar
  <2>1. pos \in 1..38 /\ pos \in {19, 32}
    <3>1. pos <= 38 /\ packets[pos].address = "FAR"
      BY <1>1, <1>11 DEF WriteFar, At
    <3> QED
      BY <1>1, <1>4, <3>1
  <2>2. pos = 19 => Word = Zero
    BY <1>3 DEF Word, Packet
  <2> QED
    BY <1>b, <1>5, <1>11, <2>1, <2>2 DEF WriteFar
<1>12. CASE StartFdri
  <2>1. pos \in {22, 23} /\ ~ fdri
    BY <1>1, <1>4, <1>12 DEF StartFdri
  <2>2. /\ current_frame_address' = Zero /\ ~ start_new_write' /\ fdri' /\ ii' = 0
        /\ pos' = pos /\ packets' = packets /\ read' = <<>> /\ result' = result
        /\ read = <<>> /\ far' = far
    BY <1>12, <2>1 DEF StartFdri, registers, PackageRead
  <2>3. AtFrame(part, F, d, current_frame_address, ii, read)'
    <3>1. AtFrame(part, F, d, Zero, 0, <<>>)
      BY <1>1, ReadStart
    <3> QED
      BY <2>2, <3>1
  <2>4. Copied(part, F, d)'
    BY <1>1
  <2> QED
    BY <2>1, <2>2, <2>3, <2>4 DEF PackageRead
<1>13. CASE FdriFrame
  <2>1. pos = 23 /\ fdri /\ ii < Len(d)
    <3>1. pos \in {22, 23} /\ fdri
      BY <1>13 DEF FdriFrame, PackageRead
    <3>2. pos # 22
      <4> SUFFICES ASSUME pos = 22 PROVE FALSE
        OBVIOUS
      <4>1. ii = 0 /\ packets[pos].data = <<>>
        BY <1>3, <3>1 DEF PackageRead, Packet
      <4> QED
        BY <1>13, <4>1 DEF FdriFrame
    <3> QED
      BY <1>3, <1>13, <3>1, <3>2 DEF FdriFrame, Packet
  <2> DEFINE c == current_frame_address
             new == [a \in DOMAIN read \cup {c} |-> IF a = c THEN d[ii + 1] ELSE read[a]]
  <2>2. read' = new
    BY <1>3, <1>13, <2>1 DEF FdriFrame, Packet
  <2>3. AtFrame(part, F, d, c, ii, read)
    BY <2>1 DEF PackageRead
  <2>4. /\ GetNextFrameAddress(part, c) = {} => Collected(part, F, new)
        /\ \A e \in GetNextFrameAddress(part, c) :
              AtFrame(part, F, d, e, ii + 1 + Pad(part, c), new)
    BY <2>3, ReadFrame
  <2>5. packets' = packets /\ result' = result /\ result # "some" /\ Copied(part, F, d)'
    BY <1>1, <1>13, <2>1 DEF FdriFrame, PackageRead
  <2>8. DOMAIN read' \subseteq Addresses
    BY <2>2, <2>3 DEF AtFrame, PackageRead
  <2> HIDE DEF new
  <2>6. CASE GetNextFrameAddress(part, c) = {}
    <3>1. pos' = 24 /\ ~ fdri'
      BY <1>13, <2>1, <2>6 DEF FdriFrame
    <3>2. Collected(part, F, read)'
      BY <2>2, <2>4, <2>6
    <3> QED
      BY <2>5, <2>8, <3>1, <3>2, <1>1 DEF PackageRead
  <2>7. CASE GetNextFrameAddress(part, c) # {}
    <3>1. /\ pos' = 23 /\ fdri' /\ c' \in GetNextFrameAddress(part, c)
          /\ ii' = ii + 1 + Pad(part, c)
      BY <1>13, <2>1, <2>7 DEF FdriFrame, Pad
    <3>2. AtFrame(part, F, d, c', ii', read')
      BY <2>2, <2>4, <3>1
    <3>3. AtFrame(part, F, d, current_frame_address, ii, read)'
      BY <3>2
    <3> QED
      BY <2>5, <2>8, <3>1, <3>3, <1>1 DEF PackageRead
  <2> QED
    BY <2>6, <2>7
<1>14. CASE EndFdri
  <2>1. /\ fdri /\ pos \in {22, 23} /\ ~ fdri' /\ pos' = pos + 1
        /\ packets' = packets /\ far' = far /\ start_new_write' = start_new_write
        /\ current_frame_address' = current_frame_address
        /\ ii' = ii /\ read' = read /\ result' = result
    BY <1>14 DEF EndFdri, registers, PackageRead
  <2>2. Copied(part, F, d)'
    BY <1>1
  <2>3. CASE pos = 22
    <3>1. read = <<>> /\ current_frame_address = Zero /\ ~ start_new_write /\ result # "some"
      BY <2>1, <2>3 DEF PackageRead
    <3>2. pos' = 23 /\ result' # "some"
      BY <2>1, <2>3, <3>1
    <3> QED
      BY <1>1, <2>1, <2>2, <3>1, <3>2 DEF PackageRead
  <2>4. CASE pos = 23
    <3>1. ii >= Len(d) /\ AtFrame(part, F, d, current_frame_address, ii, read)
      BY <1>3, <1>14, <2>1, <2>4 DEF EndFdri, PackageRead, Packet
    <3>2. Collected(part, F, read)
      BY <1>2, <3>1, ReadEnd
    <3>3. result # "some"
      BY <2>4 DEF PackageRead
    <3> QED
      BY <1>1, <2>1, <2>2, <2>4, <3>2, <3>3 DEF PackageRead
  <2> QED
    BY <2>1, <2>3, <2>4
<1>15. CASE Return
  <2>1. /\ pos = 39 /\ pos' = pos /\ packets' = packets /\ read' = read /\ fdri' = fdri
        /\ far' = far /\ start_new_write' = start_new_write
    BY <1>1, <1>15 DEF Return, registers, writing
  <2>2. Copied(part, F, d)' /\ Collected(part, F, read)'
    BY <1>1, <2>1 DEF PackageRead
  <2>3. ~ fdri
    BY <2>1 DEF PackageRead
  <2> QED
    BY <1>1, <2>1, <2>2, <2>3 DEF PackageRead
<1> QED
  BY <1>6, <1>7, <1>8, <1>9, <1>10, <1>11, <1>12, <1>13, <1>14, <1>15 DEF ReaderNext

(***************************************************************************)
(* The tool from its start to the last packet read.                        *)
(***************************************************************************)
RowInv ==
  /\ FillInv
  /\ frame \subseteq DOMAIN frames
  /\ pc # "read" => ReaderInit
  /\ pc = "fill" => packet_data = <<>>
  /\ pc = "copy" => Copying(part, frames, packet_data, frame)
  /\ pc = "read" => PackageRead(frames, packet_data)

\* The reader has not begun as long as nobody lets it.
LEMMA ReaderWaits == ReaderInit /\ UNCHANGED <<pos, registers, writing, read, result>> => ReaderInit'
BY DEF ReaderInit, registers, writing

\* Every step of the tool keeps it.
LEMMA RowStep == RowInv /\ [ToolNext]_allVars => RowInv'
<1> SUFFICES ASSUME RowInv, [ToolNext]_allVars PROVE RowInv'
  OBVIOUS
<1>1. FillInv /\ FillInv'
  BY FillStep DEF RowInv
<1>2. DOMAIN frames \subseteq Addresses /\ part \in Parts
  BY <1>1 DEF FillInv, TypeOK
<1>3. ASSUME NEW a \in current, Fill(a) PROVE RowInv'
  <2>1. /\ pc = "fill" /\ pc' = "fill" /\ packet_data' = <<>> /\ frame' = frame
        /\ DOMAIN frames \subseteq DOMAIN frames'
        /\ UNCHANGED <<pos, registers, writing, read, result>>
    BY <1>3 DEF Fill, AddMissingFrame, RowInv, readerVars
  <2> QED
    BY <1>1, <2>1, ReaderWaits DEF RowInv
<1>4. CASE StartCopy
  <2>1. /\ pc = "fill" /\ pc' = "copy" /\ packet_data' = <<>> /\ frame' = First(DOMAIN frames)
        /\ frames' = frames /\ part' = part
        /\ UNCHANGED <<pos, registers, writing, read, result>>
    BY <1>4 DEF StartCopy, RowInv, readerVars
  <2>2. Copying(part, frames, packet_data, frame)'
    BY <1>2, <2>1, CopyInit
  <2>3. frame' \subseteq DOMAIN frames'
    BY <2>1 DEF First
  <2> QED
    BY <1>1, <2>1, <2>2, <2>3, ReaderWaits DEF RowInv
<1>5. ASSUME NEW a \in frame, CopyFrame(a) PROVE RowInv'
  <2>1. /\ pc = "copy" /\ pc' = "copy" /\ frame = {a} /\ frame' = After(DOMAIN frames, a)
        /\ packet_data' = Append(packet_data, frames[a])
                            \o (IF RowChanges(part, a) THEN Padding ELSE <<>>)
        /\ frames' = frames /\ part' = part
        /\ UNCHANGED <<pos, registers, writing, read, result>>
    BY <1>5 DEF CopyFrame, readerVars
  <2>2. a \in DOMAIN frames /\ Copying(part, frames, packet_data, {a})
    BY <2>1 DEF RowInv
  <2>3. Copying(part, frames, packet_data', frame')
    BY <1>2, <2>1, <2>2, CopyStep
  <2>4. Copying(part, frames, packet_data, frame)'
    BY <2>1, <2>3
  <2>5. frame' \subseteq DOMAIN frames'
    BY <1>2, <2>1, <2>2, AfterFacts
  <2> QED
    BY <1>1, <2>1, <2>4, <2>5, ReaderWaits DEF RowInv
<1>6. CASE WritePackage
  <2>1. /\ pc = "copy" /\ pc' = "read" /\ frame = {} /\ frame' = {}
        /\ packet_data' = packet_data \o Padding
        /\ packets' = ConfigurationPackage(packet_data')
        /\ frames' = frames /\ part' = part
        /\ UNCHANGED <<pos, registers, writing, read, result>>
    BY <1>6 DEF WritePackage
  <2>2. Copied(part, frames, packet_data')
    BY <1>2, <2>1, CopyEnd DEF RowInv
  <2>3. Copied(part, frames, packet_data)' /\ ReaderInit'
    BY <2>1, <2>2, ReaderWaits DEF RowInv
  <2>4. PackageRead(frames, packet_data)'
    BY <2>1, <2>3 DEF PackageRead, ReaderInit
  <2> QED
    BY <1>1, <2>1, <2>4 DEF RowInv
<1>7. CASE ReadBack
  <2>1. /\ pc = "read" /\ ReaderNext /\ pc' = pc /\ frame' = frame
        /\ packet_data' = packet_data /\ frames' = frames /\ part' = part
    BY <1>7 DEF ReadBack, tool
  <2>2. PackageRead(frames, packet_data)'
    BY <1>2, <2>1, PackageStep DEF RowInv
  <2> QED
    BY <1>1, <2>1, <2>2 DEF RowInv
<1>8. CASE UNCHANGED allVars
  <2>1. /\ pc' = pc /\ frame' = frame /\ packet_data' = packet_data /\ frames' = frames
        /\ part' = part /\ UNCHANGED <<packets, pos, registers, writing, read, result>>
    BY <1>8 DEF allVars, tool, readerVars
  <2>2. pc = "copy" => Copying(part, frames, packet_data, frame)'
    BY <2>1 DEF RowInv
  <2>3. pc = "read" => PackageRead(frames, packet_data)'
    BY <2>1 DEF RowInv, PackageRead, writing, registers
  <2> QED
    BY <1>1, <2>1, <2>2, <2>3, ReaderWaits DEF RowInv
<1> QED
  BY <1>3, <1>4, <1>5, <1>6, <1>7, <1>8 DEF ToolNext

\* It holds from the start.
LEMMA RowInit == ToolInit => RowInv
BY InitInv DEF ToolInit, RowInv, FillInv

\* A bitstream that was read to its end has the frames where they belong.
LEMMA RowRoundTrip == RowInv => RoundTrip
<1>1. RowInv /\ result = "some" => Collected(part, frames, read)
  BY DEF RowInv, ReaderInit, PackageRead
<1> QED
  BY <1>1 DEF RoundTrip, Collected

\* Reading the bitstream of xc7frames2bit back gives each frame at its address
\* as far as the part and the map of frames have one order, and exactly those
\* frames if they have one throughout.
THEOREM ReadsBack == ToolSpec => []RoundTrip
BY RowInit, RowStep, RowRoundTrip, PTL DEF ToolSpec
=============================================================================
