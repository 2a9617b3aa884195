--------------------------- MODULE TilegridProofs ---------------------------
(***************************************************************************)
(* How the ties of a tilegrid are settled and what the law rebuilds, for   *)
(* every database and every list of references, in its order and with      *)
(* repeats; and that generate_full.py propagates the addresses that the    *)
(* silicon has, for every device that keeps the laws of TilegridSilicon.   *)
(***************************************************************************)
EXTENDS TilegridDerive, TilegridSilicon, FiniteSetTheorems, SequenceTheorems, NaturalsInduction,
        WellFoundedInduction, TLAPS

(***************************************************************************)
(* Finite sets.                                                            *)
(***************************************************************************)
\* A set of naturals that is not empty has a least element.
LEMMA LeastExists ==
  ASSUME NEW S, S \subseteq Nat, S # {}
  PROVE  \E x \in S : \A y \in S : x <= y
<1>1. PICK x \in S : \A y \in S : ~ (<<y, x>> \in OpToRel(<, Nat))
  BY NatLessThanWellFounded, WFMin
<1>2. \A y \in S : ~ (y < x)
  BY <1>1 DEF OpToRel
<1> QED
  BY <1>2

Below(S, n) == {k \in S : k < n}

\* The elements of a finite set have the ranks from 0 on, each one of them.
LEMMA Ranks ==
  ASSUME NEW S, S \subseteq Nat, IsFiniteSet(S)
  PROVE  /\ Cardinality(S) \in Nat
         /\ \A i \in 1..Cardinality(S) : \E n \in S : Cardinality(Below(S, n)) = i - 1
<1> DEFINE c == Cardinality(S)
           ranks == 0..(c - 1)
           rank == [n \in S |-> Cardinality(Below(S, n))]
<1>1. c \in Nat
  BY FS_CardinalityType
<1>2. \A n : Below(S, n) \in SUBSET S
  BY DEF Below
<1>3. \A n : IsFiniteSet(Below(S, n)) /\ Cardinality(Below(S, n)) \in Nat
  BY <1>2, FS_Subset, FS_CardinalityType
<1> HIDE DEF c
<1>4. ASSUME NEW n \in S PROVE Cardinality(Below(S, n)) \in ranks
  <2>1. Below(S, n) # S
    BY DEF Below
  <2>2. Cardinality(Below(S, n)) <= c /\ Cardinality(Below(S, n)) # c
    BY <1>2, <2>1, FS_Subset DEF c
  <2> QED
    BY <1>1, <1>3, <2>2
<1>5. ASSUME NEW n \in S, NEW m \in S, n < m
      PROVE  Cardinality(Below(S, n)) # Cardinality(Below(S, m))
  <2>1. Below(S, n) \in SUBSET Below(S, m)
    <3>1. \A k \in S : k < n => k < m
      <4>1. n \in Nat /\ m \in Nat /\ S \subseteq Nat
        OBVIOUS
      <4> QED
        BY <1>5, <4>1
    <3> QED
      BY <3>1 DEF Below
  <2>2. n \in Below(S, m) /\ n \notin Below(S, n)
    BY <1>5 DEF Below
  <2> QED
    BY <1>3, <2>1, <2>2, FS_Subset
<1>6. rank \in Injection(S, ranks)
  <2>1. rank \in [S -> ranks]
    BY <1>4
  <2>2. ASSUME NEW n \in S, NEW m \in S, rank[n] = rank[m] PROVE n = m
    <3>1. n \in Nat /\ m \in Nat
      OBVIOUS
    <3> QED
      BY <1>5, <2>2, <3>1
  <2> HIDE DEF rank, ranks
  <2> QED
    BY <2>1, <2>2 DEF Injection, IsInjective
<1>7. IsFiniteSet(ranks) /\ Cardinality(ranks) = c
  BY <1>1, FS_Interval
<1> HIDE DEF ranks, rank
<1>8. rank \in Surjection(S, ranks)
  BY <1>6, <1>7, FS_Injection DEF c
<1>9. ASSUME NEW i \in 1..c PROVE \E n \in S : Cardinality(Below(S, n)) = i - 1
  <2>1. i - 1 \in ranks
    BY <1>1 DEF ranks
  <2>2. PICK n \in S : rank[n] = i - 1
    BY <1>8, <2>1 DEF Surjection
  <2> QED
    BY <2>2 DEF rank
<1> QED
  BY <1>1, <1>9 DEF c

\* A finite set of naturals has a largest element.
LEMMA GreatestExists ==
  ASSUME NEW S, S \subseteq Nat, IsFiniteSet(S), S # {}
  PROVE  \E x \in S : \A y \in S : y <= x
<1> DEFINE c == Cardinality(S)
<1>1. c \in Nat /\ c # 0
  BY FS_CardinalityType, FS_EmptySet
<1>2. PICK x \in S : Cardinality(Below(S, x)) = c - 1
  <2>1. c \in 1..c
    BY <1>1
  <2> QED
    BY <2>1, Ranks
<1>3. IsFiniteSet(S \ {x}) /\ Cardinality(S \ {x}) = c - 1
  BY FS_RemoveElement
<1>4. Below(S, x) \in SUBSET (S \ {x})
  BY DEF Below
<1>5. Below(S, x) = S \ {x}
  BY <1>2, <1>3, <1>4, FS_Subset
<1>6. ASSUME NEW y \in S PROVE y <= x
  <2>1. y \in Nat /\ x \in Nat /\ (y = x \/ y < x)
    BY <1>5 DEF Below
  <2> QED
    BY <2>1
<1> QED
  BY <1>6

\* Ascending lists every element once.
LEMMA AscendingFacts ==
  ASSUME NEW S, S \subseteq Nat, IsFiniteSet(S)
  PROVE  /\ DOMAIN Ascending(S) = 1..Cardinality(S)
         /\ Len(Ascending(S)) = Cardinality(S) /\ Cardinality(S) \in Nat
         /\ Ascending(S) \in Seq(S)
         /\ \A i \in 1..Cardinality(S) : Ascending(S)[i] \in S
         /\ \A i, j \in 1..Cardinality(S) : Ascending(S)[i] = Ascending(S)[j] => i = j
<1>1. Cardinality(S) \in Nat
  BY Ranks
<1>2. ASSUME NEW i \in 1..Cardinality(S)
      PROVE  /\ Ascending(S)[i] \in S
             /\ Cardinality(Below(S, Ascending(S)[i])) = i - 1
  <2>1. \E n \in S : Cardinality(Below(S, n)) = i - 1
    BY Ranks
  <2>2. Ascending(S)[i] = CHOOSE n \in S : Cardinality(Below(S, n)) = i - 1
    BY DEF Ascending, Below
  <2> QED
    BY <2>1, <2>2
<1>3. ASSUME NEW i \in 1..Cardinality(S), NEW j \in 1..Cardinality(S),
             Ascending(S)[i] = Ascending(S)[j]
      PROVE  i = j
  <2>1. i - 1 = j - 1
    BY <1>2, <1>3
  <2> QED
    BY <1>1, <2>1
<1>4. DOMAIN Ascending(S) = 1..Cardinality(S)
  BY DEF Ascending
<1>5. Ascending(S) \in [1..Cardinality(S) -> S]
  BY <1>2 DEF Ascending
<1>6. Ascending(S) \in Seq(S)
  BY <1>1, <1>5, SeqDef
<1>7. Len(Ascending(S)) \in Nat /\ DOMAIN Ascending(S) = 1..Len(Ascending(S))
  BY <1>6, LenProperties
<1>8. Len(Ascending(S)) = Cardinality(S)
  BY <1>1, <1>4, <1>7
<1> QED
  BY <1>1, <1>2, <1>3, <1>4, <1>6, <1>8

\* The values of a function on a finite set are finitely many.
LEMMA FiniteValues ==
  ASSUME NEW f, NEW S, IsFiniteSet(S), S \subseteq DOMAIN f
  PROVE  /\ IsFiniteSet({f[x] : x \in S})
         /\ Cardinality({f[x] : x \in S}) <= Cardinality(S)
<1> DEFINE T == {f[x] : x \in S}
           g == [x \in S |-> f[x]]
<1>1. g \in Surjection(S, T)
  BY DEF Surjection
<1> QED
  BY <1>1, FS_Surjection

(***************************************************************************)
(* Votes.                                                                  *)
(***************************************************************************)
\* All that the devices can teach.
Lessons == UNION {Range(Observations(d)) : d \in Devices}

\* A model of a finite number of observations.
Learnt(m) == m.observations \in Seq(Lessons)

\* The devices that have seen a geometry are finitely many.
LEMMA VotesFinite ==
  ASSUME NEW m, Learnt(m), NEW key, NEW s
  PROVE  /\ IsFiniteSet(Voters(m, key, s))
         /\ Votes(m, key, s) \in 0..Len(m.observations)
         /\ Len(m.observations) \in Nat
<1>1. /\ Len(m.observations) \in Nat /\ DOMAIN m.observations = 1..Len(m.observations)
  BY LenProperties DEF Learnt
<1> DEFINE n == Len(m.observations)
           device == [i \in 1..n |-> m.observations[i].device]
           sightings == Seen(m, key, s)
<1>2. IsFiniteSet(1..n) /\ Cardinality(1..n) = n
  BY <1>1, FS_Interval
<1>3. sightings \in SUBSET (1..n)
  BY <1>1 DEF Seen
<1>4. IsFiniteSet(sightings) /\ Cardinality(sightings) <= n
  BY <1>2, <1>3, FS_Subset
<1>5. Voters(m, key, s) = {device[i] : i \in sightings}
  BY <1>3 DEF Voters
<1>6. sightings \subseteq DOMAIN device
  BY <1>3
<1> HIDE DEF device, sightings
<1>7. IsFiniteSet(Voters(m, key, s)) /\ Cardinality(Voters(m, key, s)) <= Cardinality(sightings)
  BY <1>4, <1>5, <1>6, FiniteValues
<1>8. Cardinality(Voters(m, key, s)) \in Nat /\ Cardinality(sightings) \in Nat
  BY <1>4, <1>7, FS_CardinalityType
<1> QED
  BY <1>1, <1>4, <1>7, <1>8 DEF Votes

\* Some shape has the most votes.
LEMMA ForemostExists ==
  ASSUME NEW m, Learnt(m), NEW key, NEW shapes, shapes # {}
  PROVE  Foremost(m, key, shapes) # {}
<1> DEFINE counts == {Votes(m, key, s) : s \in shapes}
<1>1. PICK n \in Nat : n = Len(m.observations)
  BY VotesFinite
<1>2. counts \in SUBSET (0..n) /\ counts # {}
  BY <1>1, VotesFinite
<1>3. PICK c \in counts : \A d \in counts : d <= c
  <2> HIDE DEF counts
  <2>1. IsFiniteSet(0..n)
    BY <1>1, FS_Interval
  <2>2. IsFiniteSet(counts)
    BY <1>2, <2>1, FS_Subset
  <2>3. counts \subseteq Nat
    BY <1>2
  <2> QED
    BY <1>2, <2>2, <2>3, GreatestExists
<1>4. PICK s \in shapes : c = Votes(m, key, s)
  BY <1>3
<1>5. \A t \in shapes : Votes(m, key, t) <= Votes(m, key, s)
  BY <1>3, <1>4
<1> QED
  BY <1>4, <1>5 DEF Foremost

\* Shapes that lead have the same votes, and all others fewer.
LEMMA ForemostLeads ==
  ASSUME NEW m, Learnt(m), NEW key, NEW shapes, NEW s \in Foremost(m, key, shapes),
         NEW t \in shapes
  PROVE  /\ s \in shapes
         /\ t \in Foremost(m, key, shapes) => Votes(m, key, t) = Votes(m, key, s)
         /\ t \notin Foremost(m, key, shapes) => Votes(m, key, t) < Votes(m, key, s)
<1>1. s \in shapes /\ \A u \in shapes : Votes(m, key, u) <= Votes(m, key, s)
  BY DEF Foremost
<1>2. \A u : Votes(m, key, u) \in Nat
  BY VotesFinite
<1>3. CASE t \in Foremost(m, key, shapes)
  <2>1. Votes(m, key, s) <= Votes(m, key, t) /\ Votes(m, key, t) <= Votes(m, key, s)
    BY <1>1, <1>3 DEF Foremost
  <2> QED
    BY <1>1, <1>2, <1>3, <2>1
<1>4. CASE t \notin Foremost(m, key, shapes)
  <2>1. PICK u \in shapes : ~ (Votes(m, key, u) <= Votes(m, key, t))
    BY <1>4 DEF Foremost
  <2>2. Votes(m, key, u) <= Votes(m, key, s)
    BY <1>1
  <2>3. /\ Votes(m, key, u) \in Nat /\ Votes(m, key, t) \in Nat /\ Votes(m, key, s) \in Nat
    BY <1>2
  <2> QED
    BY <1>1, <1>4, <2>1, <2>2, <2>3
<1> QED
  BY <1>3, <1>4

\* The shapes of a key are finitely many, and someone has seen each.
LEMMA ShapesFinite ==
  ASSUME NEW m, Learnt(m), NEW key
  PROVE  /\ IsFiniteSet(Shapes(m, key))
         /\ key \in KeysOf(m) => Shapes(m, key) # {}
         /\ \A s \in Shapes(m, key) : Voters(m, key, s) # {}
<1>1. /\ Len(m.observations) \in Nat /\ DOMAIN m.observations = 1..Len(m.observations)
  BY LenProperties DEF Learnt
<1> DEFINE n == Len(m.observations)
           shape == [i \in 1..n |-> m.observations[i].shape]
           sightings == {i \in 1..n : m.observations[i].key = key}
<1>2. IsFiniteSet(1..n)
  BY <1>1, FS_Interval
<1>3. sightings \in SUBSET (1..n)
  OBVIOUS
<1>4. IsFiniteSet(sightings)
  BY <1>2, <1>3, FS_Subset
<1>5. Range(m.observations) = {m.observations[i] : i \in 1..n}
  BY <1>1 DEF Range
<1>6. Shapes(m, key) = {shape[i] : i \in sightings}
  BY <1>5 DEF Shapes
<1>7. sightings \subseteq DOMAIN shape
  OBVIOUS
<1>8. IsFiniteSet({shape[i] : i \in sightings})
  <2> HIDE DEF shape, sightings
  <2> QED
    BY <1>4, <1>7, FiniteValues
<1>9. ASSUME key \in KeysOf(m) PROVE Shapes(m, key) # {}
  <2>1. PICK i \in 1..n : m.observations[i].key = key
    BY <1>5, <1>9 DEF KeysOf
  <2> QED
    BY <1>6, <2>1
<1>10. ASSUME NEW s \in Shapes(m, key) PROVE Voters(m, key, s) # {}
  <2>1. PICK i \in 1..n : m.observations[i].key = key /\ m.observations[i].shape = s
    BY <1>6
  <2>2. i \in Seen(m, key, s)
    BY <1>1, <2>1 DEF Seen
  <2> QED
    BY <2>2 DEF Voters
<1> QED
  BY <1>6, <1>8, <1>9, <1>10

(***************************************************************************)
(* What a device teaches.                                                  *)
(***************************************************************************)
\* The slots that learn looks at are finitely many numbers.
SlotsOf(d) == Slots(Grid[d], ClockRowOf(Grid[d]), AnchorColumns(Grid[d]))

LEMMA SlotsFinite ==
  ASSUME NEW d \in Devices
  PROVE  /\ IsFiniteSet(SlotsOf(d)) /\ SlotsOf(d) \subseteq Nat
         /\ \A slot \in SlotsOf(d) : /\ slot \div 2 \in DOMAIN ClockRowOf(Grid[d])
                                    /\ Bus(slot) \in DOMAIN Grid[d][slot \div 2].bits
<1> DEFINE grid == Grid[d]
           places == ClockRowOf(grid)
           columns == AnchorColumns(grid)
           slots == Slots(grid, places, columns)
           even == {2 * t : t \in DOMAIN places}
           odd == {2 * t + 1 : t \in DOMAIN places}
<1>1. IsFiniteSet(DOMAIN places)
  <2>1. DOMAIN places \in SUBSET DOMAIN grid
    BY DEF ClockRowOf, PlacesIn
  <2> QED
    BY <2>1, TilegridAssumption, FS_Subset
<1>2. IsFiniteSet(even) /\ IsFiniteSet(odd)
  <2> DEFINE f == [t \in DOMAIN places |-> 2 * t]
             g == [t \in DOMAIN places |-> 2 * t + 1]
  <2>1. even = {f[t] : t \in DOMAIN places} /\ odd = {g[t] : t \in DOMAIN places}
    OBVIOUS
  <2>2. DOMAIN places \subseteq DOMAIN f /\ DOMAIN places \subseteq DOMAIN g
    OBVIOUS
  <2> HIDE DEF f, g, places, even, odd
  <2> QED
    BY <1>1, <2>1, <2>2, FiniteValues
<1>3. slots \in SUBSET (even \cup odd)
  <2>1. DOMAIN places \subseteq Nat
    BY TilegridAssumption DEF ClockRowOf, PlacesIn
  <2>2. ASSUME NEW t \in DOMAIN places, NEW i \in {0, 1} PROVE 2 * t + i \in even \cup odd
    <3>1. t \in Nat
      BY <2>1
    <3>2. CASE i = 0
      BY <3>1, <3>2
    <3>3. CASE i = 1
      BY <3>3
    <3> QED
      BY <3>2, <3>3
  <2> HIDE DEF places, even, odd
  <2> QED
    BY <2>2 DEF Slots
<1>4. IsFiniteSet(slots)
  <2> HIDE DEF slots, even, odd
  <2> QED
    BY <1>2, <1>3, FS_Union, FS_Subset
<1>5. DOMAIN places \subseteq Nat
  BY TilegridAssumption DEF ClockRowOf, PlacesIn
<1>6. slots \subseteq Nat
  <2>1. even \subseteq Nat /\ odd \subseteq Nat
    BY <1>5
  <2> HIDE DEF slots, even, odd
  <2> QED
    BY <1>3, <2>1
<1>7. ASSUME NEW slot \in slots
      PROVE  slot \div 2 \in DOMAIN places /\ Bus(slot) \in DOMAIN grid[slot \div 2].bits
  <2> HIDE DEF places, columns, grid
  <2>1. PICK t \in DOMAIN places, i \in {0, 1} : slot = 2 * t + i
    BY DEF Slots
  <2>2. slot \div 2 = t
    BY <1>5, <2>1
  <2> QED
    BY <2>2 DEF Slots
<1> QED
  BY <1>4, <1>6, <1>7 DEF SlotsOf

\* A device gives finitely many observations, all of them its own.
LEMMA ObservationsOwn ==
  ASSUME NEW d \in Devices
  PROVE  /\ Observations(d) \in Seq(Lessons)
         /\ \A o \in Range(Observations(d)) : o.device = d
<1> DEFINE n == Cardinality(SlotsOf(d))
<1>1. n \in Nat
  BY SlotsFinite, FS_CardinalityType
<1>2. DOMAIN Observations(d) = 1..n
  BY DEF Observations, ObserveAll, Ascending, SlotsOf
<1>3. \A i \in 1..n : Observations(d)[i].device = d
  BY DEF Observations, ObserveAll, Observe, Ascending, SlotsOf
<1>4. Observations(d) = [i \in 1..n |-> Observations(d)[i]]
  BY DEF Observations, ObserveAll, Ascending, SlotsOf
<1>5. Range(Observations(d)) = {Observations(d)[i] : i \in 1..n}
  BY <1>2 DEF Range
<1> HIDE DEF n
<1>6. \A i \in 1..n : Observations(d)[i] \in Lessons
  BY <1>5 DEF Lessons
<1>7. Observations(d) \in [1..n -> Lessons]
  BY <1>4, <1>6
<1>8. Observations(d) \in Seq(Lessons)
  BY <1>1, <1>7, SeqDef
<1> QED
  BY <1>3, <1>5, <1>8

\* What was learnt names devices of the database only.
LEMMA VotersAreDevices ==
  ASSUME NEW m, Learnt(m), NEW key, NEW s
  PROVE  Voters(m, key, s) \subseteq Devices
<1>1. \A i \in DOMAIN m.observations : m.observations[i] \in Lessons
  BY ElementOfSeq, LenProperties DEF Learnt
<1>2. \A o \in Lessons : o.device \in Devices
  BY ObservationsOwn DEF Lessons
<1> QED
  BY <1>1, <1>2 DEF Voters, Seen

\* Learning adds to what was learnt.
LEMMA LearnKeeps ==
  ASSUME NEW m, Learnt(m), NEW d \in Devices
  PROVE  Learnt(Learn(m, d))
<1>1. Observations(d) \in Seq(Lessons)
  BY ObservationsOwn
<1>2. m.observations \o Observations(d) \in Seq(Lessons)
  BY <1>1, ConcatProperties DEF Learnt
<1> QED
  BY <1>2 DEF Learnt, Learn, Add

LEMMA NothingLearnt == Learnt(NoModel)
  BY EmptySeq DEF Learnt, NoModel

(***************************************************************************)
(* The winner of a key.                                                    *)
(***************************************************************************)
\* The shapes that lead are finitely many, and there is one.
LEMMA LeadersFinite ==
  ASSUME NEW m, Learnt(m), NEW key \in KeysOf(m)
  PROVE  LET tied == Foremost(m, key, Shapes(m, key))
         IN  /\ tied # {} /\ IsFiniteSet(tied) /\ tied \subseteq Shapes(m, key)
             /\ \A prefer_ : /\ Liked(m, key, tied, prefer_) \subseteq tied
                            /\ IsFiniteSet(Liked(m, key, tied, prefer_))
<1> DEFINE tied == Foremost(m, key, Shapes(m, key))
<1>1. tied # {}
  BY ForemostExists, ShapesFinite
<1>2. tied \in SUBSET Shapes(m, key) /\ IsFiniteSet(tied)
  <2>1. tied \in SUBSET Shapes(m, key)
    BY DEF Foremost
  <2> HIDE DEF tied
  <2> QED
    BY <2>1, ShapesFinite, FS_Subset
<1>3. \A prefer_ : Liked(m, key, tied, prefer_) \in SUBSET tied
  BY DEF Liked
<1> HIDE DEF tied
<1>4. \A prefer_ : IsFiniteSet(Liked(m, key, tied, prefer_))
  BY <1>2, <1>3, FS_Subset
<1> QED
  BY <1>1, <1>2, <1>3, <1>4 DEF tied

\* Of shapes that share no device the one whose devices come first is chosen.
LEMMA FirstNames ==
  ASSUME NEW m, Learnt(m), NEW key, NEW shapes, shapes \subseteq Shapes(m, key), shapes # {},
         \A s, t \in shapes : s = t \/ Voters(m, key, s) \cap Voters(m, key, t) = {}
  PROVE  /\ FirstOf(m, key, shapes) \in shapes
         /\ \A s \in shapes \ {FirstOf(m, key, shapes)} :
              \E d \in Voters(m, key, FirstOf(m, key, shapes)) :
                \A e \in Voters(m, key, s) : d < e
<1> DEFINE all == UNION {Voters(m, key, s) : s \in shapes}
           Rule(s, t) == \/ Before(Voters(m, key, s), Voters(m, key, t))
                         \/ /\ Voters(m, key, s) = Voters(m, key, t)
                            /\ \E i \in Seen(m, key, s) : \A j \in Seen(m, key, t) : i < j
           Leads(s) == \A t \in shapes \ {s} : Rule(s, t)
<1>1. \A s \in shapes : Voters(m, key, s) # {} /\ Voters(m, key, s) \subseteq Devices
  BY ShapesFinite, VotersAreDevices
<1>2. \A s \in shapes : Voters(m, key, s) \subseteq Nat
  BY <1>1, TilegridAssumption
<1>3. all \subseteq Nat /\ all # {}
  BY <1>1, <1>2
<1>4. PICK least \in all : \A d \in all : least <= d
  <2> HIDE DEF all
  <2> QED
    BY <1>3, LeastExists
<1>5. PICK first \in shapes : least \in Voters(m, key, first)
  BY <1>4
<1>6. ASSUME NEW t \in shapes \ {first}
      PROVE  Before(Voters(m, key, first), Voters(m, key, t))
  <2>1. Voters(m, key, first) \cap Voters(m, key, t) = {}
    OBVIOUS
  <2>2. least \in Voters(m, key, first) \ Voters(m, key, t)
    BY <1>5, <2>1
  <2>3. ASSUME NEW e \in Voters(m, key, t) \ Voters(m, key, first) PROVE least < e
    <3>1. e \in all /\ least # e
      BY <2>2
    <3>2. least \in Nat /\ e \in Nat /\ least <= e
      BY <1>3, <1>4, <3>1
    <3> QED
      BY <3>1, <3>2
  <2> QED
    BY <2>2, <2>3 DEF Before
<1>7. Leads(first)
  BY <1>6
<1>8. FirstOf(m, key, shapes) = CHOOSE s \in shapes : Leads(s)
  BY DEF FirstOf
<1>9. PICK won \in shapes : won = FirstOf(m, key, shapes) /\ Leads(won)
  <2> HIDE DEF Leads
  <2> QED
    BY <1>7, <1>8
<1>10. ASSUME NEW s \in shapes \ {won}
       PROVE  \E d \in Voters(m, key, won) : \A e \in Voters(m, key, s) : d < e
  <2>1. Voters(m, key, won) \cap Voters(m, key, s) = {} /\ Voters(m, key, won) # {}
    BY <1>1
  <2>2. Before(Voters(m, key, won), Voters(m, key, s))
    BY <1>9, <2>1
  <2> QED
    BY <2>1, <2>2 DEF Before
<1> QED
  BY <1>9, <1>10

\* How a key is decided.
LEMMA WinnerFacts ==
  ASSUME NEW m, Learnt(m), NEW e, Learnt(e), NEW preferred, NEW key \in KeysOf(m)
  PROVE  LET tied == Foremost(m, key, Shapes(m, key))
             liked == Liked(m, key, tied, preferred)
             backed == Foremost(e, key, tied)
             w == Winner(m, key, e, preferred)
         IN  \/ tied = {w[1]}
             \/ liked = {w[1]}
             \/ Cardinality(liked) # 1 /\ backed = {w[1]}
             \/ /\ Cardinality(liked) # 1 /\ backed # {} /\ backed \subseteq tied
                /\ w[1] = FirstOf(m, key, backed) /\ w[2] = "arbitrary"
<1> DEFINE tied == Foremost(m, key, Shapes(m, key))
           liked == Liked(m, key, tied, preferred)
           backed == Foremost(e, key, tied)
           w == Winner(m, key, e, preferred)
<1>1. tied # {} /\ IsFiniteSet(tied) /\ liked \subseteq tied /\ IsFiniteSet(liked)
  BY LeadersFinite
<1>2. w = Untied(m, key, tied, liked, e)
  BY DEF Winner, Decided
<1>3. backed # {}
  <2> HIDE DEF tied
  <2> QED
    BY <1>1, ForemostExists
<1>4. backed \in SUBSET tied
  BY DEF Foremost
<1> HIDE DEF tied, liked, w
<1>5. IsFiniteSet(backed)
  BY <1>1, <1>4, FS_Subset
<1>6. \A S : IsFiniteSet(S) /\ Cardinality(S) = 1 => S = {Only(S)}
  BY FS_Singleton DEF Only
<1>7. CASE Cardinality(tied) = 1
  <2>1. w[1] = Only(tied)
    BY <1>2, <1>7 DEF Untied
  <2> QED
    BY <1>1, <1>6, <1>7, <2>1 DEF tied, liked, w
<1>8. CASE Cardinality(tied) # 1 /\ Cardinality(liked) = 1
  <2>1. w[1] = Only(liked)
    BY <1>2, <1>8 DEF Untied
  <2> QED
    BY <1>1, <1>6, <1>8, <2>1 DEF tied, liked, w
<1>9. CASE Cardinality(tied) # 1 /\ Cardinality(liked) # 1
  <2>1. w = Broken(m, key, backed)
    BY <1>2, <1>9 DEF Untied
  <2> HIDE DEF backed
  <2>2. CASE Cardinality(backed) = 1
    <3>1. w[1] = Only(backed)
      BY <2>1, <2>2 DEF Broken
    <3> QED
      BY <1>5, <1>6, <1>9, <2>2, <3>1 DEF tied, liked, backed, w
  <2>3. CASE Cardinality(backed) # 1
    <3>1. w = <<FirstOf(m, key, backed), "arbitrary">>
      BY <2>1, <2>3 DEF Broken
    <3>2. w[1] = FirstOf(m, key, backed) /\ w[2] = "arbitrary"
      BY <3>1
    <3> QED
      BY <1>3, <1>4, <1>9, <3>2 DEF tied, liked, backed, w
  <2> QED
    BY <2>2, <2>3
<1> QED
  BY <1>7, <1>8, <1>9

\* The winner is the shape that the four rules of resolve promise, if no device
\* is of two minds about the key.
LEMMA RuleWins ==
  ASSUME Learnt(model), Learnt(elsewhere), NEW key \in KeysOf(model), OneGeometryEach(key)
  PROVE  WonByRule(key, Winner(model, key, elsewhere, prefer)[1], Tied(key),
                   Liked(model, key, Tied(key), prefer))
<1> DEFINE tied == Tied(key)
           liked == Liked(model, key, tied, prefer)
           backed == Foremost(elsewhere, key, tied)
           won == Winner(model, key, elsewhere, prefer)[1]
<1>1. /\ tied # {} /\ IsFiniteSet(tied) /\ tied \subseteq Shapes(model, key)
      /\ liked \subseteq tied /\ IsFiniteSet(liked)
  BY LeadersFinite DEF Tied
<1>2. \/ tied = {won}
      \/ liked = {won}
      \/ Cardinality(liked) # 1 /\ backed = {won}
      \/ /\ Cardinality(liked) # 1 /\ backed # {} /\ backed \subseteq tied
         /\ won = FirstOf(model, key, backed)
  BY WinnerFacts DEF Tied
<1>3. backed \subseteq tied
  BY DEF Foremost
\* A shape that is not backed has fewer votes elsewhere than one that is.
<1>4. ASSUME won \in backed, NEW s \in tied \ backed PROVE Outvotes(key, won, s)
  <2> HIDE DEF tied, won
  <2> QED
    BY <1>4, ForemostLeads DEF Outvotes
<1> HIDE DEF tied, liked, won
<1>5. CASE tied = {won}
  <2>1. Cardinality(liked) = 1 => won \in liked
    BY <1>1, <1>5, FS_EmptySet
  <2> QED
    BY <1>5, <2>1 DEF WonByRule, tied, liked, won
<1>6. CASE liked = {won}
  <2>1. Cardinality(liked) = 1
    BY <1>6, FS_Singleton
  <2> QED
    BY <1>1, <1>6, <2>1 DEF WonByRule, tied, liked, won
<1>7. CASE Cardinality(liked) # 1 /\ backed = {won}
  <2>1. \A s \in tied \ {won} : Outvotes(key, won, s)
    BY <1>4, <1>7
  <2> QED
    BY <1>3, <1>7, <2>1 DEF WonByRule, tied, liked, won
<1>8. CASE /\ Cardinality(liked) # 1 /\ backed # {}
           /\ won = FirstOf(model, key, backed)
  <2>1. /\ backed \subseteq Shapes(model, key)
        /\ \A s, t \in backed :
             s = t \/ Voters(model, key, s) \cap Voters(model, key, t) = {}
    BY <1>1, <1>3 DEF OneGeometryEach
  <2> HIDE DEF backed
  <2>2. /\ won \in backed
        /\ \A s \in backed \ {won} : \E d \in Voters(model, key, won) :
             \A e \in Voters(model, key, s) : d < e
    BY <1>8, <2>1, FirstNames
  <2>3. ASSUME NEW s \in tied \ {won} PROVE Outvotes(key, won, s) \/ NamedFirst(key, won, s)
    <3>1. CASE s \notin backed
      BY <1>4, <2>2, <3>1
    <3>2. CASE s \in backed
      <4>1. Votes(elsewhere, key, s) = Votes(elsewhere, key, won)
        BY <2>2, <3>2, ForemostLeads DEF backed
      <4> QED
        BY <2>2, <3>2, <4>1 DEF NamedFirst
    <3> QED
      BY <3>1, <3>2
  <2> QED
    BY <1>3, <1>8, <2>2, <2>3 DEF WonByRule, tied, liked, won
<1> QED
  BY <1>2, <1>5, <1>6, <1>7, <1>8 DEF tied, liked, won

(***************************************************************************)
(* What is written.                                                        *)
(***************************************************************************)
\* An entry has the shape of the geometry of its key.
LEMMA EntryShape ==
  ASSUME NEW part, NEW tile, NEW place, NEW bus, NEW columns, NEW law,
         NEW e \in Entry(part, tile, place, bus, columns, law)
  PROVE  e.shape = law.geometry[<<tile.type, place[2], bus>>].shape
<1> DEFINE key == <<tile.type, place[2], bus>>
           hits == Hits(columns, bus, tile.type, tile.x, law.deltas)
<1>1. e \in EntryAt(part, PartRows(part)[place[1]], bus, hits, law.geometry[key])
  <2> HIDE DEF hits
  <2>1. PICK k \in {key} \cap DOMAIN law.geometry :
          e \in EntryAt(part, PartRows(part)[place[1]], bus, hits, law.geometry[k])
    BY DEF Entry, hits
  <2> QED
    BY <2>1
<1> HIDE DEF hits, key
<1>2. PICK i, depth : e = AtColumn(PartRows(part)[place[1]], i, law.geometry[key], depth)
  BY <1>1 DEF EntryAt
<1>3. e.shape = law.geometry[key].shape
  BY <1>2 DEF AtColumn
<1> QED
  BY <1>3 DEF key

\* An entry that is not borrowed comes from the law of the family.
LEMMA FilledByLaw ==
  ASSUME NEW grid, NEW part, NEW places, NEW columns, NEW law, NEW fallback,
         NEW x \in FillAll(grid, part, places, columns, law, fallback), ~ x[4]
  PROVE  \E t \in DOMAIN places : \E bus \in Buses :
           /\ x[1] = t /\ x[2] = bus
           /\ <<grid[t].type, places[t][2], bus>> \in DOMAIN law.geometry
           /\ x[3] \in Entry(part, grid[t], places[t], bus, columns, law)
<1> DEFINE known(t, bus) == <<grid[t].type, places[t][2], bus>> \in DOMAIN law.geometry
           used(t, bus) == IF known(t, bus) THEN law ELSE fallback
           filled(t, bus) == {<<t, bus, e, ~ known(t, bus)>> :
                                e \in Entry(part, grid[t], places[t], bus, columns, used(t, bus))}
<1>1. FillAll(grid, part, places, columns, law, fallback)
        = UNION {filled(t, bus) : t \in DOMAIN places, bus \in Buses}
  BY DEF FillAll
<1> HIDE DEF filled
<1>2. PICK t \in DOMAIN places, bus \in Buses : x \in filled(t, bus)
  BY <1>1
<1> HIDE DEF known, used
<1>3. PICK e \in Entry(part, grid[t], places[t], bus, columns, used(t, bus)) :
        x = <<t, bus, e, ~ known(t, bus)>>
  BY <1>2 DEF filled
<1>4. x[1] = t /\ x[2] = bus /\ x[3] = e /\ known(t, bus)
  BY <1>3
<1> QED
  BY <1>3, <1>4 DEF known, used

(***************************************************************************)
(* The inductive invariant.                                                *)
(***************************************************************************)
\* What the programs know at each stage: the models hold what devices taught,
\* the geometry is that of the models, and a grid is written from it only if no
\* pick that it uses was a guess, or the user allows that.
Written(law, fallback) ==
  derived = Apply(Grid[target], Part[target], law, fallback)
TiesInv ==
  /\ target \in Devices /\ others \subseteq Devices /\ to_learn \in Seq(Devices)
  /\ allow \in BOOLEAN
  /\ Learnt(model) /\ Learnt(elsewhere)
  /\ pc \in {"families", "learn", "check", "refused", "done"}
  /\ pc \in {"families", "learn"} => resolved = <<>>
  /\ pc \notin {"families", "learn"} => resolved = Resolve(model, elsewhere, prefer)
  /\ pc = "done" =>
       /\ Unsettled = {} \/ allow
       /\ \E fallback : Written([geometry |-> resolved, deltas |-> model.deltas], fallback)

LEMMA TiesInit == Init => TiesInv
<1> SUFFICES ASSUME Init PROVE TiesInv
  OBVIOUS
<1>1. Siblings \subseteq Devices /\ Siblings \ {target} \subseteq Nat /\ IsFiniteSet(Siblings \ {target})
  BY TilegridAssumption, FS_Subset DEF Siblings
<1>2. Ascending(Siblings \ {target}) \in Seq(Siblings \ {target})
  BY <1>1, AscendingFacts
<1>3. to_learn \in Seq(Devices)
  BY <1>1, <1>2, DeriveAssumption DEF Init, References
<1> QED
  BY <1>3, NothingLearnt DEF Init, TiesInv

LEMMA TiesNext == TiesInv /\ [Next]_vars => TiesInv'
<1> SUFFICES ASSUME TiesInv, [Next]_vars PROVE TiesInv'
  OBVIOUS
<1>1. ASSUME NEW d \in others, LearnElsewhere(d) PROVE TiesInv'
  <2>1. Learnt(elsewhere')
    BY <1>1, LearnKeeps DEF TiesInv, LearnElsewhere
  <2> QED
    BY <1>1, <2>1 DEF TiesInv, LearnElsewhere, options, Learnt
<1>2. CASE OthersLearnt
  BY <1>2 DEF TiesInv, OthersLearnt, options, Learnt
<1>3. CASE LearnReference
  <2>1. Head(to_learn) \in Devices /\ to_learn' \in Seq(Devices)
    BY <1>3 DEF TiesInv, LearnReference
  <2>2. Learnt(model')
    BY <1>3, <2>1, LearnKeeps DEF TiesInv, LearnReference
  <2> QED
    BY <1>3, <2>1, <2>2 DEF TiesInv, LearnReference, options, Learnt
<1>4. CASE ResolveTies
  BY <1>4 DEF TiesInv, ResolveTies, options, Learnt
<1>5. CASE RefuseConflicts
  BY <1>5 DEF TiesInv, RefuseConflicts, options, Learnt
<1>6. CASE WriteTilegrid
  <2>1. resolved' = Resolve(model, elsewhere, prefer)' /\ (Unsettled = {} \/ allow)'
    BY <1>6 DEF TiesInv, WriteTilegrid, options, Unsettled
  <2>2. \E fallback : Written([geometry |-> resolved, deltas |-> model.deltas], fallback)'
    BY <1>6 DEF WriteTilegrid, options, Written
  <2> QED
    BY <1>6, <2>1, <2>2 DEF TiesInv, WriteTilegrid, options, Learnt
<1>7. CASE UNCHANGED vars
  BY <1>7 DEF TiesInv, vars, options, Learnt, Unsettled, Written
<1> QED
  BY <1>1, <1>2, <1>3, <1>4, <1>5, <1>6, <1>7 DEF Next

LEMMA TiesAlways == Spec => []TiesInv
  BY TiesInit, TiesNext, PTL DEF Spec

(***************************************************************************)
(* The theorems.                                                           *)
(***************************************************************************)
\* Where no device is of two minds, the rules of resolve decide every key, in
\* whatever order the references are learnt.
THEOREM RulesAlwaysDecide == Spec => []RulesDecide
<1>1. TiesInv => RulesDecide
  <2> SUFFICES ASSUME TiesInv, resolved # <<>>, NEW key \in DOMAIN resolved, OneGeometryEach(key)
               PROVE  WonByRule(key, resolved[key].shape, Tied(key),
                                Liked(model, key, Tied(key), prefer))
    BY DEF RulesDecide
  <2>1. Learnt(model) /\ Learnt(elsewhere) /\ resolved = Resolve(model, elsewhere, prefer)
    BY DEF TiesInv
  <2>2. /\ key \in KeysOf(model)
        /\ resolved[key].shape = Winner(model, key, elsewhere, prefer)[1]
    BY <2>1 DEF Resolve, Geometry
  <2> QED
    BY <2>1, <2>2, RuleWins
<1> QED
  BY <1>1, TiesAlways, PTL

\* Unless the user allows it, no address that the family's references give rests
\* on the name of a device.
THEOREM SettledWithoutNames == Spec => []SettledByVotes
<1> DEFINE places == ClockRowOf(Grid[target])
           columns == AnchorColumns(Grid[target])
           law == [geometry |-> resolved, deltas |-> model.deltas]
           KeyOf(t, bus) == <<Grid[target][t].type, places[t][2], bus>>
<1>1. TiesInv => SettledByVotes
  <2> SUFFICES ASSUME TiesInv, pc = "done", ~ allow, NEW x \in derived, ~ x[4]
               PROVE  LET key == KeyOf(x[1], x[2])
                      IN  \/ Tied(key) = {x[3].shape}
                          \/ Liked(model, key, Tied(key), prefer) = {x[3].shape}
                          \/ \A s \in Tied(key) \ {x[3].shape} : Outvotes(key, x[3].shape, s)
    BY DEF SettledByVotes
  <2> DEFINE key == KeyOf(x[1], x[2])
             won == Winner(model, key, elsewhere, prefer)
  <2>1. /\ Learnt(model) /\ Learnt(elsewhere) /\ resolved = Resolve(model, elsewhere, prefer)
        /\ Unsettled = {}
    BY DEF TiesInv
  <2>2. PICK fallback : Written(law, fallback)
    BY DEF TiesInv
  <2>3. x \in FillAll(Grid[target], Part[target], places, columns, law, fallback)
    BY <2>2 DEF Written, Apply
  <2>4. PICK t \in DOMAIN places, bus \in Buses :
          /\ x[1] = t /\ x[2] = bus /\ KeyOf(t, bus) \in DOMAIN law.geometry
          /\ x[3] \in Entry(Part[target], Grid[target][t], places[t], bus, columns, law)
    <3> HIDE DEF places, columns, law
    <3> QED
      BY <2>3, FilledByLaw
  <2>5. key \in DOMAIN resolved /\ x[3].shape = resolved[key].shape
    <3>1. x[3].shape = law.geometry[KeyOf(t, bus)].shape
      <4> HIDE DEF places, columns, law
      <4> QED
        BY <2>4, EntryShape
    <3> HIDE DEF places, columns
    <3> QED
      BY <2>4, <3>1
  <2>6. key \in Used(Grid[target], places)
    <3> HIDE DEF places
    <3> QED
      BY <2>4 DEF Used
  <2>7. resolved[key].how # "arbitrary"
    BY <2>1, <2>5, <2>6 DEF Unsettled
  <2>8. /\ key \in KeysOf(model)
        /\ x[3].shape = won[1] /\ won[2] # "arbitrary"
    BY <2>1, <2>5, <2>7 DEF Resolve, Geometry
  <2> HIDE DEF key, won
  <2>9. \/ Tied(key) = {won[1]}
        \/ Liked(model, key, Tied(key), prefer) = {won[1]}
        \/ Foremost(elsewhere, key, Tied(key)) = {won[1]}
    BY <2>1, <2>8, WinnerFacts DEF Tied, won
  <2>10. ASSUME Foremost(elsewhere, key, Tied(key)) = {won[1]},
                NEW s \in Tied(key) \ {won[1]}
         PROVE  Outvotes(key, won[1], s)
    BY <2>1, <2>10, ForemostLeads DEF Outvotes
  <2> QED
    BY <2>8, <2>9, <2>10 DEF key
<1> QED
  BY <1>1, TiesAlways, PTL

\* No two columns of a bus are at one x.
LEMMA ColumnsDiffer ==
  ASSUME NEW d \in Devices, NEW bus \in Buses
  PROVE  LET column == AnchorColumns(Grid[d])[bus]
         IN  /\ Len(column) \in Nat /\ DOMAIN column = 1..Len(column)
             /\ \A i \in 1..Len(column) : column[i] \in Nat
             /\ \A i, j \in 1..Len(column) : column[i] = column[j] => i = j
<1> DEFINE anchors == {u \in DOMAIN Grid[d] : Grid[d][u].type \in Anchors[bus]}
           at == [t \in DOMAIN Grid[d] |-> Grid[d][t].x]
           S == {at[t] : t \in anchors}
<1>1. anchors \in SUBSET DOMAIN Grid[d]
  OBVIOUS
<1>2. IsFiniteSet(anchors)
  <2> HIDE DEF anchors
  <2> QED
    BY <1>1, TilegridAssumption, FS_Subset
<1>3. S \subseteq Nat
  BY TilegridAssumption
<1>4. anchors \subseteq DOMAIN at
  BY <1>1
<1>5. AnchorColumns(Grid[d])[bus] = Ascending(S)
  <2>1. \A t \in anchors : at[t] = Grid[d][t].x
    BY <1>1
  <2>2. AnchorColumns(Grid[d])[bus] = Ascending({Grid[d][t].x : t \in anchors})
    BY DEF AnchorColumns
  <2> HIDE DEF at, anchors
  <2>3. S = {Grid[d][t].x : t \in anchors}
    BY <2>1
  <2> HIDE DEF S
  <2> QED
    BY <2>2, <2>3
<1> HIDE DEF anchors, at
<1>6. IsFiniteSet(S)
  BY <1>2, <1>4, FiniteValues
<1> HIDE DEF S
<1>7. /\ DOMAIN Ascending(S) = 1..Len(Ascending(S)) /\ Len(Ascending(S)) \in Nat
      /\ \A i \in 1..Len(Ascending(S)) : Ascending(S)[i] \in Nat
      /\ \A i, j \in 1..Len(Ascending(S)) : Ascending(S)[i] = Ascending(S)[j] => i = j
  BY <1>3, <1>6, AscendingFacts
<1> QED
  BY <1>5, <1>7

(***************************************************************************)
(* What the references teach.                                              *)
(***************************************************************************)
\* The tile of device d that an observation is of.
SeenAt(o, d, u, bus) ==
  /\ u \in DOMAIN ClockRowOf(Grid[d]) /\ bus \in DOMAIN Grid[d][u].bits
  /\ o.key = <<Grid[d][u].type, ClockRowOf(Grid[d])[u][2], bus>>
  /\ o.shape = Grid[d][u].bits[bus].shape /\ o.frames = Grid[d][u].bits[bus].frames

\* An observation is of a tile of its device.
LEMMA ObservationSource ==
  ASSUME NEW d \in Devices, NEW o \in Range(Observations(d))
  PROVE  \E u, bus : SeenAt(o, d, u, bus)
<1> DEFINE slots == Ascending(SlotsOf(d))
<1>1. PICK i \in DOMAIN slots :
        o = Observe(d, slots[i], Grid[d][slots[i] \div 2], Grid[d][slots[i] \div 2].bits[Bus(slots[i])],
                    ClockRowOf(Grid[d])[slots[i] \div 2][2], AnchorColumns(Grid[d]))
  <2> HIDE DEF slots
  <2> QED
    BY DEF Range, Observations, ObserveAll, SlotsOf, slots
<1>2. PICK slot \in SlotsOf(d) : slot = slots[i]
  BY SlotsFinite, AscendingFacts
<1>3. /\ slot \div 2 \in DOMAIN ClockRowOf(Grid[d])
      /\ Bus(slot) \in DOMAIN Grid[d][slot \div 2].bits
  BY SlotsFinite
<1>4. SeenAt(o, d, slot \div 2, Bus(slot))
  <2> DEFINE u == slot \div 2
  <2>1. o = Observe(d, slot, Grid[d][u], Grid[d][u].bits[Bus(slot)],
                    ClockRowOf(Grid[d])[u][2], AnchorColumns(Grid[d]))
    BY <1>1, <1>2
  <2> HIDE DEF u
  <2> QED
    BY <1>3, <2>1 DEF SeenAt, Observe, u
<1> QED
  BY <1>4

\* The model of the family holds what its references teach, each of them a device
\* whose grid and part agree.
Taught(m) ==
  /\ m.references \in Seq(Devices)
  /\ \A d \in Range(m.references) : d \in Devices /\ ColumnGate(Grid[d], Part[d])
  /\ Range(m.observations) = UNION {Range(Observations(d)) : d \in Range(m.references)}
  /\ m.deltas = {<<o.key[3], o.key[1], o.delta>> : o \in Range(m.observations)}

\* What a concatenation and an extension hold.
LEMMA RangeOfConcat ==
  ASSUME NEW S, NEW s \in Seq(S), NEW t \in Seq(S)
  PROVE  Range(s \o t) = Range(s) \cup Range(t)
<1>1. /\ Len(s) \in Nat /\ DOMAIN s = 1..Len(s) /\ Len(t) \in Nat /\ DOMAIN t = 1..Len(t)
  BY LenProperties
<1>2. /\ DOMAIN (s \o t) = 1..(Len(s) + Len(t))
      /\ \A i \in 1..(Len(s) + Len(t)) :
           (s \o t)[i] = IF i <= Len(s) THEN s[i] ELSE t[i - Len(s)]
  BY ConcatProperties, LenProperties
<1>3. ASSUME NEW x \in Range(s \o t) PROVE x \in Range(s) \cup Range(t)
  <2>1. PICK i \in 1..(Len(s) + Len(t)) : x = (s \o t)[i]
    BY <1>2 DEF Range
  <2>2. CASE i <= Len(s)
    <3>1. i \in DOMAIN s /\ x = s[i]
      BY <1>1, <1>2, <2>1, <2>2
    <3> QED
      BY <3>1 DEF Range
  <2>3. CASE ~ (i <= Len(s))
    <3>1. i - Len(s) \in DOMAIN t /\ x = t[i - Len(s)]
      BY <1>1, <1>2, <2>1, <2>3
    <3> QED
      BY <3>1 DEF Range
  <2> QED
    BY <2>2, <2>3
<1>4. ASSUME NEW x \in Range(s) PROVE x \in Range(s \o t)
  <2>1. PICK i \in 1..Len(s) : x = s[i]
    BY <1>1 DEF Range
  <2>2. i \in DOMAIN (s \o t) /\ x = (s \o t)[i]
    BY <1>1, <1>2, <2>1
  <2> QED
    BY <2>2 DEF Range
<1>5. ASSUME NEW x \in Range(t) PROVE x \in Range(s \o t)
  <2>1. PICK i \in 1..Len(t) : x = t[i]
    BY <1>1 DEF Range
  <2>2. /\ i + Len(s) \in 1..(Len(s) + Len(t)) /\ ~ (i + Len(s) <= Len(s))
        /\ i + Len(s) - Len(s) = i
    BY <1>1
  <2>3. i + Len(s) \in DOMAIN (s \o t) /\ x = (s \o t)[i + Len(s)]
    BY <1>2, <2>1, <2>2
  <2> QED
    BY <2>3 DEF Range
<1> QED
  BY <1>3, <1>4, <1>5

LEMMA RangeOfAppend ==
  ASSUME NEW S, NEW s \in Seq(S), NEW x \in S
  PROVE  Append(s, x) \in Seq(S) /\ Range(Append(s, x)) = Range(s) \cup {x}
<1> DEFINE one == <<x>>
<1>1. one \in Seq(S) /\ Range(one) = {x}
  BY DEF Range
<1>2. Append(s, x) = s \o one
  BY AppendIsConcat
<1>3. Append(s, x) \in Seq(S)
  BY AppendProperties
<1> HIDE DEF one
<1>4. Range(s \o one) = Range(s) \cup Range(one)
  BY <1>1, RangeOfConcat
<1> QED
  BY <1>1, <1>2, <1>3, <1>4

\* Learning keeps all that.
LEMMA LearnTeaches ==
  ASSUME NEW m, Learnt(m), Taught(m), NEW d \in Devices
  PROVE  Taught(Learn(m, d))
<1>1. CASE ~ ColumnGate(Grid[d], Part[d])
  BY <1>1 DEF Learn
<1>2. CASE ColumnGate(Grid[d], Part[d])
  <2> DEFINE n == Learn(m, d)
  <2>1. /\ n.deltas = m.deltas \cup {<<o.key[3], o.key[1], o.delta>> : o \in Range(Observations(d))}
        /\ n.observations = m.observations \o Observations(d)
        /\ n.references = Append(m.references, d)
    BY <1>2 DEF Learn, Add
  <2> HIDE DEF n
  <2>2. Range(n.observations) = Range(m.observations) \cup Range(Observations(d))
    BY <2>1, ObservationsOwn, RangeOfConcat DEF Learnt
  <2>3. n.references \in Seq(Devices) /\ Range(n.references) = Range(m.references) \cup {d}
    BY <2>1, RangeOfAppend DEF Taught
  <2>4. Range(n.observations) = UNION {Range(Observations(e)) : e \in Range(n.references)}
    BY <2>2, <2>3 DEF Taught
  <2>5. n.deltas = {<<o.key[3], o.key[1], o.delta>> : o \in Range(n.observations)}
    BY <2>1, <2>2 DEF Taught
  <2>6. \A e \in Range(n.references) : e \in Devices /\ ColumnGate(Grid[e], Part[e])
    BY <1>2, <2>3 DEF Taught
  <2> QED
    BY <2>3, <2>4, <2>5, <2>6 DEF Taught, n
<1> QED
  BY <1>1, <1>2

LEMMA NothingTaught == Taught(NoModel)
<1>1. Range(<<>>) = {} /\ <<>> \in Seq(Devices)
  BY DEF Range
<1> QED
  BY <1>1 DEF Taught, NoModel

LEMMA TaughtAlways == Spec => []Taught(model)
<1>1. Init => Taught(model)
  BY NothingTaught DEF Init
<1>2. TiesInv /\ Taught(model) /\ [Next]_vars => Taught(model)'
  <2> SUFFICES ASSUME TiesInv, Taught(model), [Next]_vars PROVE Taught(model')
    BY DEF Taught
  <2>1. CASE LearnReference
    <3>1. model' = Learn(model, Head(to_learn)) /\ Head(to_learn) \in Devices /\ Learnt(model)
      BY <2>1 DEF LearnReference, TiesInv
    <3> QED
      BY <3>1, LearnTeaches
  <2>2. CASE model' = model
    BY <2>2
  <2>3. LearnReference \/ model' = model
    BY DEF Next, LearnElsewhere, OthersLearnt, ResolveTies, RefuseConflicts, WriteTilegrid, vars
  <2> QED
    BY <2>1, <2>2, <2>3
<1> QED
  BY <1>1, <1>2, TiesAlways, PTL DEF Spec

\* The gate keeps the devices that are astray out of the model.
LEMMA NoneAstray ==
  ASSUME Taught(model)
  PROVE  Range(model.references) \subseteq Devices \ Astray
<1>1. ASSUME NEW d \in Astray PROVE ~ ColumnGate(Grid[d], Part[d])
  BY LawAssumption DEF ColumnGate
<1> QED
  BY <1>1 DEF Taught

(***************************************************************************)
(* The law rebuilds an entry that the references bear out.                 *)
(***************************************************************************)
\* The references have one geometry for the tile, and it wins.
LEMMA BorneOutWins ==
  ASSUME NEW m, Learnt(m), NEW e, NEW preferred, NEW key, NEW shape, Shapes(m, key) = {shape}
  PROVE  Winner(m, key, e, preferred)[1] = shape
<1> DEFINE tied == Foremost(m, key, Shapes(m, key))
<1>1. tied # {}
  BY ForemostExists
<1>2. tied = {shape}
  BY <1>1 DEF Foremost
<1>3. Cardinality(tied) = 1
  BY <1>2, FS_Singleton
<1>4. Winner(m, key, e, preferred) = Untied(m, key, tied, Liked(m, key, tied, preferred), e)
  BY DEF Winner, Decided
<1> HIDE DEF tied
<1>5. Winner(m, key, e, preferred)[1] = Only(tied)
  BY <1>3, <1>4 DEF Untied
<1> QED
  BY <1>2, <1>5 DEF Only

\* A geometry is as deep as the deepest column in which it was seen.
LEMMA DeepestSeen ==
  ASSUME NEW m, Learnt(m), NEW key, NEW shape, Seen(m, key, shape) # {},
         \A o \in Range(m.observations) : o.frames \in Nat
  PROVE  LET deepest == Highest({m.observations[i].frames : i \in Seen(m, key, shape)})
         IN  /\ \E i \in Seen(m, key, shape) : deepest = m.observations[i].frames
             /\ \A i \in Seen(m, key, shape) : m.observations[i].frames <= deepest
<1> DEFINE sightings == Seen(m, key, shape)
           frames == [i \in DOMAIN m.observations |-> m.observations[i].frames]
           S == {frames[i] : i \in sightings}
<1>1. Len(m.observations) \in Nat /\ DOMAIN m.observations = 1..Len(m.observations)
  BY LenProperties DEF Learnt
<1>2. sightings \in SUBSET DOMAIN m.observations
  BY DEF Seen
<1>3. IsFiniteSet(sightings)
  <2>1. \A n \in Nat : IsFiniteSet(1..n)
    BY FS_Interval
  <2>2. IsFiniteSet(DOMAIN m.observations)
    BY <1>1, <2>1
  <2> HIDE DEF sightings
  <2> QED
    BY <1>2, <2>2, FS_Subset
<1>4. \A i \in DOMAIN m.observations : frames[i] \in Nat
  BY DEF Range
<1>5. S = {m.observations[i].frames : i \in sightings}
  BY <1>2
<1>6. sightings \subseteq DOMAIN frames
  BY <1>2
<1> HIDE DEF sightings, frames
<1>7. IsFiniteSet(S)
  BY <1>3, <1>6, FiniteValues
<1>8. S \subseteq Nat /\ S # {}
  BY <1>2, <1>4 DEF sightings
<1> HIDE DEF S
<1>9. \E x \in S : \A y \in S : y <= x
  BY <1>7, <1>8, GreatestExists
<1>10. Highest(S) \in S /\ \A y \in S : y <= Highest(S)
  BY <1>9 DEF Highest
<1> QED
  BY <1>5, <1>10 DEF sightings

\* The entry of a tile of the target, its key, its distance to its column, and
\* what it is for the references to bear it out.
OwnEntry(t, bus) == Grid[target][t].bits[bus]
OwnKey(t, bus) == <<Grid[target][t].type, ClockRowOf(Grid[target])[t][2], bus>>
OwnDelta(t, bus) ==
  Grid[target][t].x - AnchorColumns(Grid[target])[bus][OwnEntry(t, bus).column + 1]
IsBorneOut(t, bus) ==
  /\ t \in DOMAIN ClockRowOf(Grid[target]) /\ bus \in DOMAIN Grid[target][t].bits
  /\ AllBearOut(t, bus, ClockRowOf(Grid[target]), AnchorColumns(Grid[target]),
                Range(model.references) \ Astray)

\* All that the references saw of an entry that they bear out.
LEMMA BorneOut ==
  ASSUME TiesInv, Taught(model), NEW t, NEW bus, IsBorneOut(t, bus)
  PROVE  /\ Shapes(model, OwnKey(t, bus)) = {OwnEntry(t, bus).shape}
         /\ \A x : <<bus, Grid[target][t].type, x>> \in model.deltas <=> x = OwnDelta(t, bus)
         /\ \E i \in Seen(model, OwnKey(t, bus), OwnEntry(t, bus).shape) :
              OwnEntry(t, bus).frames <= model.observations[i].frames
         /\ \A i \in DOMAIN model.observations :
              \E d \in Devices \ Astray : \E u, b : SeenAt(model.observations[i], d, u, b)
<1> PICK entry, key, delta, places :
      /\ entry = OwnEntry(t, bus) /\ delta = OwnDelta(t, bus)
      /\ places = ClockRowOf(Grid[target]) /\ key = <<Grid[target][t].type, places[t][2], bus>>
  OBVIOUS
<1> DEFINE type == Grid[target][t].type
           told == Range(model.observations)
           teachers == Range(model.references)
           SeenOf(d) == {o \in Range(Observations(d)) : o.key[1] = type /\ o.key[3] = bus}
<1>1. teachers \subseteq Devices \ Astray
  BY NoneAstray
<1>2. teachers # {} /\ \A d \in teachers : BearsOut(SeenOf(d), places[t][2], delta, entry)
  <2>1. teachers \ Astray = teachers
    BY <1>1
  <2> QED
    BY <2>1 DEF AllBearOut, IsBorneOut, OwnEntry, OwnDelta
<1>3. told = UNION {Range(Observations(d)) : d \in teachers}
  BY DEF Taught
<1>4. ASSUME NEW o \in told
      PROVE  \E d \in Devices \ Astray : \E u, b : SeenAt(o, d, u, b)
  <2>1. PICK d \in teachers : o \in Range(Observations(d))
    BY <1>3
  <2> QED
    BY <1>1, <2>1, ObservationSource
<1>5. ASSUME NEW o \in told PROVE o.key = <<o.key[1], o.key[2], o.key[3]>>
  BY <1>4 DEF SeenAt
<1>6. ASSUME NEW o \in told, o.key[1] = type, o.key[3] = bus
      PROVE  o.delta = delta /\ (o.key[2] = places[t][2] => o.shape = entry.shape)
  <2>1. PICK d \in teachers : o \in SeenOf(d)
    BY <1>3, <1>6
  <2> HIDE DEF SeenOf
  <2> QED
    BY <1>2, <2>1 DEF BearsOut
<1>7. PICK o \in told : /\ o.key[1] = type /\ o.key[3] = bus /\ o.key[2] = places[t][2]
                       /\ o.frames >= entry.frames
  <2>1. PICK d \in teachers : BearsOut(SeenOf(d), places[t][2], delta, entry)
    BY <1>2
  <2>2. PICK o \in SeenOf(d) : o.key[2] = places[t][2] /\ o.frames >= entry.frames
    <3> HIDE DEF SeenOf
    <3> QED
      BY <2>1 DEF BearsOut
  <2>3. o \in told
    BY <1>3, <2>2
  <2> QED
    BY <2>2, <2>3
<1>8. o.key = key /\ o.shape = entry.shape /\ o.delta = delta
  BY <1>5, <1>6, <1>7
<1> HIDE DEF SeenOf
<1>9. Shapes(model, key) = {entry.shape}
  <2>1. key[1] = type /\ key[2] = places[t][2] /\ key[3] = bus
    OBVIOUS
  <2> HIDE DEF type, told
  <2>2. \A p \in told : p.key = key => p.shape = entry.shape
    BY <1>6, <2>1
  <2> QED
    BY <1>7, <1>8, <2>2 DEF Shapes, told
<1>10. ASSUME NEW x PROVE <<bus, type, x>> \in model.deltas <=> x = delta
  <2>1. model.deltas = {<<p.key[3], p.key[1], p.delta>> : p \in told}
    BY DEF Taught
  <2> HIDE DEF type, told
  <2>2. CASE <<bus, type, x>> \in model.deltas
    <3>1. PICK p \in told : <<p.key[3], p.key[1], p.delta>> = <<bus, type, x>>
      BY <2>1, <2>2
    <3>2. p.key[3] = bus /\ p.key[1] = type /\ p.delta = x
      BY <3>1
    <3> QED
      BY <1>6, <2>2, <3>2
  <2>3. CASE x = delta
    BY <1>7, <1>8, <2>1, <2>3
  <2> QED
    BY <2>2, <2>3
<1>11. PICK i \in DOMAIN model.observations : model.observations[i] = o
  BY <1>7 DEF Range
<1>12. i \in Seen(model, key, entry.shape) /\ entry.frames <= model.observations[i].frames
  BY <1>7, <1>8, <1>11 DEF Seen
<1>13. \A j \in DOMAIN model.observations : model.observations[j] \in told
  BY DEF Range
<1> QED
  BY <1>4, <1>9, <1>10, <1>12, <1>13 DEF type, OwnKey

\* The geometry of a key that the references bear out makes the entry again: a
\* geometry that is deeper than the entry is one that the column caps.
LEMMA GeometryRebuilds ==
  ASSUME TiesInv, Taught(model), target \notin Astray,
         NEW t, NEW bus, IsBorneOut(t, bus)
  PROVE  /\ OwnKey(t, bus) \in DOMAIN Resolve(model, elsewhere, prefer)
         /\ AtColumn(RowAt(target, t), OwnEntry(t, bus).column,
                     Resolve(model, elsewhere, prefer)[OwnKey(t, bus)],
                     DepthAt(target, t, bus)) = OwnEntry(t, bus)
<1> PICK entry, key : entry = OwnEntry(t, bus) /\ key = OwnKey(t, bus)
  OBVIOUS
<1> DEFINE depth == DepthAt(target, t, bus)
           geometry == Resolve(model, elsewhere, prefer)[key]
           row == RowAt(target, t)
           observed == model.observations
           won == Winner(model, key, elsewhere, prefer)
<1>1. Learnt(model) /\ target \in Devices \ Astray
  BY DEF TiesInv
<1>2. /\ InPart(target, t, bus, entry)
      /\ \A e \in Devices \ Astray : \A u \in DOMAIN ClockRowOf(Grid[e]) :
           bus \in DOMAIN Grid[e][u].bits => FramesCapped(target, t, e, u, bus)
  BY <1>1, LawAssumption DEF IsBorneOut, OwnEntry
<1>3. /\ Shapes(model, key) = {entry.shape}
      /\ \E i \in Seen(model, key, entry.shape) : entry.frames <= observed[i].frames
      /\ \A i \in DOMAIN observed :
           \E d \in Devices \ Astray : \E u, b : SeenAt(observed[i], d, u, b)
  BY BorneOut
<1>4. ASSUME NEW d \in Devices \ Astray, NEW u, NEW b, NEW o, SeenAt(o, d, u, b)
      PROVE  o.frames \in Nat
  <2>1. InPart(d, u, b, Grid[d][u].bits[b])
    BY <1>4, LawAssumption DEF SeenAt
  <2> QED
    BY <1>4, <2>1 DEF SeenAt, InPart
<1>5. \A o \in Range(observed) : o.frames \in Nat
  <2>1. \A i \in DOMAIN observed : observed[i].frames \in Nat
    BY <1>3, <1>4
  <2> QED
    BY <2>1 DEF Range
<1>6. won[1] = entry.shape
  <2>1. PICK shape : shape = entry.shape
    OBVIOUS
  <2>2. Shapes(model, key) = {shape}
    BY <1>3, <2>1
  <2>3. Winner(model, key, elsewhere, prefer)[1] = shape
    BY <1>1, <2>2, BorneOutWins
  <2> QED
    BY <2>1, <2>3
<1>7. key \in KeysOf(model)
  BY <1>3 DEF Shapes, KeysOf
<1> DEFINE deepest == Highest({observed[i].frames : i \in Seen(model, key, entry.shape)})
<1>8. /\ key \in DOMAIN Resolve(model, elsewhere, prefer)
      /\ geometry.shape = entry.shape /\ geometry.frames = deepest
  <2> HIDE DEF won
  <2>1. geometry = Geometry(model, key, won)
    BY <1>7 DEF Resolve, won
  <2> HIDE DEF geometry
  <2> QED
    BY <1>6, <1>7, <2>1 DEF Resolve, Geometry
<1> HIDE DEF geometry, deepest
<1>9. PICK i \in Seen(model, key, entry.shape) : deepest = observed[i].frames
  <2>1. PICK shape : shape = entry.shape
    OBVIOUS
  <2>2. Seen(model, key, shape) # {}
    BY <1>3, <2>1
  <2>3. \E i \in Seen(model, key, shape) :
          Highest({observed[j].frames : j \in Seen(model, key, shape)}) = observed[i].frames
    BY <1>1, <1>5, <2>2, DeepestSeen
  <2> QED
    BY <2>1, <2>3 DEF deepest
<1>10. entry.frames <= deepest /\ deepest \in Nat
  <2>1. PICK j \in Seen(model, key, entry.shape) : entry.frames <= observed[j].frames
    BY <1>3
  <2>2. observed[j].frames <= deepest
    BY <1>1, <1>5, <2>1, DeepestSeen DEF deepest
  <2>3. observed[i].frames \in Nat /\ observed[j].frames \in Nat
    BY <1>5 DEF Seen, Range
  <2>4. entry.frames \in Nat
    BY <1>2 DEF InPart
  <2> QED
    BY <1>9, <2>1, <2>2, <2>3, <2>4
\* Where the geometry is deeper the law of the part caps it.
<1>11. entry.frames < deepest => entry.frames = depth
  <2>1. i \in DOMAIN observed /\ observed[i].key = key /\ observed[i].shape = entry.shape
    BY DEF Seen
  <2>2. PICK d \in Devices \ Astray : \E u, b : SeenAt(observed[i], d, u, b)
    BY <1>3, <2>1
  <2>3. PICK u, b : SeenAt(observed[i], d, u, b)
    BY <2>2
  <2>4. /\ b = bus /\ u \in DOMAIN ClockRowOf(Grid[d]) /\ b \in DOMAIN Grid[d][u].bits
        /\ Grid[target][t].type = Grid[d][u].type
        /\ ClockRowOf(Grid[target])[t][2] = ClockRowOf(Grid[d])[u][2]
    BY <2>1, <2>3 DEF SeenAt, OwnKey
  <2>5. Grid[d][u].bits[bus].shape = entry.shape /\ Grid[d][u].bits[bus].frames = deepest
    BY <1>9, <2>1, <2>3, <2>4 DEF SeenAt
  <2>6. FramesCapped(target, t, d, u, bus)
    BY <1>2, <2>4
  <2> QED
    BY <2>4, <2>5, <2>6 DEF FramesCapped, OwnEntry
<1>12. depth \in Nat /\ entry.frames \in Nat /\ entry.frames <= depth
  BY <1>2 DEF InPart
<1>13. (IF deepest < depth THEN deepest ELSE depth) = entry.frames
  <2> HIDE DEF depth
  <2> QED
    BY <1>10, <1>11, <1>12
<1>14. (IF entry.frames < depth THEN entry.frames ELSE depth) = entry.frames
  <2> HIDE DEF depth
  <2> QED
    BY <1>12
<1>15. AtColumn(row, entry.column, geometry, depth) = AtColumn(row, entry.column, entry, depth)
  <2> HIDE DEF depth, row
  <2> QED
    BY <1>8, <1>13, <1>14 DEF AtColumn
<1> QED
  BY <1>2, <1>8, <1>15 DEF InPart, geometry

\* One column is in reach of the tile, its own.
LEMMA OwnColumn ==
  ASSUME TiesInv, Taught(model), target \notin Astray,
         NEW t, NEW bus, IsBorneOut(t, bus)
  PROVE  Hits(AnchorColumns(Grid[target]), bus, Grid[target][t].type, Grid[target][t].x, model.deltas)
           = {OwnEntry(t, bus).column + 1}
<1> PICK entry, columns : entry = OwnEntry(t, bus) /\ columns = AnchorColumns(Grid[target])
  OBVIOUS
<1> DEFINE x == Grid[target][t].x
           own == entry.column + 1
<1>1. target \in Devices /\ t \in DOMAIN Grid[target]
  BY DEF TiesInv, ClockRowOf, PlacesIn, IsBorneOut
<1>2. x \in Nat /\ bus \in Buses
  BY <1>1, TilegridAssumption DEF IsBorneOut
<1>3. /\ Len(columns[bus]) \in Nat /\ DOMAIN columns[bus] = 1..Len(columns[bus])
      /\ \A i \in 1..Len(columns[bus]) : columns[bus][i] \in Nat
      /\ \A i, j \in 1..Len(columns[bus]) : columns[bus][i] = columns[bus][j] => i = j
  BY <1>1, <1>2, ColumnsDiffer
<1>4. InPart(target, t, bus, entry)
  BY <1>1, LawAssumption DEF IsBorneOut, OwnEntry
<1>5. own \in DOMAIN columns[bus]
  BY <1>3, <1>4 DEF InPart
<1>6. \A v : <<bus, Grid[target][t].type, v>> \in model.deltas <=> v = x - columns[bus][own]
  BY BorneOut DEF OwnDelta
<1> HIDE DEF x, own
<1>7. ASSUME NEW i \in DOMAIN columns[bus]
      PROVE  x - columns[bus][i] = x - columns[bus][own] <=> i = own
  <2>1. columns[bus][i] \in Nat /\ columns[bus][own] \in Nat
    BY <1>3, <1>5
  <2> QED
    BY <1>2, <1>3, <1>5, <2>1
<1>8. Hits(columns, bus, Grid[target][t].type, x, model.deltas) = {own}
  BY <1>5, <1>6, <1>7 DEF Hits
<1> QED
  BY <1>8 DEF x, own

\* What is written for a tile and a bus whose key the family knows.
EntriesThere(all, t, bus) == {x[3] : x \in {y \in all : y[1] = t /\ y[2] = bus}}
Knows(law, grid, places, t, bus) == <<grid[t].type, places[t][2], bus>> \in DOMAIN law.geometry

LEMMA FilledThere ==
  ASSUME NEW grid, NEW part, NEW places, NEW columns, NEW law, NEW fallback,
         NEW t \in DOMAIN places, NEW bus \in Buses, Knows(law, grid, places, t, bus)
  PROVE  EntriesThere(FillAll(grid, part, places, columns, law, fallback), t, bus)
           = Entry(part, grid[t], places[t], bus, columns, law)
<1> DEFINE known(u, b) == Knows(law, grid, places, u, b)
           entries(u, b) == Entry(part, grid[u], places[u], b, columns,
                                  IF known(u, b) THEN law ELSE fallback)
           filled(u, b) == {<<u, b, e, ~ known(u, b)>> : e \in entries(u, b)}
           all == FillAll(grid, part, places, columns, law, fallback)
           there == {y \in all : y[1] = t /\ y[2] = bus}
<1>1. all = UNION {filled(u, b) : u \in DOMAIN places, b \in Buses}
  BY DEF FillAll, Knows
<1>2. entries(t, bus) = Entry(part, grid[t], places[t], bus, columns, law)
  OBVIOUS
<1> HIDE DEF entries, all, known
<1>3. ASSUME NEW x \in there PROVE x[3] \in entries(t, bus)
  <2>1. PICK u \in DOMAIN places, b \in Buses : x \in filled(u, b)
    <3> HIDE DEF filled
    <3> QED
      BY <1>1
  <2>2. PICK e \in entries(u, b) : x = <<u, b, e, ~ known(u, b)>>
    BY <2>1
  <2>3. x[1] = u /\ x[2] = b /\ x[3] = e
    BY <2>2
  <2> QED
    BY <2>2, <2>3
<1>4. ASSUME NEW e \in entries(t, bus) PROVE \E x \in there : x[3] = e
  <2> DEFINE x == <<t, bus, e, ~ known(t, bus)>>
  <2>1. x \in filled(t, bus)
    OBVIOUS
  <2>2. x \in all
    <3> HIDE DEF filled, x
    <3> QED
      BY <1>1, <2>1
  <2> QED
    BY <2>2
<1> HIDE DEF there
<1>5. {x[3] : x \in there} = entries(t, bus)
  BY <1>3, <1>4
<1> QED
  BY <1>2, <1>5 DEF there, all, EntriesThere

\* One hit gives one entry.
InFrames(part, row, bus, column) == <<row[1], row[2], bus, column>> \in DOMAIN part.frames
FramesOf(part, row, bus, column) == part.frames[<<row[1], row[2], bus, column>>]

LEMMA OneEntry ==
  ASSUME NEW part, NEW row, NEW bus, NEW column \in Nat, NEW geometry,
         InFrames(part, row, bus, column)
  PROVE  EntryAt(part, row, bus, {column + 1}, geometry)
           = {AtColumn(row, column, geometry, FramesOf(part, row, bus, column))}
<1> DEFINE hit == column + 1
           at(i) == AtColumn(row, i - 1, geometry, FramesOf(part, row, bus, i - 1))
<1>1. hit - 1 = column
  OBVIOUS
<1>2. Cardinality({hit}) = 1
  BY FS_Singleton
<1>3. EntryAt(part, row, bus, {hit}, geometry)
        = {at(i) : i \in {h \in {hit} : /\ Cardinality({hit}) = 1
                                      /\ InFrames(part, row, bus, h - 1)}}
  BY DEF EntryAt, InFrames, FramesOf
<1>4. InFrames(part, row, bus, hit - 1)
  BY <1>1
<1>5. at(hit) = AtColumn(row, column, geometry, FramesOf(part, row, bus, column))
  BY <1>1
<1> HIDE DEF hit, at
<1>6. EntryAt(part, row, bus, {hit}, geometry) = {at(hit)}
  BY <1>2, <1>3, <1>4
<1> QED
  BY <1>5, <1>6 DEF hit

\* An entry that the references bear out is derived as it is in the target's own
\* tilegrid.
LEMMA EntryRebuilt ==
  ASSUME TiesInv, Taught(model), target \notin Astray, NEW t, NEW bus, IsBorneOut(t, bus),
         NEW law, law.geometry = Resolve(model, elsewhere, prefer), law.deltas = model.deltas
  PROVE  /\ bus \in Buses /\ OwnKey(t, bus) \in DOMAIN law.geometry
         /\ Entry(Part[target], Grid[target][t], ClockRowOf(Grid[target])[t], bus,
                  AnchorColumns(Grid[target]), law) = {OwnEntry(t, bus)}
<1> DEFINE part == Part[target]
           place == ClockRowOf(Grid[target])[t]
           row == RowAt(target, t)
           column == OwnEntry(t, bus).column
           geometry == law.geometry[OwnKey(t, bus)]
           hits == Hits(AnchorColumns(Grid[target]), bus, Grid[target][t].type,
                        Grid[target][t].x, law.deltas)
<1>1. target \in Devices \ Astray /\ t \in DOMAIN ClockRowOf(Grid[target])
  BY DEF TiesInv, IsBorneOut
<1>2. bus \in Buses
  BY <1>1, TilegridAssumption DEF IsBorneOut, ClockRowOf, PlacesIn
<1>3. InPart(target, t, bus, OwnEntry(t, bus))
  BY <1>1, LawAssumption DEF IsBorneOut, OwnEntry
<1>4. /\ column \in Nat
      /\ InFrames(part, row, bus, column)
      /\ DepthAt(target, t, bus) = FramesOf(part, row, bus, column)
  BY <1>3 DEF InPart, CellAt, DepthAt, OwnEntry, InFrames, FramesOf
<1>5. /\ OwnKey(t, bus) \in DOMAIN law.geometry
      /\ AtColumn(row, column, geometry, FramesOf(part, row, bus, column)) = OwnEntry(t, bus)
  BY <1>4, GeometryRebuilds
<1>6. hits = {column + 1}
  BY OwnColumn
<1> HIDE DEF hits, column, geometry, part, row
<1>7. EntryAt(part, row, bus, hits, geometry) = {OwnEntry(t, bus)}
  <2>1. EntryAt(part, row, bus, {column + 1}, geometry)
          = {AtColumn(row, column, geometry, FramesOf(part, row, bus, column))}
    BY <1>4, OneEntry
  <2> QED
    BY <1>5, <1>6, <2>1
<1>8. Entry(part, Grid[target][t], place, bus, AnchorColumns(Grid[target]), law)
        = EntryAt(part, row, bus, hits, geometry)
  <2>1. {<<Grid[target][t].type, place[2], bus>>} \cap DOMAIN law.geometry = {OwnKey(t, bus)}
    BY <1>5 DEF OwnKey
  <2>2. row = PartRows(part)[place[1]]
    BY DEF row, RowAt, part
  <2> HIDE DEF place
  <2> QED
    BY <2>1, <2>2 DEF Entry, hits, geometry
<1> QED
  BY <1>2, <1>5, <1>7, <1>8 DEF part

\* "The law learnt off a device rebuilds that device exactly", and those of its
\* family: whatever references are named and in whatever order they are learnt,
\* an entry that they bear out is derived as it is in the target's own tilegrid.
THEOREM LawAlwaysRebuilds == Spec => []LawRebuilds
<1>1. TiesInv /\ Taught(model) => LawRebuilds
  <2> SUFFICES ASSUME TiesInv, Taught(model), pc = "done", target \notin Astray,
                      NEW t \in DOMAIN ClockRowOf(Grid[target]),
                      NEW bus \in DOMAIN Grid[target][t].bits,
                      AllBearOut(t, bus, ClockRowOf(Grid[target]), AnchorColumns(Grid[target]),
                                 Range(model.references) \ Astray)
               PROVE  {x[3] : x \in {y \in derived : y[1] = t /\ y[2] = bus}}
                        = {Grid[target][t].bits[bus]}
    BY DEF LawRebuilds
  <2> DEFINE law == [geometry |-> resolved, deltas |-> model.deltas]
             places == ClockRowOf(Grid[target])
             columns == AnchorColumns(Grid[target])
  <2>1. IsBorneOut(t, bus)
    BY DEF IsBorneOut
  <2>2. law.geometry = Resolve(model, elsewhere, prefer) /\ law.deltas = model.deltas
    BY DEF TiesInv
  <2>3. PICK fallback : Written(law, fallback)
    BY DEF TiesInv
  <2> HIDE DEF law
  <2>4. derived = FillAll(Grid[target], Part[target], places, columns, law, fallback)
    BY <2>3 DEF Written, Apply
  <2>5. /\ bus \in Buses /\ OwnKey(t, bus) \in DOMAIN law.geometry
        /\ Entry(Part[target], Grid[target][t], places[t], bus, columns, law) = {OwnEntry(t, bus)}
    BY <2>1, <2>2, EntryRebuilt
  <2>6. {x[3] : x \in {y \in derived : y[1] = t /\ y[2] = bus}}
          = Entry(Part[target], Grid[target][t], places[t], bus, columns, law)
    <3>1. PICK grid, part : grid = Grid[target] /\ part = Part[target]
      OBVIOUS
    <3>2. Knows(law, grid, places, t, bus)
      BY <2>5, <3>1 DEF OwnKey, Knows
    <3>3. t \in DOMAIN places /\ bus \in Buses
      BY <2>5
    <3> HIDE DEF places, columns
    <3>4. EntriesThere(FillAll(grid, part, places, columns, law, fallback), t, bus)
            = Entry(part, grid[t], places[t], bus, columns, law)
      BY <3>2, <3>3, FilledThere
    <3>5. derived = FillAll(grid, part, places, columns, law, fallback)
      BY <2>4, <3>1
    <3> QED
      BY <3>1, <3>4, <3>5 DEF EntriesThere
  <2> QED
    BY <2>5, <2>6 DEF OwnEntry
<1> QED
  BY <1>1, TiesAlways, TaughtAlways, PTL

(***************************************************************************)
(* generate_full.py: no pass gives a tile bits that it has not.            *)
(***************************************************************************)
\* What is known of a tile is what the silicon has.
BitsInv ==
  /\ bits = [t \in AllTiles |-> bits[t]]
  /\ \A t \in AllTiles : bits[t] # {} => t \in DOMAIN Silicon /\ bits[t] = {Silicon[t]}

\* A step gives tiles S the bits that they have in the silicon.
Gains(S) ==
  /\ S \subseteq DOMAIN Silicon
  /\ bits' = [t \in AllTiles |-> IF t \in S THEN {Silicon[t]} ELSE bits[t]]

\* The tiles that have bits are tiles of the grid.
LEMMA SiliconTiles == DOMAIN Silicon \subseteq AllTiles
BY FullAssumption

\* Giving tiles the bits of the silicon keeps what is known true.
LEMMA GainsInv == ASSUME BitsInv, NEW S, Gains(S) PROVE BitsInv'
BY SiliconTiles DEF BitsInv, Gains

\* A step that leaves the bits alone gives them to no tile.
LEMMA GainsNothing == ASSUME BitsInv, UNCHANGED bits PROVE Gains({})
BY DEF Gains, BitsInv

\* Shape and bounds of the block of a tile.
LEMMA SiliconBlock ==
  ASSUME NEW t \in DOMAIN Silicon
  PROVE  /\ Silicon[t] = Segment(Silicon[t].base, Silicon[t].frames, Silicon[t].offset, Silicon[t].words)
         /\ Silicon[t].base \in Int \X Int /\ Silicon[t].frames \in Nat
         /\ Silicon[t].offset \in Nat /\ Silicon[t].words \in Nat \ {0}
         /\ Silicon[t].base \in DOMAIN MaxFrames /\ MaxFrames[Silicon[t].base] \in Nat
         /\ Silicon[t].frames <= MaxFrames[Silicon[t].base]
         /\ Silicon[t].offset + Silicon[t].words <= WordCount
BY SiliconAssumption DEF BlockLaw, Segment

\* No assertion fails where the block is that of the silicon.
LEMMA AddsSilicon ==
  ASSUME BitsInv, NEW t \in DOMAIN Silicon, NEW base, NEW frames, NEW offset, NEW words,
         base = Silicon[t].base, offset = Silicon[t].offset, words = Silicon[t].words,
         Smaller(frames, MaxFrames[base]) = Silicon[t].frames,
         AddTileBits(t, Segment(base, frames, offset, words))
  PROVE  Gains({t}) /\ UNCHANGED failed
<1> DEFINE b == Segment(base, frames, offset, words)
<1>1. Capped(b) = Silicon[t]
  <2>1. Capped(b) = Segment(base, Smaller(frames, MaxFrames[base]), offset, words)
    BY DEF Capped, Segment
  <2> QED
    BY <2>1, SiliconBlock
<1>2. b.base = base /\ b.offset = offset /\ b.words = words
  BY DEF Segment
<1>3. bits[t] \subseteq {Capped(b)}
  BY <1>1, SiliconTiles DEF BitsInv
<1> HIDE DEF b
<1>4. Fits(t, b)
  BY <1>2, <1>3, SiliconBlock DEF Fits
<1>5. bits' = [bits EXCEPT ![t] = {Silicon[t]}] /\ UNCHANGED failed
  BY <1>1, <1>4 DEF AddTileBits, b
<1>6. bits' = [u \in AllTiles |-> IF u \in {t} THEN {Silicon[t]} ELSE bits[u]]
  BY <1>5 DEF BitsInv
<1>7. bits' = [u \in AllTiles |-> IF u \in {t} THEN {Silicon[u]} ELSE bits[u]]
  BY <1>6
<1> QED
  BY <1>5, <1>7 DEF Gains

\* Tiles of interfaces are of no other kind.
LEMMA InterfaceApart ==
  ASSUME NEW type \in Interfaces
  PROVE  /\ type \notin Ints /\ type \notin Hclks /\ type \notin HclkNamed /\ type \notin Hrows
         /\ type \notin Iobs /\ type \notin Iois /\ type \notin Sings
         /\ type \notin {"CFG_CENTER_MID", "CLK_BUFG_REBUF"}
BY FullAssumption DEF HclkNamed, IoiNamed

\* Frames and words by type of tile.
LEMMA TypeOfBlock ==
  ASSUME NEW t \in DOMAIN Silicon
  PROVE  /\ Type(t) \in Ints \cup Interfaces =>
              Silicon[t].frames = Smaller(28, MaxFrames[Silicon[t].base]) /\ Silicon[t].words = 2
         /\ Type(t) \in Hclks =>
              Silicon[t].frames = Smaller(26, MaxFrames[Silicon[t].base]) /\ Silicon[t].words = 1
BY SiliconAssumption DEF TypeLaw

\* No two tiles are at one place.
LEMMA OnePlace ==
  ASSUME NEW t \in AllTiles, NEW u \in AllTiles, Tilegrid[t].x = Tilegrid[u].x,
         Tilegrid[t].y = Tilegrid[u].y
  PROVE  t = u
BY FullAssumption

\* The tile beside an INT is one of the other side, with this one beside it.
LEMMA LateralBack ==
  ASSUME NEW t \in AllTiles, Type(t) \in Ints, NEW o \in Lateral(t)
  PROVE  /\ o \in AllTiles /\ Type(o) \in Ints \ {Type(t)}
         /\ t \in Lateral(o)
<1>1. o \in AllTiles /\ Type(o) \in Ints \ {Type(t)}
  BY SiliconAssumption DEF PairLaw, Lateral, TileAt
<1>2. t \in Lateral(o)
  BY <1>1, FullAssumption DEF Lateral, TileAt, Ints
<1> QED
  BY <1>1, <1>2

(***************************************************************************)
(* The passes, step by step.                                               *)
(***************************************************************************)
\* An assertion has failed only for want of a tile that the pass starts from.
FailInv == failed => pass # "add_tdb" /\ \E t \in AllTiles : Indispensable(t) /\ bits[t] = {}

\* The tile that the loop comes to is the first that is not skipped.
LEMMA NextTileWanted ==
  ASSUME NEW t \in NextTile, left \in Seq(AllTiles)
  PROVE  /\ t \in AllTiles /\ Wanted(t) /\ ~ failed /\ walks = <<>> /\ pass \in DOMAIN Following
         /\ \E i \in DOMAIN left : /\ left[i] = t
                                   /\ \A k \in DOMAIN left : Wanted(left[k]) => i <= k
<1>1. Running
  BY DEF NextTile
<1>2. t \in {left[i] : i \in {j \in {k \in DOMAIN left : Wanted(left[k])} :
                               \A k \in {m \in DOMAIN left : Wanted(left[m])} : j <= k}}
  BY <1>1 DEF NextTile
<1>3. PICK i \in DOMAIN left : /\ left[i] = t /\ Wanted(left[i])
                              /\ \A k \in DOMAIN left : Wanted(left[k]) => i <= k
  BY <1>2
<1> QED
  BY <1>1, <1>3 DEF Running

\* LeftRight fails on no device, and what it adds is right.
LEMMA LeftRightStep ==
  ASSUME BitsInv, left \in Seq(AllTiles), NEW t \in NextTile, LeftRight(t)
  PROVE  \E o \in Lateral(t) : Gains({o}) /\ UNCHANGED <<failed, walks, seen, alias, pass>>
<1>1. t \in AllTiles /\ pass = "int_lr"
  BY NextTileWanted DEF LeftRight, Reaches
<1>2. Type(t) \in Ints /\ bits[t] # {}
  BY <1>1, NextTileWanted DEF Wanted
<1>3. t \in DOMAIN Silicon /\ bits[t] = {Silicon[t]}
  BY <1>1, <1>2 DEF BitsInv
<1> DEFINE side == IF Type(t) = "INT_L" THEN 1 ELSE -1
<1>4. PICK o \in Lateral(t), b \in bits[t] :
        IF Type(o) \in Ints \ {Type(t)}
        THEN AddTileBits(o, Segment(<<b.base[1], b.base[2] + side>>,
                                    IntEntry.frames, b.offset, IntEntry.words))
        ELSE failed' = TRUE /\ UNCHANGED bits
  BY DEF LeftRight
<1>5. b = Silicon[t] /\ Type(o) \in Ints \ {Type(t)} /\ o \in DOMAIN Silicon /\ t \in Lateral(o)
  BY <1>1, <1>2, <1>3, LateralBack, SiliconAssumption DEF PairLaw
<1>6. Silicon[o].base = <<b.base[1], b.base[2] + side>> /\ Silicon[o].offset = b.offset
  <2>1. CASE Type(t) = "INT_L"
    BY <1>3, <1>5, <2>1, SiliconAssumption DEF PairLaw
  <2>2. CASE Type(t) = "INT_R"
    <3>1. Type(o) = "INT_L"
      BY <1>5, <2>2 DEF Ints
    <3>2. Silicon[t].base = <<Silicon[o].base[1], Silicon[o].base[2] + 1>>
          /\ Silicon[t].offset = Silicon[o].offset
      BY <1>5, <3>1, SiliconAssumption DEF PairLaw
    <3>3. Silicon[o].base \in Int \X Int
      BY <1>5, SiliconBlock
    <3> QED
      BY <1>5, <2>2, <3>2, <3>3
  <2> QED
    BY <1>2, <2>1, <2>2 DEF Ints
<1>7. Silicon[o].frames = Smaller(28, MaxFrames[Silicon[o].base]) /\ Silicon[o].words = 2
  BY <1>5, TypeOfBlock
<1> HIDE DEF side
<1>8. AddTileBits(o, Segment(<<b.base[1], b.base[2] + side>>, 28, b.offset, 2))
  BY <1>4, <1>5 DEF IntEntry
<1>9. Gains({o}) /\ UNCHANGED failed
  BY <1>5, <1>6, <1>7, <1>8, AddsSilicon
<1> QED
  BY <1>9 DEF LeftRight, Reaches

\* The next tile of a column, which has not ended.
LEMMA ColumnGoesOn ==
  ASSUME NEW t \in DOMAIN Silicon, Type(t) \in FabricTypes, NEW way \in {Up, Down},
         NEW n \in Beyond(t, way, 1), InColumn(t, n)
  PROVE  /\ n \in DOMAIN Silicon /\ Adjoin(t, n) /\ Type(n) \in FabricTypes
         /\ Silicon[n].base = Silicon[t].base
         /\ way = Down => Silicon[n].offset = Silicon[t].offset - Silicon[n].words
         /\ way = Up => Silicon[n].offset = Silicon[t].offset + Silicon[t].words
         /\ Silicon[t].offset # (IF way = Down THEN 0 ELSE LastOffset)
<1>1. n \in DOMAIN Silicon /\ Silicon[n].base = Silicon[t].base /\ Type(n) \in FabricTypes
  BY InterfaceApart DEF InColumn, FabricTypes, Hclks, HclkOf, Ints
<1>2. t \in AllTiles /\ n \in AllTiles
  BY <1>1, SiliconTiles
<1>3. /\ Silicon[t].offset \in Nat /\ Silicon[t].words \in Nat \ {0}
      /\ Silicon[n].offset \in Nat /\ Silicon[n].words \in Nat \ {0}
      /\ Silicon[n].offset + Silicon[n].words <= WordCount
  BY <1>1, SiliconBlock
<1>4. CASE way = Up
  <2>1. Adjoin(t, n) /\ Silicon[n].offset = Silicon[t].offset + Silicon[t].words
    BY <1>4, SiliconAssumption DEF FabricLaw
  <2>2. Silicon[t].words + Silicon[n].words > 2
    <3>1. Type(t) \in Ints \/ Type(n) \in Ints
      BY <2>1 DEF Adjoin
    <3> QED
      BY <1>1, <1>3, <3>1, TypeOfBlock
  <2>3. WordCount \in Nat
    BY SiliconAssumption
  <2> QED
    BY <1>1, <1>3, <1>4, <2>1, <2>2, <2>3 DEF LastOffset, Up, Down
<1>5. CASE way = Down
  <2>1. t \in Beyond(n, Up, 1)
    BY <1>2, <1>5, FullAssumption DEF Beyond, TileAt, Up, Down
  <2>2. InColumn(n, t)
    BY DEF InColumn
  <2>3. Adjoin(t, n) /\ Silicon[t].offset = Silicon[n].offset + Silicon[n].words
    BY <1>1, <2>1, <2>2, SiliconAssumption DEF FabricLaw
  <2> QED
    BY <1>1, <1>3, <1>5, <2>3 DEF Up, Down
<1> QED
  BY <1>4, <1>5

\* What is beyond the end of a column.
LEMMA ColumnEnds ==
  ASSUME NEW t \in DOMAIN Silicon, Type(t) \in FabricTypes, NEW way \in {Up, Down},
         NEW n \in Beyond(t, way, 1), ~ InColumn(t, n)
  PROVE  IF Silicon[t].offset = (IF way = Down THEN 0 ELSE LastOffset)
         THEN Type(n) \in EndsOf[way]
         ELSE way = Down /\ Type(t) \in Hclks /\ Type(n) = "PCIE_NULL"
BY SiliconAssumption DEF FabricLaw

\* The code tells the end of a column by the offset.
LEMMA AtEndIs ==
  ASSUME BitsInv, NEW t \in AllTiles, bits[t] # {}, NEW way
  PROVE  AtEnd(t, way) <=> Silicon[t].offset = (IF way = Down THEN 0 ELSE LastOffset)
BY DEF AtEnd, BitsInv

\* One tile is at a place.
LEMMA OneBeyond ==
  ASSUME NEW t \in AllTiles, NEW way, NEW steps, NEW n \in Beyond(t, way, steps),
         NEW m \in Beyond(t, way, steps)
  PROVE  n = m
BY FullAssumption DEF Beyond, TileAt

\* A step along a column of interconnect goes to a tile of the column, without failing.
LEMMA WalkColumnStep ==
  ASSUME BitsInv, NEW t \in AllTiles, Type(t) \in FabricTypes, bits[t] # {},
         NEW way \in {Up, Down}, WalkColumn(t, way)
  PROVE  \E n \in Beyond(t, way, 1) :
           /\ InColumn(t, n) /\ Gains({n})
           /\ walks' = <<<<n, way>>>> /\ seen' = seen \cup {t}
           /\ UNCHANGED <<failed, alias, pass, left>>
<1>1. t \in DOMAIN Silicon /\ bits[t] = {Silicon[t]}
  BY DEF BitsInv
<1>2. PICK n \in Beyond(t, way, 1), b \in bits[t] :
        /\ Type(t) \in Ints \/ Type(n) \in Ints
        /\ IF Adjoin(t, n)
           THEN AddTileBits(n, Segment(b.base, EntryOf(n).frames, OffsetBeyond(b, t, n, way),
                                       EntryOf(n).words))
           ELSE failed' = TRUE /\ UNCHANGED bits
        /\ walks' = <<<<n, way>>>>
  BY DEF WalkColumn
<1>3. b = Silicon[t] /\ ~ AtEnd(t, way)
  BY <1>1 DEF WalkColumn
<1>4. InColumn(t, n)
  <2> SUFFICES ASSUME ~ InColumn(t, n) PROVE FALSE
    OBVIOUS
  <2>1. Type(t) \in Hclks /\ Type(n) = "PCIE_NULL"
    BY <1>1, <1>3, AtEndIs, ColumnEnds
  <2> QED
    BY <1>2, <2>1 DEF Ints, Hclks, HclkOf
<1>5. /\ n \in DOMAIN Silicon /\ Adjoin(t, n) /\ Type(n) \in FabricTypes
      /\ Silicon[n].base = Silicon[t].base
      /\ way = Down => Silicon[n].offset = Silicon[t].offset - Silicon[n].words
      /\ way = Up => Silicon[n].offset = Silicon[t].offset + Silicon[t].words
  BY <1>1, <1>4, ColumnGoesOn
<1>6. \A u \in DOMAIN Silicon : Type(u) \in FabricTypes =>
        /\ EntryOf(u).words = Silicon[u].words
        /\ Smaller(EntryOf(u).frames, MaxFrames[Silicon[u].base]) = Silicon[u].frames
  BY TypeOfBlock DEF EntryOf, FabricTypes, IntEntry, HclkEntry, Hclks, HclkOf, Ints
<1>7. OffsetBeyond(b, t, n, way) = Silicon[n].offset
  BY <1>1, <1>3, <1>5, <1>6 DEF OffsetBeyond, Up, Down
<1>8. Gains({n}) /\ UNCHANGED failed
  <2>1. AddTileBits(n, Segment(b.base, EntryOf(n).frames, OffsetBeyond(b, t, n, way),
                               EntryOf(n).words))
    BY <1>2, <1>5
  <2> QED
    BY <1>3, <1>5, <1>6, <1>7, <2>1, AddsSilicon
<1> QED
  BY <1>2, <1>4, <1>8 DEF WalkColumn, Walking

\* A walk ends only where the column does, and finds the tile that the assertion expects.
LEMMA EndColumnStep ==
  ASSUME BitsInv, NEW t \in AllTiles, Type(t) \in FabricTypes, bits[t] # {},
         NEW way \in {Up, Down}, EndColumn(t, way)
  PROVE  /\ \A n \in Beyond(t, way, 1) : ~ InColumn(t, n)
         /\ walks' = Turned(t, way) /\ seen' = seen \cup {t} /\ failed' = FALSE
         /\ UNCHANGED <<bits, alias, pass, left>>
<1>1. t \in DOMAIN Silicon
  BY DEF BitsInv
<1>2. ASSUME NEW n \in Beyond(t, way, 1), InColumn(t, n) PROVE FALSE
  <2>1. Adjoin(t, n) /\ Silicon[t].offset # (IF way = Down THEN 0 ELSE LastOffset)
    BY <1>1, <1>2, ColumnGoesOn
  <2>2. Type(t) \in Hclks /\ Type(n) \notin Ints
    BY <1>2, <2>1, AtEndIs DEF EndColumn
  <2> QED
    BY <2>1, <2>2 DEF Adjoin, Ints, Hclks, HclkOf
<1>3. PICK n : n \in Beyond(t, way, 1)
  BY <1>1, SiliconAssumption DEF FabricLaw
<1>4. IF AtEnd(t, way) THEN Type(n) \in EndsOf[way] ELSE way = Down /\ Type(n) = "PCIE_NULL"
  BY <1>1, <1>2, <1>3, ColumnEnds, AtEndIs
<1>5. failed' = FALSE
  BY <1>3, <1>4 DEF EndColumn
<1> QED
  BY <1>2, <1>5 DEF EndColumn, Walking

\* A step along a column of interfaces does so too.
LEMMA WalkInterfaceStep ==
  ASSUME BitsInv, NEW t \in AllTiles, Type(t) \in Interfaces, bits[t] # {},
         NEW way \in {Up, Down}, WalkInterface(t, way)
  PROVE  \E n \in NextInterface(t, way) :
           /\ Type(n[1]) = Type(t) /\ InColumn(t, n[1]) /\ Gains({n[1]})
           /\ walks' = <<<<n[1], way>>>> \o Tail(walks) /\ seen' = seen \cup {t}
           /\ UNCHANGED <<failed, alias, pass, left>>
<1>1. t \in DOMAIN Silicon /\ bits[t] = {Silicon[t]}
  BY DEF BitsInv
<1>2. PICK n \in NextInterface(t, way), b \in bits[t] :
        /\ Type(n[1]) = Type(t)
        /\ AddTileBits(n[1], Segment(b.base, IntEntry.frames, b.offset - way * n[2], IntEntry.words))
        /\ walks' = <<<<n[1], way>>>> \o Tail(walks)
  BY DEF WalkInterface
<1>3. b = Silicon[t]
  BY <1>1, <1>2
<1>4. InColumn(t, n[1]) /\ Silicon[n[1]].offset = Silicon[t].offset - way * n[2]
  BY <1>1, <1>2, SiliconAssumption DEF InterfaceLaw
<1>5. n[1] \in DOMAIN Silicon /\ Silicon[n[1]].base = Silicon[t].base
  BY <1>4 DEF InColumn
<1>6. Silicon[n[1]].frames = Smaller(28, MaxFrames[Silicon[n[1]].base]) /\ Silicon[n[1]].words = 2
  BY <1>2, <1>5, TypeOfBlock
<1>7. Gains({n[1]}) /\ UNCHANGED failed
  <2>1. AddTileBits(n[1], Segment(b.base, 28, b.offset - way * n[2], 2))
    BY <1>2 DEF IntEntry
  <2> QED
    BY <1>3, <1>4, <1>5, <1>6, <2>1, AddsSilicon
<1> QED
  BY <1>2, <1>4, <1>7 DEF WalkInterface, Walking

\* The walk in a column of interfaces ends where the column does.
LEMMA EndInterfaceStep ==
  ASSUME BitsInv, NEW t \in AllTiles, Type(t) \in Interfaces, bits[t] # {},
         NEW way \in {Up, Down}, EndInterface(t, way)
  PROVE  /\ \A u \in DOMAIN Silicon : ~ Further(t, u, way)
         /\ walks' = Tail(walks) /\ seen' = seen \cup {t} /\ failed' = FALSE
         /\ UNCHANGED <<bits, alias, pass, left>>
<1>1. t \in DOMAIN Silicon
  BY DEF BitsInv
<1>2. PICK n : n \in NextInterface(t, way)
  BY <1>1, SiliconAssumption DEF InterfaceLaw
<1>3. Type(n[1]) # Type(t)
  BY <1>2 DEF EndInterface
<1>4. \A u \in DOMAIN Silicon : ~ Further(t, u, way)
  BY <1>1, <1>2, <1>3, SiliconAssumption DEF InterfaceLaw
<1>5. failed' = FALSE
  BY <1>2 DEF EndInterface
<1> QED
  BY <1>4, <1>5 DEF EndInterface, Walking

\* A step that fails keeps what is known, and what it lacks is indispensable.
Lacks == /\ failed' = TRUE /\ UNCHANGED <<bits, pass>>
         /\ \E t \in AllTiles : Indispensable(t) /\ bits[t] = {}

\* Tiles of the columns that are walked along.
Walked == {t \in AllTiles : Type(t) \in Ints \cup Interfaces}

\* A step of the passes after those gives some other tiles their bits, or fails.
LaterStep ==
  /\ UNCHANGED <<pass, walks>>
  /\ \/ UNCHANGED failed /\ \E S : Gains(S) /\ S \cap Walked = {}
     \/ Lacks

\* propagate_rebuf fails only for want of the bits of a clock row.
LEMMA RebufStep ==
  ASSUME BitsInv, left \in Seq(AllTiles), NEW t \in NextTile, Rebuf(t)
  PROVE  LaterStep /\ UNCHANGED alias
<1> DEFINE over == {n \in Beyond(t, Up, 12) : Type(n) = "CLK_BUFG_REBUF"}
           under == {n \in Beyond(t, Down, 13) : Type(n) = "CLK_BUFG_REBUF"}
<1>1. t \in AllTiles /\ pass = "rebuf" /\ Type(t) \in Hrows
  BY NextTileWanted DEF Rebuf, Reaches, Wanted
<1>2. UNCHANGED <<pass, walks>>
  BY DEF Rebuf, Reaches
<1>3. /\ t \in DOMAIN Silicon => Silicon[t].offset = RebufAt.hrow
      /\ \E n \in Beyond(t, Up, 12) :
           /\ Type(n) = "CLK_BUFG_REBUF"
           /\ t \in DOMAIN Silicon => n \in DOMAIN Silicon
                /\ Silicon[n] = [Silicon[t] EXCEPT !.offset = RebufAt.over, !.words = 4]
      /\ \E n \in Beyond(t, Down, 13) :
           /\ Type(n) = "CLK_BUFG_REBUF"
           /\ t \in DOMAIN Silicon => n \in DOMAIN Silicon
                /\ Silicon[n] = [Silicon[t] EXCEPT !.offset = RebufAt.under, !.words = 4]
  BY <1>1, SiliconAssumption DEF RebufLaw
<1>4. over # {} /\ under # {}
  BY <1>3
<1>5. CASE bits[t] = {}
  <2>1. Fail /\ UNCHANGED <<pass, walks>>
    BY <1>2, <1>5 DEF Rebuf
  <2>2. Indispensable(t)
    BY <1>1 DEF Indispensable
  <2> QED
    BY <1>1, <1>5, <2>1, <2>2 DEF LaterStep, Lacks, Fail
<1>6. CASE bits[t] # {}
  <2>1. t \in DOMAIN Silicon /\ bits[t] = {Silicon[t]}
    BY <1>1, <1>6 DEF BitsInv
  <2>2. \E b \in bits[t] : b.offset = RebufAt.hrow
    BY <1>3, <2>1
  <2>3. /\ bits' = [n \in AllTiles |->
               IF n \in over THEN {[b EXCEPT !.offset = RebufAt.over, !.words = 4] : b \in bits[t]}
               ELSE IF n \in under THEN {[b EXCEPT !.offset = RebufAt.under, !.words = 4] : b \in bits[t]}
               ELSE bits[n]]
        /\ UNCHANGED <<alias, failed>>
    BY <1>4, <2>2 DEF Rebuf
  <2>4. \A n \in over : n \in DOMAIN Silicon
          /\ {[b EXCEPT !.offset = RebufAt.over, !.words = 4] : b \in bits[t]} = {Silicon[n]}
    BY <1>1, <1>3, <2>1, OneBeyond
  <2>5. \A n \in under : n \in DOMAIN Silicon
          /\ {[b EXCEPT !.offset = RebufAt.under, !.words = 4] : b \in bits[t]} = {Silicon[n]}
    BY <1>1, <1>3, <2>1, OneBeyond
  <2>6. \A n \in over \cup under : n \in DOMAIN Silicon /\ n \notin Walked
    BY <2>4, <2>5, InterfaceApart DEF Walked, Ints
  <2> HIDE DEF over, under
  <2>7. Gains(over \cup under)
    <3>1. \A n \in AllTiles :
            (IF n \in over THEN {[b EXCEPT !.offset = RebufAt.over, !.words = 4] : b \in bits[t]}
             ELSE IF n \in under THEN {[b EXCEPT !.offset = RebufAt.under, !.words = 4] : b \in bits[t]}
             ELSE bits[n])
            = (IF n \in over \cup under THEN {Silicon[n]} ELSE bits[n])
      BY <2>4, <2>5
    <3>2. bits' = [n \in AllTiles |-> IF n \in over \cup under THEN {Silicon[n]} ELSE bits[n]]
      BY <2>3, <3>1
    <3> QED
      BY <2>6, <3>2 DEF Gains
  <2>8. (over \cup under) \cap Walked = {}
    BY <2>6
  <2> QED
    BY <1>2, <2>3, <2>7, <2>8, Zenon DEF LaterStep
<1> QED
  BY <1>5, <1>6

\* propagate_IOI_Y9 fails only for want of those of the tile above.
LEMMA Y9Step ==
  ASSUME BitsInv, left \in Seq(AllTiles), NEW t \in NextTile, IoiY9(t)
  PROVE  LaterStep /\ UNCHANGED alias
<1> DEFINE known == UNION {bits[s] : s \in SameAbove(t)}
<1>1. t \in AllTiles /\ pass = "ioi_y9" /\ t \in Y9Tiles
  BY NextTileWanted DEF IoiY9, Reaches, Wanted
<1>2. UNCHANGED <<pass, walks>>
  BY DEF IoiY9, Reaches
<1>3. SameAbove(t) \subseteq AllTiles
  BY DEF SameAbove, Nearest
<1>4. /\ Type(t) \notin FabricTypes \cup Interfaces /\ SameAbove(t) # {}
      /\ \A s \in SameAbove(t) : s \in DOMAIN Silicon =>
           t \in DOMAIN Silicon /\ Silicon[t] = [Silicon[s] EXCEPT !.words = 4, !.offset = Y9Offset]
  BY <1>1, SiliconAssumption DEF Y9Law
<1>5. CASE known = {}
  <2>1. Fail
    BY <1>5 DEF IoiY9
  <2>2. PICK s \in SameAbove(t) : Indispensable(s)
    BY <1>1, <1>4 DEF Indispensable
  <2>3. bits[s] = {}
    BY <1>5
  <2> QED
    BY <1>2, <1>3, <2>1, <2>2, <2>3 DEF LaterStep, Lacks, Fail
<1>6. CASE known # {}
  <2>1. /\ bits' = [bits EXCEPT ![t] = {[b EXCEPT !.words = 4, !.offset = Y9Offset] : b \in known}]
        /\ UNCHANGED <<alias, failed>>
    BY <1>6 DEF IoiY9
  <2>2. \A b \in known : t \in DOMAIN Silicon /\ [b EXCEPT !.words = 4, !.offset = Y9Offset] = Silicon[t]
    <3> SUFFICES ASSUME NEW b \in known
                 PROVE  t \in DOMAIN Silicon /\ [b EXCEPT !.words = 4, !.offset = Y9Offset] = Silicon[t]
      OBVIOUS
    <3>2. PICK s \in SameAbove(t) : b \in bits[s]
      OBVIOUS
    <3>1. s \in DOMAIN Silicon /\ b = Silicon[s]
      BY <1>3, <3>2 DEF BitsInv
    <3> QED
      BY <1>4, <3>1, <3>2
  <2> HIDE DEF known
  <2>3. t \in DOMAIN Silicon /\ {[b EXCEPT !.words = 4, !.offset = Y9Offset] : b \in known} = {Silicon[t]}
    BY <1>6, <2>2
  <2>4. bits' = [n \in AllTiles |-> IF n \in {t} THEN {Silicon[n]} ELSE bits[n]]
    BY <2>1, <2>3 DEF BitsInv
  <2>5. Gains({t})
    BY <2>3, <2>4 DEF Gains
  <2>6. {t} \cap Walked = {}
    BY <1>4 DEF Walked, FabricTypes
  <2> QED
    BY <1>2, <2>1, <2>5, <2>6, Zenon DEF LaterStep
<1> QED
  BY <1>5, <1>6

\* propagate_CFG_CENTER_MID never fails.
LEMMA CfgStep ==
  ASSUME BitsInv, left \in Seq(AllTiles), NEW t \in NextTile, CfgCenterMid(t)
  PROVE  LaterStep /\ UNCHANGED alias
<1> DEFINE known == UNION {bits[i] : i \in FirstIntRight(t)}
<1>1. t \in AllTiles /\ pass = "cfg" /\ Type(t) = "CFG_CENTER_MID"
  BY NextTileWanted DEF CfgCenterMid, Reaches, Wanted
<1>2. UNCHANGED <<pass, walks, alias>>
  BY DEF CfgCenterMid, Reaches
<1>3. CASE known = {}
  BY <1>2, <1>3, GainsNothing DEF CfgCenterMid, LaterStep
<1>4. CASE known # {}
  <2>1. PICK b \in known : AddTileBits(t, Segment(b.base, MaxFrames[b.base], 0, WordCount))
    BY <1>4 DEF CfgCenterMid
  <2>2. PICK i \in FirstIntRight(t) : b \in bits[i]
    OBVIOUS
  <2>3. i \in DOMAIN Silicon /\ b = Silicon[i]
    BY <2>2 DEF FirstIntRight, BitsInv
  <2>4. t \in DOMAIN Silicon /\ Silicon[t] = Segment(b.base, MaxFrames[b.base], 0, WordCount)
    BY <1>1, <2>2, <2>3, SiliconAssumption DEF CfgLaw
  <2>5. Smaller(MaxFrames[b.base], MaxFrames[b.base]) = Silicon[t].frames
    BY <2>4 DEF Smaller, Segment
  <2>6. Silicon[t].base = b.base /\ Silicon[t].offset = 0 /\ Silicon[t].words = WordCount
    BY <2>4 DEF Segment
  <2>7. Gains({t}) /\ UNCHANGED failed
    BY <2>1, <2>4, <2>5, <2>6, AddsSilicon
  <2>8. {t} \cap Walked = {}
    BY <1>1, InterfaceApart DEF Walked, Ints
  <2> QED
    BY <1>2, <2>7, <2>8, Zenon DEF LaterStep
<1> QED
  BY <1>3, <1>4

\* With an alias that begins with word start, a tile sees the words that it has.
Home(t, start) ==
  \A w \in 0..3 :
    /\ w \in DOMAIN Lent[t] <=> w - start \in 0..(Silicon[t].words - 1)
    /\ w \in DOMAIN Lent[t] => Lent[t][w] = Silicon[t].offset - start + w

AliasTyped == alias = [t \in AllTiles |-> alias[t]]

\* A step gives some of the tiles S an alias.
Lends(S) ==
  /\ AliasTyped'
  /\ \A t \in AllTiles : \/ alias'[t] = alias[t]
                         \/ t \in S /\ \E a : alias'[t] = {a} /\ Home(t, a.start_offset)

LendingStep ==
  /\ UNCHANGED <<pass, walks>>
  /\ \/ UNCHANGED failed /\ \E S : Gains(S) /\ S \cap Walked = {} /\ Lends(S)
     \/ Lacks /\ UNCHANGED alias

\* Steps of these passes that write no alias.
LEMMA LaterLends == ASSUME AliasTyped, LaterStep, UNCHANGED alias PROVE LendingStep
<1>1. \A S : Lends(S)
  BY DEF Lends, AliasTyped
<1> QED
  BY <1>1 DEF LaterStep, LendingStep

\* One column of IOBs or IOIs: the halves get words and aliases of their own, or the
\* pass fails for want of the bits of the tile above the bottom half.
LEMMA HalveStep ==
  ASSUME BitsInv, AliasTyped, left \in Seq(AllTiles), NEW t \in NextTile, NEW p, NEW compared,
         NEW full, HalfLaw(full), Type(t) \in full, full \cap (Ints \cup Interfaces) = {},
         \A u \in AllTiles :
           (pass = p /\ Type(u) \in full /\ \E n \in Beyond(u, Down, 1) : Type(n) \in Sings)
             => Indispensable(u),
         Halve(p, t, compared)
  PROVE  LendingStep
<1>1. t \in AllTiles /\ pass = p
  BY NextTileWanted DEF Halve, Reaches
<1>2. UNCHANGED <<pass, walks>>
  BY DEF Halve, Reaches
<1>3. ASSUME NEW bottom \in Nearest(SingsBeyond(t, Down), t),
             NEW top \in Nearest(SingsBeyond(bottom, Up), bottom),
             NEW last \in Beyond(bottom, Up, 1), NEW b \in bits[last],
             IF \A u \in Between(top, bottom) \ {top, bottom} :
                  Type(u) \in compared => \A c \in bits[u] : Agree(b, c)
             THEN /\ bits' = [bits EXCEPT ![top] = {[b EXCEPT !.words = 2, !.offset = LastOffset]},
                                          ![bottom] = {[b EXCEPT !.words = 2, !.offset = 0]}]
                  /\ alias' = [alias EXCEPT ![top] = {[type |-> Type(last), start_offset |-> TopStart]},
                                            ![bottom] = {[type |-> Type(last), start_offset |-> BottomStart]}]
                  /\ UNCHANGED failed
             ELSE Fail
      PROVE  UNCHANGED failed /\ \E S : Gains(S) /\ S \cap Walked = {} /\ Lends(S)
  <2>1. /\ top \in AllTiles /\ bottom \in AllTiles /\ last \in AllTiles /\ top # bottom
        /\ Type(top) \in Sings /\ Type(bottom) \in Sings
    BY FullAssumption DEF Nearest, SingsBeyond, Beyond, TileAt, Up
  <2>2. last \in DOMAIN Silicon /\ b = Silicon[last]
    BY <2>1 DEF BitsInv
  <2>3. /\ {top, bottom} \subseteq DOMAIN Silicon
        /\ Silicon[top] = [Silicon[last] EXCEPT !.words = 2, !.offset = LastOffset]
        /\ Silicon[bottom] = [Silicon[last] EXCEPT !.words = 2, !.offset = 0]
        /\ \A u \in DOMAIN Silicon \cap (Between(top, bottom) \ {top, bottom}) :
             Agree(Silicon[last], Silicon[u])
        /\ Lent[top] = [w \in {0, 1} |-> LastOffset + w]
        /\ Lent[bottom] = [w \in {2, 3} |-> w - 2]
    BY <1>1, <2>2 DEF HalfLaw
  <2>4. \A u \in Between(top, bottom) \ {top, bottom} : \A c \in bits[u] : Agree(b, c)
    BY <2>2, <2>3 DEF BitsInv, Between
  <2>5. /\ bits' = [bits EXCEPT ![top] = {Silicon[top]}, ![bottom] = {Silicon[bottom]}]
        /\ alias' = [alias EXCEPT ![top] = {[type |-> Type(last), start_offset |-> TopStart]},
                                  ![bottom] = {[type |-> Type(last), start_offset |-> BottomStart]}]
        /\ UNCHANGED failed
    BY <1>3, <2>2, <2>3, <2>4
  <2>6. Gains({top, bottom})
    <3>1. bits' = [n \in AllTiles |-> IF n \in {top, bottom} THEN {Silicon[n]} ELSE bits[n]]
      BY <2>1, <2>5 DEF BitsInv
    <3> QED
      BY <2>3, <3>1 DEF Gains
  <2>7. {top, bottom} \cap Walked = {}
    <3>1. Sings \cap Ints = {} /\ Sings \cap Interfaces = {}
      BY InterfaceApart DEF Sings, IobSings, Ints
    <3> QED
      BY <2>1, <3>1 DEF Walked
  <2>8. Silicon[top].words = 2 /\ Silicon[top].offset = LastOffset
        /\ Silicon[bottom].words = 2 /\ Silicon[bottom].offset = 0
    <3>1. Silicon[last] = Segment(Silicon[last].base, Silicon[last].frames, Silicon[last].offset,
                                  Silicon[last].words)
      BY <2>2, SiliconBlock
    <3> QED
      BY <2>3, <3>1 DEF Segment
  <2>9. LastOffset \in Int
    BY SiliconAssumption DEF LastOffset
  <2>10. Home(top, TopStart)
    BY <2>3, <2>8, <2>9 DEF Home, TopStart
  <2>11. Home(bottom, BottomStart)
    BY <2>3, <2>8 DEF Home, BottomStart
  <2>12. Lends({top, bottom})
    <3>1. alias' = [n \in AllTiles |->
             IF n = bottom THEN {[type |-> Type(last), start_offset |-> BottomStart]}
             ELSE IF n = top THEN {[type |-> Type(last), start_offset |-> TopStart]} ELSE alias[n]]
      BY <2>1, <2>5 DEF AliasTyped
    <3>2. [type |-> Type(last), start_offset |-> BottomStart].start_offset = BottomStart
          /\ [type |-> Type(last), start_offset |-> TopStart].start_offset = TopStart
      OBVIOUS
    <3>3. AliasTyped'
      BY <3>1 DEF AliasTyped
    <3> QED
      BY <2>10, <2>11, <3>1, <3>2, <3>3 DEF Lends
  <2> QED
    BY <2>5, <2>6, <2>7, <2>12
<1>4. ASSUME \A bottom \in Nearest(SingsBeyond(t, Down), t) :
               SingsBeyond(bottom, Up) = {} \/ \A last \in Beyond(bottom, Up, 1) : bits[last] = {},
             Fail
      PROVE  Lacks /\ UNCHANGED alias
  <2>1. PICK bottom \in Nearest(SingsBeyond(t, Down), t) :
          SingsBeyond(bottom, Up) # {} /\ \E last \in Beyond(bottom, Up, 1) : Type(last) \in full
    BY <1>1 DEF HalfLaw
  <2>2. PICK last \in Beyond(bottom, Up, 1) : Type(last) \in full
    BY <2>1
  <2>3. bottom \in AllTiles /\ Type(bottom) \in Sings /\ last \in AllTiles
    BY DEF Nearest, SingsBeyond, Beyond, TileAt
  <2>4. bottom \in Beyond(last, Down, 1)
    BY <2>3, FullAssumption DEF Beyond, TileAt, Up, Down
  <2>5. bits[last] = {}
    BY <1>4, <2>1
  <2>6. Indispensable(last)
    BY <1>1, <2>2, <2>3, <2>4
  <2> QED
    BY <1>2, <1>4, <2>3, <2>5, <2>6 DEF Lacks, Fail
<1> QED
  BY <1>2, <1>3, <1>4 DEF Halve, LendingStep

\* The two passes that halve.
LEMMA HalvesStep ==
  ASSUME BitsInv, AliasTyped, left \in Seq(AllTiles), NEW t \in NextTile, HalveIob(t) \/ HalveIoi(t)
  PROVE  LendingStep
<1>1. CASE HalveIob(t)
  <2>1. pass = "iob_sing" /\ Type(t) \in Iobs
    BY <1>1, NextTileWanted DEF HalveIob, Halve, Reaches, Wanted
  <2>2. HalfLaw(Iobs) /\ Iobs \cap (Ints \cup Interfaces) = {}
    BY SiliconAssumption, InterfaceApart DEF Iobs, Ints
  <2>3. \A u \in AllTiles :
          (pass = "iob_sing" /\ Type(u) \in Iobs /\ \E n \in Beyond(u, Down, 1) : Type(n) \in Sings)
            => Indispensable(u)
    BY DEF Indispensable
  <2> QED
    BY <1>1, <2>1, <2>2, <2>3, HalveStep DEF HalveIob
<1>2. CASE HalveIoi(t)
  <2>1. pass = "ioi_sing" /\ Type(t) \in Iois
    BY <1>2, NextTileWanted DEF HalveIoi, Halve, Reaches, Wanted
  <2>2. HalfLaw(Iois) /\ Iois \cap (Ints \cup Interfaces) = {}
    BY SiliconAssumption, InterfaceApart DEF Iois, Ints
  <2>3. \A u \in AllTiles :
          (pass = "ioi_sing" /\ Type(u) \in Iois /\ \E n \in Beyond(u, Down, 1) : Type(n) \in Sings)
            => Indispensable(u)
    BY DEF Indispensable
  <2> QED
    BY <1>2, <2>1, <2>2, <2>3, HalveStep DEF HalveIoi
<1> QED
  BY <1>1, <1>2

\* alias_HCLKs fails only for want of the bits of the tile.
LEMMA AliasStep ==
  ASSUME BitsInv, AliasTyped, left \in Seq(AllTiles), NEW t \in NextTile, AliasHclk(t)
  PROVE  LendingStep
<1>1. t \in AllTiles /\ pass = "hclk_alias" /\ Wanted(t)
  BY NextTileWanted DEF AliasHclk, Reaches
<1>2. UNCHANGED <<pass, walks>>
  BY DEF AliasHclk, Reaches
<1>3. Type(t) \in {"HCLK_L_BOT_UTURN", "HCLK_R_BOT_UTURN"}
  BY <1>1 DEF Wanted
<1>4. CASE bits[t] = {}
  <2>1. Fail
    BY <1>4 DEF AliasHclk
  <2>2. Indispensable(t)
    BY <1>1 DEF Indispensable
  <2> QED
    BY <1>1, <1>2, <1>4, <2>1, <2>2 DEF LendingStep, Lacks, Fail
<1>5. CASE bits[t] # {}
  <2>1. t \in DOMAIN Silicon /\ bits[t] = {Silicon[t]}
    BY <1>1, <1>5 DEF BitsInv
  <2>2. PICK type : alias' = [alias EXCEPT ![t] = {[type |-> type, start_offset |-> 0]}]
    BY <1>5 DEF AliasHclk
  <2>3. UNCHANGED <<bits, failed>>
    BY <1>5 DEF AliasHclk
  <2>4. Gains({t})
    BY <2>1, <2>3 DEF Gains, BitsInv
  <2>5. Silicon[t].words = 1 /\ Silicon[t].offset \in Nat
    BY <1>3, <2>1, TypeOfBlock, SiliconBlock DEF Hclks, HclkOf
  <2>6. Lent[t] = [w \in {0} |-> Silicon[t].offset]
    BY <1>3, <2>1, SiliconAssumption DEF HclkLaw
  <2>7. Home(t, 0)
    BY <2>5, <2>6 DEF Home
  <2>8. Lends({t})
    <3>1. alias' = [n \in AllTiles |-> IF n = t THEN {[type |-> type, start_offset |-> 0]} ELSE alias[n]]
      BY <1>1, <2>2 DEF AliasTyped
    <3>2. [type |-> type, start_offset |-> 0].start_offset = 0
      OBVIOUS
    <3>3. AliasTyped'
      BY <3>1 DEF AliasTyped
    <3> QED
      BY <2>7, <3>1, <3>2, <3>3 DEF Lends
  <2>9. {t} \cap Walked = {}
    <3>1. Type(t) \in Hclks /\ Type(t) \notin Ints
      BY <1>3 DEF Hclks, HclkOf, Ints
    <3> QED
      BY <3>1, InterfaceApart DEF Walked
  <2> QED
    BY <1>2, <2>3, <2>4, <2>8, <2>9, Zenon DEF LendingStep
<1> QED
  BY <1>4, <1>5

(***************************************************************************)
(* The loop of a pass.                                                     *)
(***************************************************************************)
\* A pass has yet to come to tile t.
Pending(t) == \E i \in DOMAIN left : left[i] = t

\* Each tile is left once; walks are of the two passes that walk.
TidyInv ==
  /\ left \in Seq(AllTiles) /\ \A i, j \in DOMAIN left : left[i] = left[j] => i = j
  /\ pass \in DOMAIN Following \cup {"add_tdb", "done"}
  /\ pass = "add_tdb" => bits = [t \in AllTiles |-> {}] /\ walks = <<>>
  /\ walks # <<>> => pass \in {"int_column", "interface"}

\* The loop skips no tile that is wanted.
LEMMA ReachesOn ==
  ASSUME TidyInv, NEW t \in NextTile, NEW p, Reaches(p, t)
  PROVE  /\ left' \in Seq(AllTiles) /\ \A i, j \in DOMAIN left' : left'[i] = left'[j] => i = j
         /\ \A u \in AllTiles : Pending(u) => u = t \/ ~ Wanted(u) \/ Pending(u)'
<1>1. PICK i \in DOMAIN left : left[i] = t /\ left' = SubSeq(left, i + 1, Len(left))
  BY DEF Reaches
<1>2. \A k \in DOMAIN left : Wanted(left[k]) => i <= k
  BY <1>1, NextTileWanted DEF TidyInv
<1>3. left \in Seq(AllTiles) /\ Len(left) \in Nat /\ DOMAIN left = 1..Len(left)
  BY DEF TidyInv
<1>4. /\ left' \in Seq(AllTiles) /\ DOMAIN left' = 1..(Len(left) - i)
      /\ \A k \in 1..(Len(left) - i) : left'[k] = left[k + i]
  BY <1>1, <1>3
<1>5. \A j, k \in DOMAIN left' : left'[j] = left'[k] => j = k
  <2> SUFFICES ASSUME NEW j \in DOMAIN left', NEW k \in DOMAIN left', left'[j] = left'[k]
               PROVE  j = k
    OBVIOUS
  <2>1. j + i \in DOMAIN left /\ k + i \in DOMAIN left /\ left[j + i] = left[k + i]
    BY <1>3, <1>4
  <2>2. j + i = k + i
    BY <2>1 DEF TidyInv
  <2> QED
    BY <1>3, <1>4, <2>2
<1>6. ASSUME NEW u \in AllTiles, Pending(u), u # t, Wanted(u) PROVE Pending(u)'
  <2>1. PICK k \in DOMAIN left : left[k] = u
    BY <1>6 DEF Pending
  <2>2. i < k
    BY <1>1, <1>2, <1>3, <1>6, <2>1
  <2>3. k - i \in DOMAIN left' /\ left'[k - i] = u
    BY <1>3, <1>4, <2>1, <2>2
  <2> QED
    BY <2>3 DEF Pending
<1> QED
  BY <1>4, <1>5, <1>6

\* A pass ends when it has come to all that it wants.
LEMMA NoneLeft ==
  ASSUME TidyInv, Running, NextTile = {}, NEW u \in AllTiles, Wanted(u)
  PROVE  ~ Pending(u)
<1> SUFFICES ASSUME Pending(u) PROVE FALSE
  OBVIOUS
<1> DEFINE wanted == {i \in DOMAIN left : Wanted(left[i])}
<1>1. wanted # {}
  BY DEF Pending
<1>2. wanted \subseteq Nat
  BY DEF TidyInv
<1>3. PICK i \in wanted : \A k \in wanted : i <= k
  BY <1>1, <1>2, LeastExists
<1>4. left[i] \in NextTile
  BY <1>3 DEF NextTile
<1> QED
  BY <1>4

(***************************************************************************)
(* Walks along a column.                                                   *)
(***************************************************************************)
\* To be in one column is an equivalence.
LEMMA ColumnSame == ASSUME NEW t \in DOMAIN Silicon, Type(t) \in FabricTypes \cup Interfaces
                    PROVE  InColumn(t, t)
BY DEF InColumn

LEMMA ColumnBack == ASSUME NEW t, NEW u, InColumn(t, u) PROVE InColumn(u, t)
BY DEF InColumn

LEMMA ColumnOn == ASSUME NEW t, NEW u, NEW v, InColumn(t, u), InColumn(u, v) PROVE InColumn(t, v)
BY InterfaceApart DEF InColumn, FabricTypes, Ints, Hclks, HclkOf

\* A column is upright.
LEMMA ColumnUpright ==
  ASSUME NEW t, NEW u, InColumn(t, u)
  PROVE  /\ t \in AllTiles /\ u \in AllTiles /\ Tilegrid[t].x = Tilegrid[u].x
         /\ Tilegrid[t].y \in Nat /\ Tilegrid[u].y \in Nat
<1>1. t \in DOMAIN Silicon /\ u \in DOMAIN Silicon
  BY DEF InColumn
<1>2. Tilegrid[t].x = Tilegrid[u].x
  <2>1. CASE Type(t) \in FabricTypes
    BY <1>1, <2>1, SiliconAssumption DEF FabricLaw
  <2>2. CASE Type(t) \in Interfaces
    BY <1>1, <2>2, SiliconAssumption DEF InterfaceLaw, Up, Down
  <2> QED
    BY <2>1, <2>2 DEF InColumn
<1> QED
  BY <1>1, <1>2, SiliconTiles, FullAssumption
\* Bits are gained, never lost.
LEMMA GainsKeep ==
  ASSUME BitsInv, NEW S, Gains(S)
  PROVE  /\ \A t \in AllTiles : bits[t] # {} => bits'[t] # {}
         /\ \A t \in S : t \in AllTiles /\ bits'[t] = {Silicon[t]}
         /\ \A t \in AllTiles \ S : bits'[t] = bits[t]
BY SiliconTiles DEF Gains, BitsInv

\* Every tile of the column of t has its bits.
Complete(t) == \A u \in DOMAIN Silicon : InColumn(t, u) => bits[u] # {}

\* Those on one side of w have them.
Behind(w, way) == \A u \in DOMAIN Silicon : Further(w, u, way) => bits[u] # {}

\* Those from w down to s have them.
Spanned(w, s) ==
  \A u \in DOMAIN Silicon :
    InColumn(w, u) /\ Tilegrid[u].y >= Tilegrid[w].y /\ Tilegrid[u].y <= Tilegrid[s].y => bits[u] # {}

\* A walk in a column of interconnect begins with a tile that the pass started from.
ColumnWalk(w, way) ==
  /\ walks = <<<<w, way>>>> /\ Type(w) \in FabricTypes /\ bits[w] # {}
  /\ way = Up => Behind(w, Down)
  /\ \E t \in AllTiles : Type(t) \in Ints /\ bits[t] # {} /\ InColumn(w, t)

\* A walk down a column of interfaces is at s, and w is where it goes up from.
DownWalk(s, w) ==
  /\ walks = <<<<s, Down>>, <<w, Up>>>> /\ Type(w) \in Interfaces /\ bits[s] # {} /\ bits[w] # {}
  /\ InColumn(s, w) /\ Spanned(w, s)

\* A walk up is at w.
UpWalk(w) == walks = <<<<w, Up>>>> /\ Type(w) \in Interfaces /\ bits[w] # {} /\ Behind(w, Down)

WalkInv ==
  \/ walks = <<>>
  \/ pass = "int_column" /\ \E w \in AllTiles, way \in {Up, Down} : ColumnWalk(w, way)
  \/ pass = "interface" /\ \E w \in AllTiles : UpWalk(w) \/ \E s \in AllTiles : DownWalk(s, w)

\* A complete column stays complete.
LEMMA CompleteKeeps ==
  ASSUME BitsInv, NEW S, Gains(S), NEW t, Complete(t) PROVE Complete(t)'
BY GainsKeep, SiliconTiles DEF Complete

\* Nothing of the column is on the other side either.
LEMMA BothWays ==
  ASSUME NEW w \in AllTiles, bits[w] # {}, Behind(w, Down),
         \A u \in DOMAIN Silicon : ~ Further(w, u, Up)
  PROVE  Complete(w)
<1> SUFFICES ASSUME NEW u \in DOMAIN Silicon, InColumn(w, u) PROVE bits[u] # {}
  BY DEF Complete
<1>1. u \in AllTiles /\ Tilegrid[w].x = Tilegrid[u].x /\ Tilegrid[w].y \in Nat /\ Tilegrid[u].y \in Nat
  BY ColumnUpright
<1>2. CASE Tilegrid[u].y = Tilegrid[w].y
  BY <1>1, <1>2, OnePlace
<1>3. CASE Tilegrid[u].y > Tilegrid[w].y
  BY <1>1, <1>3 DEF Behind, Further, Down
<1>4. CASE Tilegrid[u].y < Tilegrid[w].y
  BY <1>1, <1>4 DEF Further, Up
<1> QED
  BY <1>1, <1>2, <1>3, <1>4

\* A step up leaves nothing of the column out.
LEMMA BehindUp ==
  ASSUME BitsInv, NEW w \in AllTiles, bits[w] # {}, Behind(w, Down), NEW n, InColumn(w, n), Gains({n}),
         NEW k \in {1, 2}, Tilegrid[n].y = Tilegrid[w].y - k,
         k = 2 => \A u \in DOMAIN Silicon : InColumn(w, u) => Tilegrid[u].y # Tilegrid[w].y - 1
  PROVE  Behind(n, Down)'
<1> SUFFICES ASSUME NEW u \in DOMAIN Silicon, Further(n, u, Down) PROVE bits'[u] # {}
  BY DEF Behind
<1>1. InColumn(n, u) /\ Tilegrid[u].y > Tilegrid[n].y
  BY ColumnUpright DEF Further, Down
<1>2. InColumn(w, u)
  BY <1>1, ColumnOn
<1>3. u \in AllTiles /\ Tilegrid[w].x = Tilegrid[u].x /\ Tilegrid[w].y \in Nat /\ Tilegrid[u].y \in Nat
  BY <1>2, ColumnUpright
<1>4. Tilegrid[u].y >= Tilegrid[w].y
  BY <1>1, <1>2, <1>3
<1>5. CASE Tilegrid[u].y = Tilegrid[w].y
  BY <1>3, <1>5, OnePlace, GainsKeep
<1>6. CASE Tilegrid[u].y > Tilegrid[w].y
  <2>1. Further(w, u, Down)
    BY <1>2, <1>3, <1>6 DEF Further, Down
  <2> QED
    BY <1>3, <2>1, GainsKeep DEF Behind
<1> QED
  BY <1>3, <1>4, <1>5, <1>6

\* A walk along a column of interconnect stays one.
LEMMA ColumnWalkKeeps ==
  ASSUME BitsInv, NEW w \in AllTiles, NEW way \in {Up, Down}, ColumnWalk(w, way), WalkColumn(w, way)
  PROVE  \E n \in AllTiles : /\ ColumnWalk(n, way)' /\ InColumn(w, n) /\ Gains({n})
                             /\ seen' = seen \cup {w} /\ UNCHANGED <<failed, alias, pass, left>>
<1>1. Type(w) \in FabricTypes /\ bits[w] # {}
  BY DEF ColumnWalk
<1>2. PICK n \in Beyond(w, way, 1) :
        /\ InColumn(w, n) /\ Gains({n})
        /\ walks' = <<<<n, way>>>> /\ seen' = seen \cup {w}
        /\ UNCHANGED <<failed, alias, pass, left>>
  BY <1>1, WalkColumnStep
<1>3. w \in DOMAIN Silicon /\ n \in DOMAIN Silicon /\ n \in AllTiles /\ Type(n) \in FabricTypes
  BY <1>1, <1>2, SiliconTiles, InterfaceApart DEF InColumn, FabricTypes, Ints, Hclks, HclkOf
<1>4. bits'[n] # {}
  BY <1>2, GainsKeep
<1>5. PICK t \in AllTiles : Type(t) \in Ints /\ bits[t] # {} /\ InColumn(w, t)
  BY DEF ColumnWalk
<1>6. bits'[t] # {} /\ InColumn(n, t)
  BY <1>2, <1>5, GainsKeep, ColumnBack, ColumnOn
<1>7. way = Up => Behind(n, Down)'
  <2> SUFFICES ASSUME way = Up PROVE Behind(n, Down)'
    OBVIOUS
  <2>1. Tilegrid[n].y = Tilegrid[w].y - 1
    BY <1>2, <1>3, FullAssumption DEF Beyond, TileAt, Up
  <2>2. Behind(w, Down)
    BY DEF ColumnWalk
  <2> QED
    BY <1>1, <1>2, <2>1, <2>2, BehindUp
<1>8. ColumnWalk(n, way)'
  BY <1>2, <1>3, <1>4, <1>5, <1>6, <1>7 DEF ColumnWalk
<1> QED
  BY <1>2, <1>3, <1>8

\* At its lower end it turns, at the upper one the column is complete.
LEMMA ColumnWalkEnds ==
  ASSUME BitsInv, NEW w \in AllTiles, NEW way \in {Up, Down}, ColumnWalk(w, way), EndColumn(w, way)
  PROVE  /\ failed' = FALSE /\ seen' = seen \cup {w} /\ UNCHANGED <<bits, alias, pass, left>>
         /\ way = Down => ColumnWalk(w, Up)'
         /\ way = Up => walks' = <<>> /\ Complete(w)
<1>1. Type(w) \in FabricTypes /\ bits[w] # {} /\ w \in DOMAIN Silicon
  BY DEF ColumnWalk, BitsInv
<1>2. /\ \A n \in Beyond(w, way, 1) : ~ InColumn(w, n)
      /\ walks' = Turned(w, way) /\ seen' = seen \cup {w} /\ failed' = FALSE
      /\ UNCHANGED <<bits, alias, pass, left>>
  BY <1>1, EndColumnStep
<1>3. \A u \in DOMAIN Silicon : ~ Further(w, u, way)
  BY <1>1, <1>2, SiliconAssumption DEF FabricLaw
<1>4. ASSUME way = Down PROVE ColumnWalk(w, Up)'
  <2>1. walks' = <<<<w, Up>>>>
    BY <1>2, <1>4 DEF Turned
  <2>2. Behind(w, Down)'
    BY <1>3, <1>4 DEF Behind
  <2> QED
    BY <1>2, <2>1, <2>2 DEF ColumnWalk
<1>5. ASSUME way = Up PROVE walks' = <<>> /\ Complete(w)
  <2>1. walks' = <<>>
    BY <1>2, <1>5 DEF Turned, Up, Down
  <2>2. Behind(w, Down)
    BY <1>5 DEF ColumnWalk
  <2> QED
    BY <1>1, <1>3, <1>5, <2>1, <2>2, BothWays
<1> QED
  BY <1>2, <1>4, <1>5

\* The next tile of a column of interfaces is the next but for an HCLK tile.
LEMMA NextPlace ==
  ASSUME NEW t \in AllTiles, Type(t) \in Interfaces, NEW way \in {Up, Down},
         NEW n \in NextInterface(t, way)
  PROVE  /\ n[1] \in AllTiles
         /\ \E k \in {1, 2} :
              /\ Tilegrid[n[1]].y = Tilegrid[t].y + way * k
              /\ k = 2 => \A u \in DOMAIN Silicon : InColumn(t, u) => Tilegrid[u].y # Tilegrid[t].y + way
<1>1. CASE \E m \in Beyond(t, way, 1) : Type(m) \in HclkNamed
  <2>1. PICK m \in Beyond(t, way, 1) : Type(m) \in HclkNamed
    BY <1>1
  <2>2. PICK o \in Beyond(t, way, 2) : n = <<o, IntEntry.words + HclkEntry.words>>
    BY <1>1 DEF NextInterface
  <2>3. n[1] = o /\ o \in AllTiles /\ Tilegrid[o].y = Tilegrid[t].y + 2 * way
    BY <2>2 DEF Beyond, TileAt
  <2>4. m \in AllTiles /\ Tilegrid[m].x = Tilegrid[t].x /\ Tilegrid[m].y = Tilegrid[t].y + 1 * way
    BY <2>1 DEF Beyond, TileAt
  <2>5. ASSUME NEW u \in DOMAIN Silicon, InColumn(t, u), Tilegrid[u].y = Tilegrid[t].y + way PROVE FALSE
    <3>1. u \in AllTiles /\ Tilegrid[u].x = Tilegrid[t].x
      BY <2>5, ColumnUpright
    <3>2. u = m
      BY <2>4, <2>5, <3>1, OnePlace DEF Up, Down
    <3> QED
      BY <2>1, <2>5, <3>2, InterfaceApart DEF InColumn, HclkNamed, Hclks, HclkOf, FabricTypes, Ints
  <2> QED
    BY <2>3, <2>5, FullAssumption DEF Up, Down
<1>2. CASE ~ \E m \in Beyond(t, way, 1) : Type(m) \in HclkNamed
  <2>1. PICK o \in Beyond(t, way, 1) : n = <<o, IntEntry.words>>
    BY <1>2 DEF NextInterface
  <2>2. n[1] = o /\ o \in AllTiles /\ Tilegrid[o].y = Tilegrid[t].y + 1 * way
    BY <2>1 DEF Beyond, TileAt
  <2> QED
    BY <2>2, FullAssumption DEF Up, Down
<1> QED
  BY <1>1, <1>2

\* The same of interfaces, up ...
LEMMA UpWalkKeeps ==
  ASSUME BitsInv, NEW w \in AllTiles, UpWalk(w), WalkInterface(w, Up)
  PROVE  \E n \in AllTiles : /\ UpWalk(n)' /\ InColumn(w, n) /\ Type(n) = Type(w) /\ Gains({n})
                             /\ seen' = seen \cup {w} /\ UNCHANGED <<failed, alias, pass, left>>
<1>1. Type(w) \in Interfaces /\ bits[w] # {} /\ Behind(w, Down) /\ walks = <<<<w, Up>>>>
  BY DEF UpWalk
<1>2. PICK n \in NextInterface(w, Up) :
        /\ Type(n[1]) = Type(w) /\ InColumn(w, n[1]) /\ Gains({n[1]})
        /\ walks' = <<<<n[1], Up>>>> \o Tail(walks) /\ seen' = seen \cup {w}
        /\ UNCHANGED <<failed, alias, pass, left>>
  BY <1>1, WalkInterfaceStep
<1>3. PICK k \in {1, 2} :
        /\ Tilegrid[n[1]].y = Tilegrid[w].y + Up * k
        /\ k = 2 => \A u \in DOMAIN Silicon : InColumn(w, u) => Tilegrid[u].y # Tilegrid[w].y + Up
  BY <1>1, NextPlace
<1>4. n[1] \in AllTiles /\ Tilegrid[w].y \in Nat
  BY <1>1, NextPlace, FullAssumption
<1>5. /\ Tilegrid[n[1]].y = Tilegrid[w].y - k
      /\ k = 2 => \A u \in DOMAIN Silicon : InColumn(w, u) => Tilegrid[u].y # Tilegrid[w].y - 1
  BY <1>3, <1>4 DEF Up
<1>6. Behind(n[1], Down)'
  BY <1>1, <1>2, <1>5, BehindUp
<1>7. walks' = <<<<n[1], Up>>>>
  BY <1>1, <1>2
<1>8. UpWalk(n[1])'
  BY <1>1, <1>2, <1>6, <1>7, GainsKeep DEF UpWalk
<1> QED
  BY <1>2, <1>4, <1>8

\* ... to the upper end, where the column is complete,
LEMMA UpWalkEnds ==
  ASSUME BitsInv, NEW w \in AllTiles, UpWalk(w), EndInterface(w, Up)
  PROVE  /\ failed' = FALSE /\ seen' = seen \cup {w} /\ UNCHANGED <<bits, alias, pass, left>>
         /\ walks' = <<>> /\ Complete(w)
<1>1. Type(w) \in Interfaces /\ bits[w] # {} /\ Behind(w, Down) /\ walks = <<<<w, Up>>>>
  BY DEF UpWalk
<1>2. /\ \A u \in DOMAIN Silicon : ~ Further(w, u, Up)
      /\ walks' = Tail(walks) /\ seen' = seen \cup {w} /\ failed' = FALSE
      /\ UNCHANGED <<bits, alias, pass, left>>
  BY <1>1, EndInterfaceStep
<1> QED
  BY <1>1, <1>2, BothWays

\* A list of two, put together.
LEMMA TwoOfThem == \A a, b : <<a>> \o <<b>> = <<a, b>>
<1> SUFFICES ASSUME NEW a, NEW b PROVE <<a>> \o <<b>> = <<a, b>>
  OBVIOUS
<1> DEFINE S == {a, b}
           joined == <<a>> \o <<b>>
<1>1. <<a>> \in Seq(S) /\ <<b>> \in Seq(S) /\ Len(<<a>>) = 1 /\ Len(<<b>>) = 1
  OBVIOUS
<1>2. /\ joined \in Seq(S) /\ Len(joined) = 2
      /\ \A i \in 1..2 : joined[i] = IF i <= 1 THEN <<a>>[i] ELSE <<b>>[i - 1]
  BY <1>1, ConcatProperties
<1>3. <<a, b>> \in Seq(S) /\ Len(<<a, b>>) = 2 /\ <<a, b>>[1] = a /\ <<a, b>>[2] = b
  OBVIOUS
<1>4. joined[1] = a /\ joined[2] = b
  BY <1>2
<1> HIDE DEF joined
<1>5. \A i \in 1..2 : joined[i] = <<a, b>>[i]
  BY <1>3, <1>4
<1>6. joined = <<a, b>>
  BY <1>2, <1>3, <1>5, SeqEqual
<1> QED
  BY <1>6 DEF joined

\* ... and down from the tile where the walk up will start ...
LEMMA DownWalkKeeps ==
  ASSUME BitsInv, NEW w \in AllTiles, NEW s \in AllTiles, DownWalk(s, w), WalkInterface(s, Down)
  PROVE  \E n \in AllTiles : /\ DownWalk(n, w)' /\ InColumn(s, n) /\ Type(n) = Type(s) /\ Gains({n})
                             /\ seen' = seen \cup {s} /\ UNCHANGED <<failed, alias, pass, left>>
<1>1. /\ Type(w) \in Interfaces /\ bits[s] # {} /\ bits[w] # {} /\ InColumn(s, w) /\ Spanned(w, s)
      /\ walks = <<<<s, Down>>, <<w, Up>>>> /\ Type(s) \in Interfaces
  BY InterfaceApart DEF DownWalk, InColumn, FabricTypes, Ints, Hclks, HclkOf
<1>2. PICK n \in NextInterface(s, Down) :
        /\ Type(n[1]) = Type(s) /\ InColumn(s, n[1]) /\ Gains({n[1]})
        /\ walks' = <<<<n[1], Down>>>> \o Tail(walks) /\ seen' = seen \cup {s}
        /\ UNCHANGED <<failed, alias, pass, left>>
  BY <1>1, WalkInterfaceStep
<1>3. PICK k \in {1, 2} :
        /\ Tilegrid[n[1]].y = Tilegrid[s].y + Down * k
        /\ k = 2 => \A u \in DOMAIN Silicon : InColumn(s, u) => Tilegrid[u].y # Tilegrid[s].y + Down
  BY <1>1, NextPlace
<1>4. n[1] \in AllTiles /\ Tilegrid[s].y \in Nat
  BY <1>1, NextPlace, FullAssumption
<1>5. InColumn(n[1], w)
  BY <1>1, <1>2, ColumnBack, ColumnOn
<1>6. Spanned(w, n[1])'
  <2> SUFFICES ASSUME NEW u \in DOMAIN Silicon, InColumn(w, u), Tilegrid[u].y >= Tilegrid[w].y,
                      Tilegrid[u].y <= Tilegrid[n[1]].y
               PROVE  bits'[u] # {}
    BY DEF Spanned
  <2>1. InColumn(s, u)
    BY <1>1, ColumnOn
  <2>2. u \in AllTiles /\ Tilegrid[u].x = Tilegrid[s].x /\ Tilegrid[u].y \in Nat
    BY <2>1, ColumnUpright
  <2>3. CASE Tilegrid[u].y <= Tilegrid[s].y
    BY <1>1, <1>2, <2>2, <2>3, GainsKeep DEF Spanned
  <2>4. CASE Tilegrid[u].y = Tilegrid[n[1]].y
    <3>1. u = n[1]
      BY <1>2, <1>4, <2>2, <2>4, OnePlace, ColumnUpright
    <3> QED
      BY <1>2, <3>1, GainsKeep
  <2>5. Tilegrid[u].y <= Tilegrid[s].y \/ Tilegrid[u].y = Tilegrid[n[1]].y
    BY <1>3, <1>4, <2>1, <2>2 DEF Down
  <2> QED
    BY <2>3, <2>4, <2>5
<1>7. walks' = <<<<n[1], Down>>, <<w, Up>>>>
  <2>1. Tail(walks) = <<<<w, Up>>>>
    BY <1>1
  <2> QED
    BY <1>2, <2>1, TwoOfThem, Zenon
<1>8. DownWalk(n[1], w)'
  BY <1>1, <1>2, <1>5, <1>6, <1>7, GainsKeep DEF DownWalk
<1> QED
  BY <1>2, <1>4, <1>8

\* ... to the lower end, when nothing below that tile is left out.
LEMMA DownWalkEnds ==
  ASSUME BitsInv, NEW w \in AllTiles, NEW s \in AllTiles, DownWalk(s, w), EndInterface(s, Down)
  PROVE  /\ failed' = FALSE /\ seen' = seen \cup {s} /\ UNCHANGED <<bits, alias, pass, left>>
         /\ UpWalk(w)' /\ InColumn(s, w)
<1>1. /\ Type(w) \in Interfaces /\ bits[s] # {} /\ bits[w] # {} /\ InColumn(s, w) /\ Spanned(w, s)
      /\ walks = <<<<s, Down>>, <<w, Up>>>> /\ Type(s) \in Interfaces
  BY InterfaceApart DEF DownWalk, InColumn, FabricTypes, Ints, Hclks, HclkOf
<1>2. /\ \A u \in DOMAIN Silicon : ~ Further(s, u, Down)
      /\ walks' = Tail(walks) /\ seen' = seen \cup {s} /\ failed' = FALSE
      /\ UNCHANGED <<bits, alias, pass, left>>
  BY <1>1, EndInterfaceStep
<1>3. Behind(w, Down)
  <2> SUFFICES ASSUME NEW u \in DOMAIN Silicon, Further(w, u, Down) PROVE bits[u] # {}
    BY DEF Behind
  <2>1. InColumn(w, u) /\ InColumn(s, u) /\ Tilegrid[u].y > Tilegrid[w].y
    BY <1>1, ColumnOn, ColumnUpright DEF Further, Down
  <2>2. Tilegrid[w].y \in Nat /\ Tilegrid[s].y \in Nat /\ Tilegrid[u].y \in Nat
    BY <2>1, ColumnUpright
  <2>3. ~ (Tilegrid[u].y > Tilegrid[s].y)
    BY <1>2, <2>1, <2>2 DEF Further, Down
  <2> QED
    BY <1>1, <2>1, <2>2, <2>3 DEF Spanned
<1>4. UpWalk(w)'
  <2>1. walks' = <<<<w, Up>>>>
    BY <1>1, <1>2
  <2>2. Behind(w, Down)'
    BY <1>2, <1>3 DEF Behind
  <2> QED
    BY <1>1, <1>2, <2>1, <2>2 DEF UpWalk
<1> QED
  BY <1>1, <1>2, <1>4

(***************************************************************************)
(* A pass that walks leaves every column that has bits complete.           *)
(***************************************************************************)
\* The walk is in the column of t.
OnWalk(t) == walks # <<>> /\ InColumn(walks[1][1], t)

\* In pass p, the column of a tile with bits is yet to be walked, being walked or
\* complete; what was seen is not yet to be walked.
SweepInv(p, types) ==
  pass = p =>
    /\ \A t \in AllTiles : Type(t) \in types /\ bits[t] # {} => Pending(t) \/ Complete(t) \/ OnWalk(t)
    /\ \A t \in seen : Complete(t) \/ OnWalk(t)

\* A walk that goes on, or turns, takes its column along.
LEMMA SweepMoves ==
  ASSUME BitsInv, NEW p, NEW types, SweepInv(p, types), walks # <<>>, walks' # <<>>,
         NEW n, InColumn(walks[1][1], n), walks'[1][1] = n, NEW S \in SUBSET {n}, Gains(S),
         seen' = seen \cup {walks[1][1]}, UNCHANGED <<pass, left>>
  PROVE  SweepInv(p, types)'
<1>0. PICK w : w = walks[1][1]
  OBVIOUS
<1>1. InColumn(n, w) /\ InColumn(n, n) /\ \A t : InColumn(w, t) => InColumn(n, t)
  BY <1>0, ColumnBack, ColumnOn
<1>2. \A t : Complete(t) \/ OnWalk(t) => Complete(t)' \/ OnWalk(t)'
  BY <1>0, <1>1, CompleteKeeps DEF OnWalk
<1>3. OnWalk(n)' /\ OnWalk(w)'
  BY <1>1 DEF OnWalk
<1>4. \A t \in AllTiles : bits'[t] # {} => bits[t] # {} \/ t = n
  BY GainsKeep
<1>5. \A t : Pending(t) => Pending(t)'
  BY DEF Pending
<1> QED
  BY <1>0, <1>2, <1>3, <1>4, <1>5 DEF SweepInv

\* When it ends, the column is complete.
LEMMA SweepEnds ==
  ASSUME NEW p, NEW types, SweepInv(p, types), walks # <<>>, walks' = <<>>,
         Complete(walks[1][1]), seen' = seen \cup {walks[1][1]}, UNCHANGED <<bits, pass, left>>
  PROVE  SweepInv(p, types)'
<1>0. PICK w : w = walks[1][1]
  OBVIOUS
<1>1. \A t : InColumn(w, t) => Complete(t)
  BY <1>0, ColumnOn DEF Complete
<1>3. Complete(w)' /\ \A t : Complete(t) => Complete(t)'
  BY <1>0 DEF Complete
<1>2. \A t : Complete(t) \/ OnWalk(t) => Complete(t)'
  BY <1>0, <1>1, <1>3 DEF OnWalk
<1>4. \A t : Pending(t) => Pending(t)'
  BY DEF Pending
<1> QED
  BY <1>0, <1>2, <1>3, <1>4 DEF SweepInv

\* The loop skips what is complete, and walks the column of the tile that it comes to.
LEMMA SweepStarts ==
  ASSUME BitsInv, TidyInv, NEW p, NEW types, types \subseteq FabricTypes \cup Interfaces,
         SweepInv(p, types), NEW t \in NextTile, Reaches(p, t), walks'[1][1] = t, walks' # <<>>,
         Type(t) \in types, bits[t] # {},
         \A u \in AllTiles : Type(u) \in types /\ bits[u] # {} /\ ~ Wanted(u) => u \in seen,
         UNCHANGED <<bits, seen>>
  PROVE  SweepInv(p, types)'
<1>1. pass = p /\ pass' = p
  BY DEF Reaches
<1>2. t \in AllTiles /\ walks = <<>>
  BY NextTileWanted DEF TidyInv
<1>3. t \in DOMAIN Silicon
  BY <1>2 DEF BitsInv
<1>4. OnWalk(t)'
  BY <1>3, ColumnSame DEF OnWalk
<1>5. \A u \in seen : Complete(u)
  BY <1>1, <1>2 DEF SweepInv, OnWalk
<1>6. \A u : Complete(u) => Complete(u)'
  BY DEF Complete
<1>7. \A u \in AllTiles : Pending(u) => u = t \/ ~ Wanted(u) \/ Pending(u)'
  BY ReachesOn
<1>8. ASSUME NEW u \in AllTiles, Type(u) \in types, bits[u] # {}
      PROVE  Pending(u)' \/ Complete(u)' \/ OnWalk(u)'
  <2>1. Pending(u) \/ Complete(u)
    BY <1>1, <1>2, <1>8 DEF SweepInv, OnWalk
  <2> QED
    BY <1>4, <1>5, <1>6, <1>7, <1>8, <2>1
<1> QED
  BY <1>1, <1>5, <1>6, <1>8 DEF SweepInv

\* At the start of a pass all is pending.
LEMMA SweepFresh ==
  ASSUME NEW p \in DOMAIN Following, pass' = p => left' = Order[p], seen' = {}, NEW types
  PROVE  SweepInv(p, types)'
<1>1. \A t \in AllTiles : \E i \in DOMAIN Order[p] : Order[p][i] = t
  BY FullAssumption DEF Range
<1>2. pass' = p => \A t \in AllTiles : Pending(t)'
  BY <1>1 DEF Pending
<1> QED
  BY <1>2 DEF SweepInv

\* The invariant is about one pass.
LEMMA SweepLeaves ==
  ASSUME NEW p, NEW types, pass' # p
  PROVE  SweepInv(p, types)'
BY DEF SweepInv

\* At the end of the pass.
LEMMA SweepDone ==
  ASSUME TidyInv, NEW p, NEW types, SweepInv(p, types), pass = p, Running, NextTile = {},
         \A u \in AllTiles : Type(u) \in types /\ bits[u] # {} /\ ~ Wanted(u) => u \in seen
  PROVE  \A t \in AllTiles : Type(t) \in types /\ bits[t] # {} => Complete(t)
<1>1. walks = <<>>
  BY DEF Running
<1>2. \A t \in AllTiles : Pending(t) => ~ Wanted(t)
  BY NoneLeft
<1> QED
  BY <1>1, <1>2 DEF SweepInv, OnWalk

(***************************************************************************)
(* Pairs of columns of interconnect.                                       *)
(***************************************************************************)
Later == {"rebuf", "iob_sing", "ioi_sing", "ioi_y9", "cfg", "hclk_alias", "done"}

\* After the passes that walk, columns are complete or have no bits.
ColumnsDone(types) == \A t \in AllTiles : Type(t) \in types /\ bits[t] # {} => Complete(t)

DoneInv ==
  /\ pass \in {"interface"} \cup Later => ColumnsDone(Ints)
  /\ pass \in Later => ColumnsDone(Interfaces)

\* The tile beside t has bits, or one of its column.
Mirrored(t) == \A o \in Lateral(t) : bits[o] # {}
Seeded(t) ==
  \A o \in Lateral(t) : \E s \in AllTiles : Type(s) \in Ints /\ bits[s] # {} /\ InColumn(o, s)

\* int_lr pairs INTs; the walks that follow come to INTs whose neighbour's column
\* has bits too, and when all columns are complete the INTs are in pairs again.
PairInv ==
  \A t \in AllTiles : Type(t) \in Ints /\ bits[t] # {} =>
    /\ pass = "int_lr" => Pending(t) \/ Mirrored(t)
    /\ pass = "int_column" => Seeded(t)
    /\ pass \in {"interface"} \cup Later => Mirrored(t)

\* A tile beside another is a tile.
LEMMA LateralTiles == \A t : Lateral(t) \subseteq AllTiles
BY DEF Lateral, TileAt

\* Complete columns stay so while other tiles gain bits.
LEMMA DoneKeeps ==
  ASSUME BitsInv, NEW types, ColumnsDone(types), NEW S, Gains(S), \A t \in S : Type(t) \notin types
  PROVE  ColumnsDone(types)'
BY GainsKeep, CompleteKeeps DEF ColumnsDone

\* As bits are never lost.
LEMMA MirroredKeeps ==
  ASSUME BitsInv, NEW S, Gains(S), NEW t, Mirrored(t) PROVE Mirrored(t)'
BY GainsKeep, LateralTiles DEF Mirrored

\* As bits are never lost.
LEMMA SeededKeeps ==
  ASSUME BitsInv, NEW S, Gains(S), NEW t, Seeded(t) PROVE Seeded(t)'
BY GainsKeep DEF Seeded

\* Two INTs of a column have the tiles beside them in one column too.
LEMMA ColumnBeside ==
  ASSUME NEW t \in AllTiles, NEW u \in AllTiles, InColumn(t, u), {Type(t), Type(u)} \subseteq Ints,
         NEW o \in Lateral(t), NEW p \in Lateral(u)
  PROVE  InColumn(o, p)
<1>1. t \in DOMAIN Silicon /\ u \in DOMAIN Silicon /\ Silicon[t].base = Silicon[u].base
  BY DEF InColumn
<1>2. Type(t) = Type(u)
  BY <1>1, SiliconAssumption DEF FabricLaw, FabricTypes
<1>3. /\ o \in DOMAIN Silicon /\ Type(o) \in Ints \ {Type(t)} /\ t \in Lateral(o)
      /\ p \in DOMAIN Silicon /\ Type(p) \in Ints \ {Type(t)} /\ u \in Lateral(p)
  BY <1>1, <1>2, LateralBack, SiliconAssumption DEF PairLaw
<1>4. Silicon[o].base = Silicon[p].base
  <2>1. CASE Type(t) = "INT_L"
    BY <1>1, <1>2, <1>3, <2>1, SiliconAssumption DEF PairLaw
  <2>2. CASE Type(t) = "INT_R"
    <3>1. Type(o) = "INT_L" /\ Type(p) = "INT_L"
      BY <1>3, <2>2 DEF Ints
    <3>2. /\ Silicon[t].base = <<Silicon[o].base[1], Silicon[o].base[2] + 1>>
          /\ Silicon[u].base = <<Silicon[p].base[1], Silicon[p].base[2] + 1>>
      BY <1>3, <3>1, SiliconAssumption DEF PairLaw
    <3>3. Silicon[o].base \in Int \X Int /\ Silicon[p].base \in Int \X Int
      BY <1>3, SiliconBlock
    <3>4. \A b, c \in Int \X Int : <<b[1], b[2] + 1>> = <<c[1], c[2] + 1>> => b = c
      <4> SUFFICES ASSUME NEW i \in Int, NEW j \in Int, NEW k \in Int, NEW l \in Int,
                          <<i, j + 1>> = <<k, l + 1>>
                   PROVE  i = k /\ j = l
        OBVIOUS
      <4>1. i = k /\ j + 1 = l + 1
        OBVIOUS
      <4> QED
        BY <4>1
    <3> QED
      BY <1>1, <3>2, <3>3, <3>4
  <2> QED
    BY <2>1, <2>2 DEF Ints
<1> QED
  BY <1>3, <1>4 DEF InColumn, FabricTypes

\* An INT of the column of another one is seeded as that is.
LEMMA SeededAlong ==
  ASSUME NEW t \in AllTiles, NEW u \in AllTiles, InColumn(t, u), {Type(t), Type(u)} \subseteq Ints,
         Seeded(t)
  PROVE  Seeded(u)
<1> SUFFICES ASSUME NEW p \in Lateral(u)
             PROVE  \E s \in AllTiles : Type(s) \in Ints /\ bits[s] # {} /\ InColumn(p, s)
  BY DEF Seeded
<1>1. t \in DOMAIN Silicon /\ u \in DOMAIN Silicon /\ InColumn(u, t)
  BY ColumnBack DEF InColumn
<1>2. PICK o : o \in Lateral(t)
  BY <1>1, SiliconAssumption DEF PairLaw
<1>3. InColumn(p, o)
  BY <1>1, <1>2, ColumnBeside
<1>4. PICK s \in AllTiles : Type(s) \in Ints /\ bits[s] # {} /\ InColumn(o, s)
  BY <1>2 DEF Seeded
<1> QED
  BY <1>3, <1>4, ColumnOn

\* Where all columns that were begun are complete, pairs are.
LEMMA SeededDone ==
  ASSUME ColumnsDone(Ints), NEW t, Seeded(t) PROVE Mirrored(t)
<1> SUFFICES ASSUME NEW o \in Lateral(t) PROVE bits[o] # {}
  BY DEF Mirrored
<1>1. PICK s \in AllTiles : Type(s) \in Ints /\ bits[s] # {} /\ InColumn(o, s)
  BY DEF Seeded
<1>2. InColumn(s, o) /\ o \in DOMAIN Silicon
  BY <1>1, ColumnBack DEF InColumn
<1> QED
  BY <1>1, <1>2 DEF ColumnsDone, Complete

(***************************************************************************)
(* The invariant.                                                          *)
(***************************************************************************)
\* An alias goes with bits, and begins with the word that the tile has.
AliasInv ==
  /\ AliasTyped
  /\ \A t \in AllTiles : alias[t] # {} =>
       bits[t] # {} /\ \E a : alias[t] = {a} /\ Home(t, a.start_offset)

GridInv ==
  /\ TidyInv /\ BitsInv /\ AliasInv /\ FailInv /\ WalkInv
  /\ SweepInv("int_column", Ints) /\ SweepInv("interface", Interfaces)
  /\ PairInv /\ DoneInv

\* An alias is written with the words that the tile has, once it has bits.
LEMMA AliasKeeps ==
  ASSUME BitsInv, AliasInv, NEW S, Gains(S), Lends(S)
  PROVE  AliasInv'
<1>1. AliasTyped'
  BY DEF Lends
<1>2. ASSUME NEW t \in AllTiles, alias'[t] # {}
      PROVE  bits'[t] # {} /\ \E a : alias'[t] = {a} /\ Home(t, a.start_offset)
  <2>1. CASE alias'[t] = alias[t]
    BY <1>2, <2>1, GainsKeep DEF AliasInv
  <2>2. CASE t \in S /\ \E a : alias'[t] = {a} /\ Home(t, a.start_offset)
    BY <2>2, GainsKeep
  <2> QED
    BY <2>1, <2>2 DEF Lends
<1> QED
  BY <1>1, <1>2 DEF AliasInv

\* Aliases are right as long as they are not written.
LEMMA AliasStays ==
  ASSUME BitsInv, AliasInv, NEW S, Gains(S), UNCHANGED alias
  PROVE  AliasInv'
<1>1. Lends(S)
  BY DEF AliasInv, AliasTyped, Lends
<1> QED
  BY <1>1, AliasKeeps

\* The order of the passes.
LEMMA PassFollowing ==
  /\ DOMAIN Following = {"int_lr", "int_column", "interface"} \cup (Later \ {"done"})
  /\ Following["int_lr"] = "int_column" /\ Following["int_column"] = "interface"
  /\ Following["interface"] = "rebuf"
  /\ \A p \in Later \ {"done"} : Following[p] \in Later
BY DEF Following, Later

\* The loop of a pass is over all the tiles.
LEMMA PassOrder ==
  ASSUME NEW p \in DOMAIN Following
  PROVE  /\ Order[p] \in Seq(AllTiles)
         /\ \A i, j \in DOMAIN Order[p] : Order[p][i] = Order[p][j] => i = j
         /\ \A t \in AllTiles : \E i \in DOMAIN Order[p] : Order[p][i] = t
BY FullAssumption DEF Range

\* After a failed assertion nothing more happens.
LEMMA StepsOn == ASSUME GridInv, FullNext PROVE ~ failed
BY DEF FullNext, GridInv, FailInv, AddTdb, NextPass, NextTile, Running, EndColumn, WalkColumn,
       EndInterface, WalkInterface, Walking

\* The invariant holds before add_tdb.py.
LEMMA GridInit == FullInit => GridInv
<1> SUFFICES ASSUME FullInit PROVE GridInv
  OBVIOUS
<1> USE DEF FullInit
<1>1. TidyInv /\ BitsInv /\ AliasInv /\ FailInv /\ WalkInv
  <2>1. <<>> \in Seq(AllTiles) /\ DOMAIN <<>> = {}
    OBVIOUS
  <2> QED
    BY <2>1 DEF TidyInv, BitsInv, AliasInv, AliasTyped, FailInv, WalkInv
<1>2. SweepInv("int_column", Ints) /\ SweepInv("interface", Interfaces) /\ PairInv /\ DoneInv
  BY DEF SweepInv, PairInv, DoneInv, Later
<1> QED
  BY <1>1, <1>2 DEF GridInv

\* What was solved is right.
LEMMA GridAddTdb == ASSUME GridInv, AddTdb PROVE GridInv'
<1> USE DEF GridInv
<1>1. /\ pass = "add_tdb" /\ pass' = "int_lr" /\ left' = Order["int_lr"]
      /\ UNCHANGED <<alias, walks, seen, failed>> /\ walks = <<>> /\ ~ failed
      /\ bits = [t \in AllTiles |-> {}]
  BY DEF AddTdb, TidyInv, FailInv
<1>2. PICK solved \in Solvable :
        bits' = [t \in AllTiles |-> IF t \in solved THEN {Capped(Silicon[t])} ELSE {}]
  BY DEF AddTdb
<1>3. solved \subseteq DOMAIN Silicon
  BY FullAssumption
<1>4. \A t \in DOMAIN Silicon : Capped(Silicon[t]) = Silicon[t]
  <2> SUFFICES ASSUME NEW t \in DOMAIN Silicon PROVE Capped(Silicon[t]) = Silicon[t]
    OBVIOUS
  <2>1. Smaller(Silicon[t].frames, MaxFrames[Silicon[t].base]) = Silicon[t].frames
    BY SiliconBlock DEF Smaller
  <2>2. Silicon[t] \in [base : Int \X Int, frames : Nat, offset : Nat, words : Nat \ {0}]
    BY SiliconAssumption DEF BlockLaw
  <2> QED
    BY <2>1, <2>2 DEF Capped
<1>5. bits' = [t \in AllTiles |-> IF t \in solved THEN {Silicon[t]} ELSE {}]
  BY <1>2, <1>3, <1>4
<1>6. TidyInv'
  BY <1>1, PassOrder, PassFollowing DEF TidyInv
<1>7. BitsInv'
  BY <1>3, <1>5 DEF BitsInv
<1>8. AliasInv' /\ FailInv' /\ WalkInv'
  BY <1>1 DEF AliasInv, AliasTyped, FailInv, WalkInv
<1>9. SweepInv("int_column", Ints)' /\ SweepInv("interface", Interfaces)' /\ DoneInv'
  BY <1>1, SweepLeaves DEF DoneInv, Later
<1>10. PairInv'
  <2>1. \A t \in AllTiles : Pending(t)'
    BY <1>1, PassOrder, PassFollowing DEF Pending
  <2> QED
    BY <1>1, <2>1 DEF PairInv, Later
<1> QED
  BY <1>6, <1>7, <1>8, <1>9, <1>10

\* The end of a pass: no tile that it wants is left, so its columns are complete.
LEMMA GridNextPass == ASSUME GridInv, NextPass PROVE GridInv'
<1> USE DEF GridInv
<1>1. /\ Running /\ NextTile = {} /\ ~ failed /\ walks = <<>> /\ pass \in DOMAIN Following
      /\ pass' = Following[pass] /\ seen' = {}
      /\ left' = IF pass' = "done" THEN <<>> ELSE Order[pass']
      /\ UNCHANGED <<bits, alias, walks, failed>>
  BY DEF NextPass, Running
<1>2. pass' \in DOMAIN Following \cup {"done"} /\ pass' \notin {"add_tdb", "int_lr"}
  BY <1>1, PassFollowing DEF Later
<1>3. TidyInv'
  BY <1>1, <1>2, PassOrder, PassFollowing DEF TidyInv, Later
<1>4. BitsInv' /\ AliasInv' /\ FailInv' /\ WalkInv'
  BY <1>1 DEF BitsInv, AliasInv, AliasTyped, FailInv, WalkInv
<1>5. SweepInv("int_column", Ints)' /\ SweepInv("interface", Interfaces)'
  <2>1. /\ "int_column" \in DOMAIN Following /\ "interface" \in DOMAIN Following
        /\ \A p \in DOMAIN Following : pass' = p => left' = Order[p]
    BY <1>1, PassFollowing DEF Later
  <2> QED
    BY <1>1, <2>1, SweepFresh
<1>6. \A types : ColumnsDone(types) => ColumnsDone(types)'
  BY <1>1 DEF ColumnsDone, Complete
<1>7. pass = "int_column" => ColumnsDone(Ints)
  BY <1>1, SweepDone DEF Wanted, ColumnsDone
<1>8. pass = "interface" => ColumnsDone(Interfaces)
  BY <1>1, SweepDone DEF Wanted, ColumnsDone
<1>9. DoneInv'
  BY <1>1, <1>6, <1>7, <1>8, PassFollowing DEF DoneInv, Later
<1>10. ASSUME pass = "int_lr", NEW t \in AllTiles, Type(t) \in Ints, bits[t] # {} PROVE Seeded(t)
  <2>1. Mirrored(t)
    <3>1. Pending(t) => ~ Wanted(t)
      BY <1>1, NoneLeft
    <3>2. Pending(t) => Lateral(t) = {}
      BY <1>10, <3>1 DEF Wanted
    <3> QED
      BY <1>10, <3>2 DEF PairInv, Mirrored
  <2>2. ASSUME NEW o \in Lateral(t)
        PROVE  \E s \in AllTiles : Type(s) \in Ints /\ bits[s] # {} /\ InColumn(o, s)
    <3>1. o \in AllTiles /\ Type(o) \in Ints /\ bits[o] # {}
      BY <1>10, <2>1, <2>2, LateralBack DEF Mirrored
    <3>2. InColumn(o, o)
      BY <3>1, ColumnSame DEF BitsInv, FabricTypes
    <3> QED
      BY <3>1, <3>2
  <2> QED
    BY <2>2 DEF Seeded
<1>11. ASSUME NEW t \in AllTiles, Type(t) \in Ints, bits[t] # {}
       PROVE  pass' = "int_column" => Seeded(t)
  BY <1>1, <1>10, <1>11, PassFollowing DEF Later
<1>12. ASSUME NEW t \in AllTiles, Type(t) \in Ints, bits[t] # {}
       PROVE  pass' \in {"interface"} \cup Later => Mirrored(t)
  <2>1. pass = "int_column" => Mirrored(t)
    BY <1>7, <1>12, SeededDone DEF PairInv
  <2>2. pass # "int_lr" /\ pass # "int_column" => Mirrored(t)
    BY <1>1, <1>12, PassFollowing DEF PairInv
  <2> QED
    BY <1>1, <2>1, <2>2, PassFollowing DEF Later
<1>13. \A t : (Seeded(t) => Seeded(t)') /\ (Mirrored(t) => Mirrored(t)')
  BY <1>1 DEF Seeded, Mirrored
<1>14. PairInv'
  BY <1>1, <1>2, <1>11, <1>12, <1>13 DEF PairInv
<1> QED
  BY <1>3, <1>4, <1>5, <1>9, <1>14

\* int_lr pairs the tile that it comes to.
LEMMA GridLeftRight == ASSUME GridInv, NEW t \in NextTile, LeftRight(t) PROVE GridInv'
<1> USE DEF GridInv
<1>1. PICK o \in Lateral(t) : Gains({o}) /\ UNCHANGED <<failed, walks, seen, alias, pass>>
  BY LeftRightStep DEF TidyInv
<1>2. pass = "int_lr" /\ Reaches("int_lr", t) /\ ~ failed /\ walks = <<>> /\ t \in AllTiles /\ Wanted(t)
  BY NextTileWanted DEF LeftRight, Reaches, TidyInv
<1>3. Type(t) \in Ints /\ bits[t] # {}
  BY <1>2 DEF Wanted
<1>4. TidyInv'
  BY <1>1, <1>2, ReachesOn DEF TidyInv
<1>5. BitsInv' /\ AliasInv' /\ FailInv' /\ WalkInv'
  BY <1>1, <1>2, GainsInv, AliasStays DEF FailInv, WalkInv
<1>6. SweepInv("int_column", Ints)' /\ SweepInv("interface", Interfaces)' /\ DoneInv'
  BY <1>1, <1>2, SweepLeaves DEF DoneInv, Later
<1>7. o \in AllTiles /\ t \in Lateral(o)
  BY <1>2, <1>3, LateralBack
<1>8. \A u \in AllTiles : \A r, s \in Lateral(u) : r = s
  BY FullAssumption DEF Lateral, TileAt
<1>9. ASSUME NEW u \in AllTiles, Type(u) \in Ints, bits'[u] # {} PROVE Pending(u)' \/ Mirrored(u)'
  <2>1. CASE u = o
    BY <1>1, <1>2, <1>3, <1>7, <1>8, <2>1, GainsKeep DEF Mirrored
  <2>2. CASE u = t
    BY <1>1, <1>7, <1>8, <2>2, GainsKeep DEF Mirrored
  <2>3. CASE u # o /\ u # t
    <3>1. bits[u] # {}
      BY <1>1, <1>9, <2>3, GainsKeep
    <3>2. Pending(u) \/ Mirrored(u)
      BY <1>2, <1>9, <3>1 DEF PairInv
    <3>3. ~ Wanted(u) => Mirrored(u)
      BY <1>2, <1>9, <3>1 DEF Wanted, Mirrored
    <3> QED
      BY <1>1, <1>2, <2>3, <3>2, <3>3, ReachesOn, MirroredKeeps
  <2> QED
    BY <2>1, <2>2, <2>3
<1>10. PairInv'
  BY <1>1, <1>2, <1>9 DEF PairInv, Later
<1> QED
  BY <1>4, <1>5, <1>6, <1>10

\* A walk begins with the column of its tile in it.
LEMMA GridStartWalk == ASSUME GridInv, NEW t \in NextTile, StartWalk(t) PROVE GridInv'
<1> USE DEF GridInv
<1>1. t \in AllTiles /\ Wanted(t) /\ ~ failed /\ walks = <<>> /\ UNCHANGED <<bits, alias, seen, failed>>
  BY NextTileWanted DEF StartWalk, TidyInv
<1>2. Gains({})
  BY <1>1, GainsNothing
<1>3. BitsInv' /\ AliasInv' /\ FailInv'
  BY <1>1, <1>2, GainsInv, AliasStays DEF FailInv
<1>4. \A types : ColumnsDone(types) => ColumnsDone(types)'
  BY <1>1 DEF ColumnsDone, Complete
<1>5. \A u : (Seeded(u) => Seeded(u)') /\ (Mirrored(u) => Mirrored(u)')
  BY <1>1 DEF Seeded, Mirrored
<1>6. CASE Reaches("int_column", t) /\ walks' = <<<<t, Down>>>>
  <2>1. pass = "int_column" /\ pass' = "int_column"
    BY <1>6 DEF Reaches
  <2>2. Type(t) \in Ints /\ bits[t] # {}
    BY <1>1, <2>1 DEF Wanted
  <2>3. TidyInv'
    BY <1>6, <2>1, ReachesOn DEF TidyInv
  <2>4. ColumnWalk(t, Down)'
    <3>1. InColumn(t, t)
      BY <1>1, <2>2, ColumnSame DEF BitsInv, FabricTypes
    <3> QED
      BY <1>1, <1>6, <2>2, <3>1 DEF ColumnWalk, FabricTypes, Up, Down
  <2>5. WalkInv'
    BY <1>1, <2>1, <2>4 DEF WalkInv
  <2>6. SweepInv("int_column", Ints)'
    <3>1. \A u \in AllTiles : Type(u) \in Ints /\ bits[u] # {} /\ ~ Wanted(u) => u \in seen
      BY <2>1 DEF Wanted
    <3>2. walks' # <<>> /\ walks'[1][1] = t
      BY <1>6
    <3>3. Ints \subseteq FabricTypes \cup Interfaces
      BY DEF FabricTypes
    <3> QED
      BY <1>1, <1>6, <2>2, <3>1, <3>2, <3>3, SweepStarts
  <2>7. SweepInv("interface", Interfaces)'
    BY <2>1, SweepLeaves
  <2>8. PairInv' /\ DoneInv'
    BY <1>1, <1>5, <2>1 DEF PairInv, DoneInv, Later
  <2> QED
    BY <1>3, <2>3, <2>5, <2>6, <2>7, <2>8
<1>7. CASE Reaches("interface", t) /\ walks' = <<<<t, Down>>, <<t, Up>>>>
  <2>1. pass = "interface" /\ pass' = "interface"
    BY <1>7 DEF Reaches
  <2>2. Type(t) \in Interfaces /\ bits[t] # {}
    BY <1>1, <2>1 DEF Wanted
  <2>3. TidyInv'
    BY <1>7, <2>1, ReachesOn DEF TidyInv
  <2>4. DownWalk(t, t)'
    <3>1. InColumn(t, t)
      BY <1>1, <2>2, ColumnSame DEF BitsInv
    <3>2. Spanned(t, t)
      <4> SUFFICES ASSUME NEW u \in DOMAIN Silicon, InColumn(t, u), Tilegrid[u].y >= Tilegrid[t].y,
                          Tilegrid[u].y <= Tilegrid[t].y
                   PROVE  bits[u] # {}
        BY DEF Spanned
      <4>1. u \in AllTiles /\ Tilegrid[u].x = Tilegrid[t].x /\ Tilegrid[u].y = Tilegrid[t].y
        BY ColumnUpright
      <4> QED
        BY <1>1, <2>2, <4>1, OnePlace
    <3>3. Spanned(t, t)'
      BY <1>1, <3>2 DEF Spanned
    <3> QED
      BY <1>1, <1>7, <2>2, <3>1, <3>3 DEF DownWalk
  <2>5. WalkInv'
    BY <1>1, <2>1, <2>4 DEF WalkInv
  <2>6. SweepInv("interface", Interfaces)'
    <3>1. \A u \in AllTiles : Type(u) \in Interfaces /\ bits[u] # {} /\ ~ Wanted(u) => u \in seen
      BY <2>1 DEF Wanted
    <3>2. walks' # <<>> /\ walks'[1][1] = t
      BY <1>7
    <3> QED
      BY <1>1, <1>7, <2>2, <3>1, <3>2, SweepStarts
  <2>7. SweepInv("int_column", Ints)'
    BY <2>1, SweepLeaves
  <2>8. PairInv' /\ DoneInv'
    BY <1>1, <1>4, <1>5, <2>1 DEF PairInv, DoneInv, Later
  <2> QED
    BY <1>3, <2>3, <2>5, <2>6, <2>7, <2>8
<1> QED
  BY <1>6, <1>7 DEF StartWalk

\* What a walk does to the pairs: an INT that it comes to is seeded.
LEMMA PairWalks ==
  ASSUME BitsInv, PairInv, DoneInv, NEW S, Gains(S), UNCHANGED pass, pass \in {"int_column", "interface"},
         pass = "int_column" => \A n \in S : Type(n) \in Ints => Seeded(n),
         pass = "interface" => \A n \in S : Type(n) \notin Ints
  PROVE  PairInv' /\ DoneInv'
<1>1. ASSUME NEW t \in AllTiles, Type(t) \in Ints, bits'[t] # {}
      PROVE  /\ pass = "int_column" => Seeded(t)'
             /\ pass = "interface" => Mirrored(t)'
  <2>1. t \notin S => bits[t] # {}
    BY <1>1, GainsKeep
  <2>2. pass = "int_column" => Seeded(t)
    BY <1>1, <2>1 DEF PairInv
  <2>3. pass = "interface" => Mirrored(t)
    BY <1>1, <2>1 DEF PairInv
  <2> QED
    BY <2>2, <2>3, SeededKeeps, MirroredKeeps
<1>2. pass = "interface" => ColumnsDone(Ints)'
  BY DoneKeeps DEF DoneInv
<1> QED
  BY <1>1, <1>2 DEF PairInv, DoneInv, Later

\* Steps of a walk in a column of interconnect.
LEMMA GridColumnWalks ==
  ASSUME GridInv, NEW w \in AllTiles, NEW way \in {Up, Down}, walks = <<<<w, way>>>>,
         EndColumn(w, way) \/ WalkColumn(w, way)
  PROVE  GridInv'
<1> USE DEF GridInv
<1>1. pass = "int_column" /\ ~ failed
  BY DEF EndColumn, WalkColumn, Walking
<1>2. walks # <<>> /\ walks[1][1] = w /\ walks[1][2] = way
  OBVIOUS
<1>3. ColumnWalk(w, way)
  <2>1. PICK v \in AllTiles, d \in {Up, Down} : ColumnWalk(v, d)
    BY <1>1, <1>2 DEF WalkInv
  <2>2. walks = <<<<v, d>>>>
    BY <2>1 DEF ColumnWalk
  <2>3. walks[1][1] = v /\ walks[1][2] = d
    BY <2>2
  <2> QED
    BY <1>2, <2>1, <2>3
<1>4. CASE WalkColumn(w, way)
  <2>1. PICK n \in AllTiles : /\ ColumnWalk(n, way)' /\ InColumn(w, n) /\ Gains({n})
                              /\ seen' = seen \cup {w} /\ UNCHANGED <<failed, alias, pass, left>>
    BY <1>3, <1>4, ColumnWalkKeeps
  <2>2. walks' = <<<<n, way>>>>
    BY <2>1 DEF ColumnWalk
  <2>3. walks' # <<>> /\ walks'[1][1] = n
    BY <2>2
  <2>4. TidyInv' /\ BitsInv' /\ AliasInv' /\ FailInv'
    BY <1>1, <2>1, GainsInv, AliasStays DEF TidyInv, FailInv
  <2>5. WalkInv'
    BY <1>1, <2>1 DEF WalkInv
  <2>6. SweepInv("int_column", Ints)' /\ SweepInv("interface", Interfaces)'
    BY <1>1, <1>2, <2>1, <2>3, SweepMoves, SweepLeaves
  <2>7. Type(n) \in Ints => Seeded(n)
    <3> SUFFICES ASSUME Type(n) \in Ints PROVE Seeded(n)
      OBVIOUS
    <3>1. PICK t \in AllTiles : Type(t) \in Ints /\ bits[t] # {} /\ InColumn(w, t)
      BY <1>3 DEF ColumnWalk
    <3>2. InColumn(t, n)
      BY <2>1, <3>1, ColumnBack, ColumnOn
    <3>3. Seeded(t)
      BY <1>1, <3>1 DEF PairInv
    <3> QED
      BY <3>1, <3>2, <3>3, SeededAlong
  <2>8. PairInv' /\ DoneInv'
    BY <1>1, <2>1, <2>7, PairWalks
  <2> QED
    BY <2>4, <2>5, <2>6, <2>8
<1>5. CASE EndColumn(w, way)
  <2>1. /\ failed' = FALSE /\ seen' = seen \cup {w} /\ UNCHANGED <<bits, alias, pass, left>>
        /\ way = Down => ColumnWalk(w, Up)'
        /\ way = Up => walks' = <<>> /\ Complete(w)
    BY <1>3, <1>5, ColumnWalkEnds
  <2>2. Gains({})
    BY <2>1, GainsNothing
  <2>3. TidyInv' /\ BitsInv' /\ AliasInv' /\ FailInv'
    BY <1>1, <2>1, <2>2, GainsInv, AliasStays DEF TidyInv, FailInv
  <2>4. PairInv' /\ DoneInv'
    BY <1>1, <2>1, <2>2, PairWalks
  <2>5. SweepInv("interface", Interfaces)'
    BY <1>1, <2>1, SweepLeaves
  <2>6. CASE way = Down
    <3>1. walks' = <<<<w, Up>>>>
      BY <2>1, <2>6 DEF ColumnWalk
    <3>2. walks' # <<>> /\ walks'[1][1] = w
      BY <3>1
    <3>3. InColumn(w, w)
      BY <1>3, ColumnSame DEF ColumnWalk, BitsInv
    <3>4. SweepInv("int_column", Ints)'
      BY <1>2, <2>1, <2>2, <3>2, <3>3, SweepMoves
    <3>5. WalkInv'
      BY <1>1, <2>1, <2>6 DEF WalkInv
    <3> QED
      BY <2>3, <2>4, <2>5, <3>4, <3>5
  <2>7. CASE way = Up
    <3>1. SweepInv("int_column", Ints)'
      BY <1>2, <2>1, <2>7, SweepEnds
    <3>2. WalkInv'
      BY <2>1, <2>7 DEF WalkInv
    <3> QED
      BY <2>3, <2>4, <2>5, <3>1, <3>2
  <2> QED
    BY <2>6, <2>7
<1> QED
  BY <1>4, <1>5

\* Steps up a column of interfaces.
LEMMA GridUpWalks ==
  ASSUME GridInv, NEW w \in AllTiles, UpWalk(w), EndInterface(w, Up) \/ WalkInterface(w, Up)
  PROVE  GridInv'
<1> USE DEF GridInv
<1>1. pass = "interface" /\ ~ failed
  BY DEF EndInterface, WalkInterface, Walking
<1>2. walks = <<<<w, Up>>>> /\ Type(w) \in Interfaces
  BY DEF UpWalk
<1>3. walks # <<>> /\ walks[1][1] = w
  BY <1>2
<1>4. CASE WalkInterface(w, Up)
  <2>1. PICK n \in AllTiles : /\ UpWalk(n)' /\ InColumn(w, n) /\ Type(n) = Type(w) /\ Gains({n})
                              /\ seen' = seen \cup {w} /\ UNCHANGED <<failed, alias, pass, left>>
    BY <1>4, UpWalkKeeps
  <2>2. walks' = <<<<n, Up>>>>
    BY <2>1 DEF UpWalk
  <2>3. walks' # <<>> /\ walks'[1][1] = n
    BY <2>2
  <2>4. TidyInv' /\ BitsInv' /\ AliasInv' /\ FailInv'
    BY <1>1, <2>1, GainsInv, AliasStays DEF TidyInv, FailInv
  <2>5. WalkInv'
    BY <1>1, <2>1 DEF WalkInv
  <2>6. SweepInv("int_column", Ints)' /\ SweepInv("interface", Interfaces)'
    BY <1>1, <1>3, <2>1, <2>3, SweepMoves, SweepLeaves
  <2>7. Type(n) \notin Ints
    BY <1>2, <2>1, InterfaceApart DEF Ints
  <2>8. PairInv' /\ DoneInv'
    BY <1>1, <2>1, <2>7, PairWalks
  <2> QED
    BY <2>4, <2>5, <2>6, <2>8
<1>5. CASE EndInterface(w, Up)
  <2>1. /\ failed' = FALSE /\ seen' = seen \cup {w} /\ UNCHANGED <<bits, alias, pass, left>>
        /\ walks' = <<>> /\ Complete(w)
    BY <1>5, UpWalkEnds
  <2>2. Gains({})
    BY <2>1, GainsNothing
  <2>3. TidyInv' /\ BitsInv' /\ AliasInv' /\ FailInv'
    BY <1>1, <2>1, <2>2, GainsInv, AliasStays DEF TidyInv, FailInv
  <2>4. PairInv' /\ DoneInv'
    BY <1>1, <2>1, <2>2, PairWalks
  <2>5. SweepInv("int_column", Ints)' /\ SweepInv("interface", Interfaces)'
    BY <1>1, <1>3, <2>1, SweepEnds, SweepLeaves
  <2>6. WalkInv'
    BY <2>1 DEF WalkInv
  <2> QED
    BY <2>3, <2>4, <2>5, <2>6
<1> QED
  BY <1>4, <1>5

\* Steps down a column of interfaces.
LEMMA GridDownWalks ==
  ASSUME GridInv, NEW w \in AllTiles, NEW s \in AllTiles, DownWalk(s, w),
         EndInterface(s, Down) \/ WalkInterface(s, Down)
  PROVE  GridInv'
<1> USE DEF GridInv
<1>1. pass = "interface" /\ ~ failed
  BY DEF EndInterface, WalkInterface, Walking
<1>2. walks = <<<<s, Down>>, <<w, Up>>>> /\ Type(w) \in Interfaces /\ Type(s) \in Interfaces
  BY InterfaceApart DEF DownWalk, InColumn, FabricTypes, Ints, Hclks, HclkOf
<1>3. walks # <<>> /\ walks[1][1] = s
  BY <1>2
<1>4. CASE WalkInterface(s, Down)
  <2>1. PICK n \in AllTiles : /\ DownWalk(n, w)' /\ InColumn(s, n) /\ Type(n) = Type(s) /\ Gains({n})
                              /\ seen' = seen \cup {s} /\ UNCHANGED <<failed, alias, pass, left>>
    BY <1>4, DownWalkKeeps
  <2>2. walks' = <<<<n, Down>>, <<w, Up>>>>
    BY <2>1 DEF DownWalk
  <2>3. walks' # <<>> /\ walks'[1][1] = n
    BY <2>2
  <2>4. TidyInv' /\ BitsInv' /\ AliasInv' /\ FailInv'
    BY <1>1, <2>1, GainsInv, AliasStays DEF TidyInv, FailInv
  <2>5. WalkInv'
    BY <1>1, <2>1 DEF WalkInv
  <2>6. SweepInv("int_column", Ints)' /\ SweepInv("interface", Interfaces)'
    BY <1>1, <1>3, <2>1, <2>3, SweepMoves, SweepLeaves
  <2>7. Type(n) \notin Ints
    BY <1>2, <2>1, InterfaceApart DEF Ints
  <2>8. PairInv' /\ DoneInv'
    BY <1>1, <2>1, <2>7, PairWalks
  <2> QED
    BY <2>4, <2>5, <2>6, <2>8
<1>5. CASE EndInterface(s, Down)
  <2>1. /\ failed' = FALSE /\ seen' = seen \cup {s} /\ UNCHANGED <<bits, alias, pass, left>>
        /\ UpWalk(w)' /\ InColumn(s, w)
    BY <1>5, DownWalkEnds
  <2>2. Gains({})
    BY <2>1, GainsNothing
  <2>3. walks' = <<<<w, Up>>>>
    BY <2>1 DEF UpWalk
  <2>4. walks' # <<>> /\ walks'[1][1] = w
    BY <2>3
  <2>5. TidyInv' /\ BitsInv' /\ AliasInv' /\ FailInv'
    BY <1>1, <2>1, <2>2, GainsInv, AliasStays DEF TidyInv, FailInv
  <2>6. PairInv' /\ DoneInv'
    BY <1>1, <2>1, <2>2, PairWalks
  <2>7. SweepInv("int_column", Ints)' /\ SweepInv("interface", Interfaces)'
    BY <1>1, <1>3, <2>1, <2>2, <2>4, SweepMoves, SweepLeaves
  <2>8. WalkInv'
    BY <1>1, <2>1 DEF WalkInv
  <2> QED
    BY <2>5, <2>6, <2>7, <2>8
<1> QED
  BY <1>4, <1>5

\* A pass after those has no part in it.
LEMMA GridLends ==
  ASSUME GridInv, NEW t \in NextTile, NEW p \in Later, Reaches(p, t), LendingStep
  PROVE  GridInv'
<1> USE DEF GridInv
<1>1. pass = p /\ pass' = p /\ ~ failed /\ walks = <<>> /\ UNCHANGED walks
  BY NextTileWanted DEF Reaches, LendingStep, TidyInv
<1>2. pass \notin {"add_tdb", "int_lr", "int_column", "interface"}
  BY <1>1 DEF Later
<1>3. TidyInv'
  BY <1>1, <1>2, ReachesOn DEF TidyInv
<1>4. WalkInv' /\ SweepInv("int_column", Ints)' /\ SweepInv("interface", Interfaces)'
  BY <1>1, <1>2, SweepLeaves DEF WalkInv
<1>5. CASE UNCHANGED failed /\ \E S : Gains(S) /\ S \cap Walked = {} /\ Lends(S)
  <2>1. PICK S : Gains(S) /\ S \cap Walked = {} /\ Lends(S)
    BY <1>5
  <2>2. \A n \in S : Type(n) \notin Ints /\ Type(n) \notin Interfaces
    BY <2>1, GainsKeep DEF Walked
  <2>3. BitsInv' /\ AliasInv' /\ FailInv'
    BY <1>1, <1>5, <2>1, GainsInv, AliasKeeps DEF FailInv
  <2>4. DoneInv'
    BY <1>1, <1>2, <2>1, <2>2, DoneKeeps DEF DoneInv
  <2>5. ASSUME NEW u \in AllTiles, Type(u) \in Ints, bits'[u] # {} PROVE Mirrored(u)'
    <3>1. bits[u] # {}
      BY <2>1, <2>2, <2>5, GainsKeep
    <3> QED
      BY <1>1, <2>1, <2>5, <3>1, MirroredKeeps DEF PairInv
  <2>6. PairInv'
    BY <1>1, <1>2, <2>5 DEF PairInv
  <2> QED
    BY <1>3, <1>4, <2>3, <2>4, <2>6
<1>6. CASE Lacks /\ UNCHANGED alias
  <2>1. UNCHANGED bits /\ \E u \in AllTiles : Indispensable(u) /\ bits[u] = {}
    BY <1>6 DEF Lacks
  <2>2. Gains({})
    BY <2>1, GainsNothing
  <2>3. BitsInv' /\ AliasInv'
    BY <1>6, <2>2, GainsInv, AliasStays
  <2>4. \A u : Indispensable(u) => Indispensable(u)'
    BY <1>1, <1>2 DEF Indispensable, Wanted
  <2>5. FailInv'
    BY <1>1, <1>2, <2>1, <2>4 DEF FailInv
  <2>6. PairInv' /\ DoneInv'
    BY <1>1, <1>2, <2>1 DEF PairInv, DoneInv, ColumnsDone, Complete, Mirrored
  <2> QED
    BY <1>3, <1>4, <2>3, <2>5, <2>6
<1> QED
  BY <1>5, <1>6 DEF LendingStep

\* Nothing happens.
LEMMA GridStutter == ASSUME GridInv, UNCHANGED fullVars PROVE GridInv'
<1> USE DEF fullVars, GridInv
<1>1. TidyInv' /\ BitsInv' /\ AliasInv'
  BY DEF TidyInv, BitsInv, AliasInv, AliasTyped
<1>2. FailInv'
  BY DEF FailInv, Indispensable, Wanted
<1>3. \A w, way : ColumnWalk(w, way) => ColumnWalk(w, way)'
  BY DEF ColumnWalk, Behind
<1>4. \A w, s : (UpWalk(w) => UpWalk(w)') /\ (DownWalk(s, w) => DownWalk(s, w)')
  BY DEF UpWalk, DownWalk, Behind, Spanned
<1>5. WalkInv'
  BY <1>3, <1>4 DEF WalkInv
<1>6. SweepInv("int_column", Ints)' /\ SweepInv("interface", Interfaces)'
  BY DEF SweepInv, Pending, Complete, OnWalk
<1>7. PairInv' /\ DoneInv'
  BY DEF PairInv, Pending, Mirrored, Seeded, DoneInv, ColumnsDone, Complete
<1> QED
  BY <1>1, <1>2, <1>5, <1>6, <1>7

\* Every step keeps the invariant.
LEMMA GridNext == GridInv /\ [FullNext]_fullVars => GridInv'
<1> SUFFICES ASSUME GridInv, [FullNext]_fullVars PROVE GridInv'
  OBVIOUS
<1>1. CASE UNCHANGED fullVars
  BY <1>1, GridStutter
<1>2. CASE AddTdb
  BY <1>2, GridAddTdb
<1>3. CASE NextPass
  BY <1>3, GridNextPass
<1>4. ASSUME NEW t \in NextTile,
             \/ LeftRight(t) \/ StartWalk(t) \/ Rebuf(t) \/ HalveIob(t) \/ HalveIoi(t)
             \/ IoiY9(t) \/ CfgCenterMid(t) \/ AliasHclk(t)
      PROVE  GridInv'
  <2>0. BitsInv /\ AliasTyped /\ left \in Seq(AllTiles)
    BY DEF GridInv, AliasInv, TidyInv
  <2>1. CASE LeftRight(t)
    BY <2>1, GridLeftRight
  <2>2. CASE StartWalk(t)
    BY <2>2, GridStartWalk
  <2>3. CASE Rebuf(t)
    <3>1. LendingStep
      BY <2>0, <2>3, RebufStep, LaterLends
    <3> QED
      BY <2>3, <3>1, GridLends DEF Rebuf, Later
  <2>4. CASE HalveIob(t) \/ HalveIoi(t)
    <3>1. LendingStep
      BY <2>0, <2>4, HalvesStep
    <3> QED
      BY <2>4, <3>1, GridLends DEF HalveIob, HalveIoi, Halve, Later
  <2>5. CASE IoiY9(t)
    <3>1. LendingStep
      BY <2>0, <2>5, Y9Step, LaterLends
    <3> QED
      BY <2>5, <3>1, GridLends DEF IoiY9, Later
  <2>6. CASE CfgCenterMid(t)
    <3>1. LendingStep
      BY <2>0, <2>6, CfgStep, LaterLends
    <3> QED
      BY <2>6, <3>1, GridLends DEF CfgCenterMid, Later
  <2>7. CASE AliasHclk(t)
    <3>1. LendingStep
      BY <2>0, <2>7, AliasStep
    <3> QED
      BY <2>7, <3>1, GridLends DEF AliasHclk, Later
  <2> QED
    BY <1>4, <2>1, <2>2, <2>3, <2>4, <2>5, <2>6, <2>7
<1>5. ASSUME NEW w, NEW way, w = walks[1][1], way = walks[1][2], walks # <<>>,
             \/ EndColumn(w, way) \/ WalkColumn(w, way)
             \/ EndInterface(w, way) \/ WalkInterface(w, way)
      PROVE  GridInv'
  <2>1. CASE pass = "int_column"
    <3>1. PICK v \in AllTiles, d \in {Up, Down} : ColumnWalk(v, d)
      BY <1>5, <2>1 DEF GridInv, WalkInv
    <3>2. walks = <<<<v, d>>>>
      BY <3>1 DEF ColumnWalk
    <3>3. w = v /\ way = d
      BY <1>5, <3>2
    <3>4. EndColumn(v, d) \/ WalkColumn(v, d)
      BY <1>5, <2>1, <3>3 DEF EndInterface, WalkInterface, Walking
    <3> QED
      BY <3>2, <3>4, GridColumnWalks
  <2>2. CASE pass = "interface"
    <3>1. EndInterface(w, way) \/ WalkInterface(w, way)
      BY <1>5, <2>2 DEF EndColumn, WalkColumn, Walking
    <3>2. PICK v \in AllTiles : UpWalk(v) \/ \E s \in AllTiles : DownWalk(s, v)
      BY <1>5, <2>2 DEF GridInv, WalkInv
    <3>3. CASE UpWalk(v)
      <4>1. walks = <<<<v, Up>>>>
        BY <3>3 DEF UpWalk
      <4>2. w = v /\ way = Up
        BY <1>5, <4>1
      <4> QED
        BY <3>1, <3>3, <4>2, GridUpWalks
    <3>4. ASSUME NEW s \in AllTiles, DownWalk(s, v) PROVE GridInv'
      <4>1. walks = <<<<s, Down>>, <<v, Up>>>>
        BY <3>4 DEF DownWalk
      <4>2. w = s /\ way = Down
        BY <1>5, <4>1
      <4> QED
        BY <3>1, <3>4, <4>2, GridDownWalks
    <3> QED
      BY <3>2, <3>3, <3>4
  <2> QED
    BY <1>5, <2>1, <2>2 DEF GridInv, TidyInv
<1>6. CASE \E i \in DOMAIN walks : i = 1 /\
             LET t == walks[1][1]
                 way == walks[1][2]
             IN  \/ EndColumn(t, way) \/ WalkColumn(t, way)
                 \/ EndInterface(t, way) \/ WalkInterface(t, way)
  <2>1. walks # <<>>
    BY <1>6
  <2> QED
    BY <1>5, <1>6, <2>1
<1> QED
  BY <1>1, <1>2, <1>3, <1>4, <1>6 DEF FullNext
\* The invariant holds throughout.
LEMMA GridAlways == FullSpec => []GridInv
BY GridInit, GridNext, PTL DEF FullSpec

\* Whichever tiles of a column were solved, in whichever order the passes of
\* generate_full.py come to them, every tile ends with the bits of the silicon or
\* with none, all of a column alike, and an assertion fails only where the tile
\* that a pass starts from was not solved.
THEOREM SiliconAlwaysPropagated == FullSpec => []PropagatesSilicon
<1>1. ASSUME GridInv PROVE PropagatesSilicon
  <2> USE <1>1 DEF GridInv
  <2>1. failed => \E t \in AllTiles : Indispensable(t) /\ bits[t] = {}
    BY DEF FailInv
  <2>2. \A t \in AllTiles : bits[t] # {} => t \in DOMAIN Silicon /\ bits[t] = {Silicon[t]}
    BY DEF BitsInv
  <2>3. ASSUME pass = "done", NEW t \in DOMAIN Silicon, NEW u \in DOMAIN Silicon, Kin(t, u), bits[t] # {}
        PROVE  bits[u] # {}
    <3>1. t \in AllTiles /\ u \in AllTiles
      BY SiliconTiles
    <3>2. CASE Type(t) = Type(u) /\ Type(t) \in Ints \cup Interfaces /\ Silicon[t].base = Silicon[u].base
      <4>1. InColumn(t, u)
        BY <3>2 DEF InColumn, FabricTypes
      <4>2. Complete(t)
        BY <2>3, <3>1, <3>2 DEF DoneInv, ColumnsDone, Later
      <4> QED
        BY <4>1, <4>2 DEF Complete
    <3>3. CASE {Type(t), Type(u)} = Ints /\ u \in Lateral(t)
      <4>1. Type(t) \in Ints
        BY <3>3
      <4> QED
        BY <2>3, <3>1, <3>3, <4>1 DEF PairInv, Mirrored, Later
    <3> QED
      BY <2>3, <3>2, <3>3 DEF Kin
  <2>4. ASSUME NEW t \in DOMAIN Silicon, NEW u \in DOMAIN Silicon, Kin(t, u) PROVE Kin(u, t)
    <3>1. CASE {Type(t), Type(u)} = Ints /\ u \in Lateral(t)
      <4>1. Type(t) \in Ints /\ t \in AllTiles
        BY <3>1, SiliconTiles
      <4>2. t \in Lateral(u)
        BY <3>1, <4>1, LateralBack
      <4> QED
        BY <3>1, <4>2 DEF Kin
    <3> QED
      BY <2>4, <3>1 DEF Kin
  <2>5. pass = "done" => \A t, u \in DOMAIN Silicon : Kin(t, u) => (bits[t] = {} <=> bits[u] = {})
    BY <2>3, <2>4
  <2> QED
    BY <2>1, <2>2, <2>5 DEF PropagatesSilicon
<1> QED
  BY <1>1, GridAlways, PTL

\* A tile with an alias finds each feature of the other type in its own words of
\* the frame, and none of the words that it does not have, and has it written there.
THEOREM HalvesAlwaysHome == FullSpec => []HalvesStayHome
<1>1. ASSUME GridInv PROVE HalvesStayHome
  <2> SUFFICES ASSUME NEW t \in AllTiles, AliasOf(t) # {}, NEW w \in 0..3
               PROVE  /\ WordsSeen(t, w) = IF w \in DOMAIN Lent[t] THEN {Lent[t][w]} ELSE {}
                      /\ w \in DOMAIN Lent[t] => WordsWritten(t, w) = WordsSeen(t, w)
    BY DEF HalvesStayHome
  <2>1. AliasOf(t) = alias[t] /\ alias[t] # {}
    BY DEF AliasOf
  <2>2. PICK a : alias[t] = {a} /\ Home(t, a.start_offset)
    BY <1>1, <2>1 DEF GridInv, AliasInv
  <2>3. bits[t] = {Silicon[t]}
    BY <1>1, <2>1 DEF GridInv, AliasInv, BitsInv
  <2> DEFINE b == Silicon[t]
  <2>4. WordsSeen(t, w) = {x[1].offset - x[2].start_offset + w :
           x \in {y \in {b} \X {a} : w - y[2].start_offset \in 0..(y[1].words - 1)}}
    BY <2>1, <2>2, <2>3 DEF WordsSeen
  <2>5. {y \in {b} \X {a} : w - y[2].start_offset \in 0..(y[1].words - 1)}
        = IF w - a.start_offset \in 0..(b.words - 1) THEN {<<b, a>>} ELSE {}
    OBVIOUS
  <2>6. WordsSeen(t, w) = IF w - a.start_offset \in 0..(b.words - 1)
                          THEN {b.offset - a.start_offset + w} ELSE {}
    <3> HIDE DEF b
    <3>1. CASE w - a.start_offset \in 0..(b.words - 1)
      <4> DEFINE seen1 == {y \in {b} \X {a} : w - y[2].start_offset \in 0..(y[1].words - 1)}
      <4>1. seen1 = {<<b, a>>}
        BY <2>5, <3>1
      <4> HIDE DEF seen1
      <4>2. {x[1].offset - x[2].start_offset + w : x \in seen1}
            = {<<b, a>>[1].offset - <<b, a>>[2].start_offset + w}
        BY <4>1
      <4>3. <<b, a>>[1] = b /\ <<b, a>>[2] = a
        OBVIOUS
      <4> QED
        BY <2>4, <3>1, <4>2, <4>3 DEF seen1
    <3>2. CASE ~ (w - a.start_offset \in 0..(b.words - 1))
      BY <2>4, <2>5, <3>2
    <3> QED
      BY <3>1, <3>2
  <2>7. WordsSeen(t, w) = IF w \in DOMAIN Lent[t] THEN {Lent[t][w]} ELSE {}
    BY <2>2, <2>6 DEF Home
  <2>8. WordsWritten(t, w) = {b.offset - a.start_offset + w}
    <3> HIDE DEF b
    <3>1. WordsWritten(t, w) = {x[1].offset - x[2].start_offset + w : x \in {<<b, a>>}}
      BY <2>1, <2>2, <2>3 DEF WordsWritten, b
    <3> QED
      BY <3>1
  <2> QED
    BY <2>6, <2>7, <2>8
<1> QED
  BY <1>1, GridAlways, PTL
=============================================================================
