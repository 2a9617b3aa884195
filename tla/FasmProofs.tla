------------------------------ MODULE FasmProofs ------------------------------
(***************************************************************************)
(* The properties of FasmAssembler, FasmDisassembler, FasmRoundTrip and    *)
(* Fasm2Frames for any part, database, FASM file and bitstream.            *)
(***************************************************************************)
EXTENDS Fasm2Frames, NaturalsInduction, WellFoundedInduction, TLAPS

\* Where the bits of a feature are.
LEMMA BitsFit ==
  ASSUME SegbitsFit, NEW s \in Segments, NEW n \in Names(s),
         NEW k \in Ones(s, n) \cup Zeros(s, n)
  PROVE  k \in Bits /\ k[1] \in FramesOf(s) /\ k[2] \in WordsOf(s)
<1> DEFINE b == TileBits[s[1]][s[2]]
           segbits == Segbits[s[1]][s[2]][n]
<1>1. s[1] \in Tiles /\ s[2] \in DOMAIN TileBits[s[1]] /\ s[2] \in DOMAIN Segbits[s[1]]
      /\ n \in DOMAIN Segbits[s[1]][s[2]]
  BY DEF Segments, Names
<1>2. b \in [base_address : Nat, frames : Nat, offset : Nat, words : Nat]
  BY <1>1, TileSegbitsAssumption DEF TileSegbitsAssumption
<1>3. segbits \subseteq [column : Nat, word : Nat, index : Nat, isset : BOOLEAN]
  BY <1>1, TileSegbitsAssumption DEF TileSegbitsAssumption
<1>4. PICK bit \in segbits : k = Key(s, bit)
  BY DEF Ones, Zeros
<1>5. bit.column < b.frames /\ bit.word < b.words
  BY <1>1, <1>4 DEF SegbitsFit
<1>6. k = <<b.base_address + bit.column, b.offset + bit.word, bit.index>>
  BY <1>4 DEF Key
<1>7. bit.column \in Nat /\ bit.word \in Nat /\ bit.index \in Nat
  BY <1>3, <1>4
<1>8. FramesOf(s) = b.base_address .. (b.base_address + b.frames - 1)
      /\ WordsOf(s) = b.offset .. (b.offset + b.words - 1)
  BY DEF FramesOf, WordsOf
<1>9. b.base_address \in Nat /\ b.frames \in Nat /\ b.offset \in Nat /\ b.words \in Nat
  BY <1>2
<1> HIDE DEF b
<1>10. k[1] = b.base_address + bit.column /\ k[2] = b.offset + bit.word
  BY <1>6
<1>11. b.base_address + bit.column \in Nat /\ b.offset + bit.word \in Nat
  BY <1>7, <1>9
<1>12. k \in Bits
  BY <1>6, <1>7, <1>11 DEF Bits
<1>13. /\ b.base_address + bit.column \in b.base_address .. (b.base_address + b.frames - 1)
       /\ b.offset + bit.word \in b.offset .. (b.offset + b.words - 1)
  BY <1>5, <1>7, <1>9
<1> QED
  BY <1>8, <1>10, <1>12, <1>13
-----------------------------------------------------------------------------
\* Type correctness of the disassembler.

\* DisTypeOK, and that nothing is there before the bitstream is loaded.
DisTypeInv ==
  /\ DisTypeOK
  /\ pc = "load" => /\ original = {} /\ solved_bitdata = {} /\ unknown = {}
                    /\ tiles_checked = {} /\ emitted = {} /\ frames_left = {}
                    /\ segments_left = {}

LEMMA DisTypeInit == DisInit => DisTypeInv
BY DEF DisInit, DisTypeInv, DisTypeOK, FramesWithData

LEMMA DisTypeLoad ==
  ASSUME DisTypeInv, pc = "load", NEW data, data \subseteq Bits, Load(data)
  PROVE  DisTypeInv'
<1>1. segments_left' = {} /\ frame' \in Nat /\ solved_bitdata' = {} /\ tiles_checked' = {}
      /\ emitted' = {} /\ unknown' = {} /\ original' = data /\ bitdata' = data
      /\ frames_left' = FramesWithData(data) /\ pc' \in {"pop", "done"}
  BY DEF DisTypeInv, DisTypeOK, Load
<1> QED
  BY <1>1 DEF DisTypeInv, DisTypeOK, FramesWithData, SegmentsAt

LEMMA DisTypeStep == ASSUME DisTypeInv, DisStep PROVE DisTypeInv'
<1> USE DEF DisTypeInv, DisTypeOK
<1>1. CASE \E f \in frames_left : PopFrame(f)
  <2>1. PICK f \in frames_left : PopFrame(f)
    BY <1>1
  <2>2. f \in Nat
    BY <2>1 DEF FramesWithData, Bits
  <2> QED
    BY <2>1, <2>2 DEF PopFrame, FramesWithData, SegmentsAt
<1>2. CASE \E s \in segments_left : SkipTile(s)
  BY <1>2 DEF SkipTile, FramesWithData, SegmentsAt
<1>3. CASE \E s \in segments_left : CheckTile(s)
  <2>1. PICK s \in segments_left : CheckTile(s)
    BY <1>3
  <2> DEFINE matching == {name \in Names(s) : Matches(s, name, bitdata)}
  <2>2. /\ solved_bitdata' = solved_bitdata \cup UNION {Ones(s, n) : n \in matching}
        /\ emitted' = emitted \cup {<<s, n>> : n \in matching}
        /\ tiles_checked' = tiles_checked \cup {s}
        /\ segments_left' = segments_left \ {s}
        /\ UNCHANGED <<original, bitdata, frames_left, frame, unknown, pc>>
        /\ pc = "tiles"
    BY <2>1 DEF CheckTile
  <2>3. \A n \in matching : Ones(s, n) \subseteq original
    BY DEF Matches
  <2>4. solved_bitdata' \subseteq original'
    BY <2>2, <2>3
  <2>5. s \in Segments
    BY <2>1 DEF SegmentsAt
  <2>6. \A e \in emitted' : e[1] \in tiles_checked' /\ e[2] \in Names(e[1])
    BY <2>2
  <2> QED
    BY <2>2, <2>4, <2>5, <2>6 DEF FramesWithData, SegmentsAt
<1>4. CASE EndFrame
  BY <1>4 DEF EndFrame, FramesWithData, SegmentsAt
<1> QED
  BY <1>1, <1>2, <1>3, <1>4, DisStep DEF DisStep

\* DisTypeOK holds for any database and any bitstreams.
THEOREM DisTypeCorrect == DisSpec => []DisTypeOK
<1>1. DisTypeInv /\ [DisNext]_disVars => DisTypeInv'
  <2> SUFFICES ASSUME DisTypeInv, [DisNext]_disVars PROVE DisTypeInv'
    OBVIOUS
  <2>1. CASE \E data \in Bitstreams : pc = "load" /\ Load(data)
    BY <2>1, DisTypeLoad, FasmDisassemblerAssumption DEF FasmDisassemblerAssumption
  <2>2. CASE DisStep
    BY <2>2, DisTypeStep
  <2>3. CASE DisReturn \/ UNCHANGED disVars
    BY <2>3 DEF DisReturn, disVars, DisTypeInv, DisTypeOK
  <2> QED
    BY <2>1, <2>2, <2>3 DEF DisNext
<1>2. DisTypeInv => DisTypeOK
  BY DEF DisTypeInv
<1> QED
  BY DisTypeInit, <1>1, <1>2, PTL DEF DisSpec
-----------------------------------------------------------------------------
\* What the disassembler finds.

\* The frames that were taken and dealt with.
Processed ==
  (FramesWithData(original) \ frames_left) \ (IF pc = "tiles" THEN {frame} ELSE {})

HasData(s, f) == \E k \in original : k[1] = f /\ k[2] \in WordsOf(s)

\* Bits are taken out of the data only where they are solved and only in frames
\* that are dealt with.
RemovedBits ==
  \A k \in original : k \notin bitdata => k \in solved_bitdata /\ k[1] \in Processed

\* A tile that was not looked at has no data in the frames dealt with, so that
\* none of the bits that were taken out is one of its own.
Unchecked ==
  \A s \in Segments \ tiles_checked :
    /\ \A f \in FramesOf(s) \cap Processed : ~ HasData(s, f)
    /\ pc = "tiles" /\ frame \in FramesOf(s) /\ s \notin segments_left => ~ HasData(s, frame)

\* A tile that was looked at has data, and was matched as if with all of it.
Checked ==
  \A s \in tiles_checked :
    /\ \E f \in FramesOf(s) : HasData(s, f)
    /\ \A n \in Names(s) : <<s, n>> \in emitted <=> Matches(s, n, original)

\* What is solved and what is unknown follow from what was emitted.
Accounted ==
  /\ \A e \in emitted : e = <<e[1], e[2]>>
  /\ solved_bitdata = UNION {Ones(e[1], e[2]) : e \in emitted}
  /\ unknown = {k \in original : k[1] \in Processed /\ k \notin solved_bitdata}

AtHand ==
  /\ pc = "tiles" => frame \in FramesWithData(original) \ frames_left
  /\ pc = "done" => frames_left = {}

DisInv ==
  DisTypeInv /\ RemovedBits /\ Unchecked /\ Checked /\ Accounted /\ AtHand

LEMMA DisInvInit == DisInit => DisInv
BY DisTypeInit
   DEF DisInit, DisInv, RemovedBits, Unchecked, Checked, Accounted, AtHand, Processed,
       FramesWithData

LEMMA DisInvLoad ==
  ASSUME DisInv, pc = "load", NEW data, data \subseteq Bits, Load(data)
  PROVE  DisInv'
<1>1. DisTypeInv'
  BY DisTypeLoad DEF DisInv
<1>2. /\ solved_bitdata = {} /\ unknown = {} /\ tiles_checked = {} /\ emitted = {}
      /\ UNCHANGED <<solved_bitdata, unknown, tiles_checked, emitted>>
      /\ original' = data /\ bitdata' = data /\ frames_left' = FramesWithData(data)
      /\ pc' \in {"pop", "done"} /\ (pc' = "done" => FramesWithData(data) = {})
  BY DEF DisInv, DisTypeInv, Load, FramesWithData
<1>3. Processed' = {}
  BY <1>2 DEF Processed, FramesWithData
<1>4. RemovedBits' /\ Unchecked' /\ Checked'
  BY <1>2, <1>3 DEF RemovedBits, Unchecked, Checked
<1>5. Accounted'
  BY <1>2, <1>3 DEF Accounted
<1>6. AtHand'
  BY <1>2 DEF AtHand
<1> QED
  BY <1>1, <1>4, <1>5, <1>6 DEF DisInv

LEMMA DisInvPopFrame ==
  ASSUME DisInv, NEW f \in frames_left, PopFrame(f), DisTypeInv'
  PROVE  DisInv'
<1>1. /\ pc = "pop" /\ pc' = "tiles" /\ frame' = f /\ frames_left' = frames_left \ {f}
      /\ segments_left' = SegmentsAt(f)
      /\ UNCHANGED <<original, bitdata, solved_bitdata, tiles_checked, emitted, unknown>>
  BY DEF PopFrame
<1>2. Processed' = Processed
  BY <1>1 DEF Processed, FramesWithData
<1>3. RemovedBits' /\ Checked' /\ Accounted'
  BY <1>1, <1>2 DEF DisInv, RemovedBits, Checked, Accounted, HasData
<1>4. Unchecked'
  BY <1>1, <1>2 DEF DisInv, Unchecked, HasData, SegmentsAt
<1>5. AtHand'
  BY <1>1 DEF AtHand, FramesWithData, DisInv, DisTypeInv, DisTypeOK
<1> QED
  BY <1>3, <1>4, <1>5 DEF DisInv

LEMMA DisInvSkipTile ==
  ASSUME DisInv, NEW s \in segments_left, SkipTile(s), DisTypeInv'
  PROVE  DisInv'
<1>1. /\ pc = "tiles" /\ (s \in tiles_checked \/ ~ HasData(s, frame))
      /\ segments_left' = segments_left \ {s}
      /\ UNCHANGED <<original, bitdata, frames_left, frame, solved_bitdata, tiles_checked,
                     emitted, unknown, pc>>
  BY DEF SkipTile, AnyColumn, HasData
<1>2. Processed' = Processed
  BY <1>1 DEF Processed, FramesWithData
<1>3. RemovedBits' /\ Checked' /\ Accounted' /\ AtHand'
  BY <1>1, <1>2 DEF DisInv, RemovedBits, Checked, Accounted, AtHand, HasData, FramesWithData
<1>4. Unchecked'
  BY <1>1, <1>2 DEF DisInv, Unchecked, HasData
<1> QED
  BY <1>3, <1>4 DEF DisInv

LEMMA DisInvCheckTile ==
  ASSUME SegbitsFit, DisInv, NEW s \in segments_left, CheckTile(s), DisTypeInv'
  PROVE  DisInv'
<1> DEFINE matching == {name \in Names(s) : Matches(s, name, bitdata)}
<1>1. /\ pc = "tiles" /\ s \notin tiles_checked /\ HasData(s, frame)
      /\ solved_bitdata' = solved_bitdata \cup UNION {Ones(s, n) : n \in matching}
      /\ emitted' = emitted \cup {<<s, n>> : n \in matching}
      /\ tiles_checked' = tiles_checked \cup {s}
      /\ segments_left' = segments_left \ {s}
      /\ UNCHANGED <<original, bitdata, frames_left, frame, unknown, pc>>
  BY DEF CheckTile, AnyColumn, HasData
<1>2. Processed' = Processed
  BY <1>1 DEF Processed, FramesWithData
<1>3. s \in Segments /\ frame \in FramesOf(s)
  BY DEF DisInv, DisTypeInv, DisTypeOK, SegmentsAt
<1>4. ASSUME NEW n \in Names(s), NEW k \in Ones(s, n) \cup Zeros(s, n), k \in original
      PROVE  k[1] \notin Processed /\ k \in bitdata
  <2>1. k[1] \in FramesOf(s) /\ k[2] \in WordsOf(s)
    BY <1>3, <1>4, BitsFit
  <2>2. HasData(s, k[1])
    BY <1>4, <2>1 DEF HasData
  <2>3. k[1] \notin Processed
    BY <1>1, <1>3, <2>1, <2>2 DEF DisInv, Unchecked
  <2> QED
    BY <1>4, <2>3 DEF DisInv, RemovedBits
<1>5. bitdata \subseteq original
  BY DEF DisInv, DisTypeInv, DisTypeOK
<1>6. \A n \in Names(s) : n \in matching <=> Matches(s, n, original)
  <2> SUFFICES ASSUME NEW n \in Names(s)
               PROVE  Matches(s, n, bitdata) <=> Matches(s, n, original)
    OBVIOUS
  <2>1. \A k \in Ones(s, n) \cup Zeros(s, n) : k \in bitdata <=> k \in original
    BY <1>4, <1>5
  <2> QED
    BY <2>1 DEF Matches
<1>7. \A n \in matching : \A k \in Ones(s, n) : k \in original /\ k[1] \notin Processed
  <2> SUFFICES ASSUME NEW n \in matching, NEW k \in Ones(s, n)
               PROVE  k \in original /\ k[1] \notin Processed
    OBVIOUS
  <2>1. k \in original
    BY <1>5 DEF Matches
  <2> QED
    BY <1>4, <2>1
<1>8. RemovedBits'
  BY <1>1, <1>2 DEF DisInv, RemovedBits
<1>9. Unchecked'
  BY <1>1, <1>2 DEF DisInv, Unchecked, HasData
<1>10. Checked'
  <2> SUFFICES ASSUME NEW t \in tiles_checked'
               PROVE  /\ \E f \in FramesOf(t) : HasData(t, f)
                      /\ \A n \in Names(t) : <<t, n>> \in emitted' <=> Matches(t, n, original)
    BY <1>1 DEF Checked, HasData
  <2>1. CASE t = s
    <3>1. \A n \in Names(s) : <<s, n>> \notin emitted
      BY <1>1 DEF DisInv, DisTypeInv, DisTypeOK
    <3>2. \A n \in Names(s) : <<s, n>> \in emitted' <=> n \in matching
      BY <1>1, <3>1
    <3> QED
      BY <2>1, <3>2, <1>1, <1>3, <1>6
  <2>2. CASE t # s
    <3>1. t \in tiles_checked
      BY <1>1, <2>2
    <3>2. \A n \in Names(t) : <<t, n>> \in emitted' <=> <<t, n>> \in emitted
      BY <1>1, <2>2
    <3> QED
      BY <3>1, <3>2 DEF DisInv, Checked
  <2> QED
    BY <2>1, <2>2
<1>11. Accounted'
  <2>1. \A e \in emitted' : e = <<e[1], e[2]>>
    BY <1>1 DEF DisInv, Accounted
  <2>2. solved_bitdata' = UNION {Ones(e[1], e[2]) : e \in emitted'}
    <3>1. solved_bitdata = UNION {Ones(e[1], e[2]) : e \in emitted}
      BY DEF DisInv, Accounted
    <3>2. ASSUME NEW k \in solved_bitdata'
          PROVE  \E e \in emitted' : k \in Ones(e[1], e[2])
      <4>1. CASE k \in solved_bitdata
        BY <4>1, <3>1, <1>1
      <4>2. CASE \E n \in matching : k \in Ones(s, n)
        <5>1. PICK n \in matching : k \in Ones(s, n)
          BY <4>2
        <5>2. <<s, n>> \in emitted'
          BY <1>1
        <5> QED
          BY <5>1, <5>2
      <4> QED
        BY <1>1, <3>2, <4>1, <4>2
    <3>3. ASSUME NEW e \in emitted', NEW k \in Ones(e[1], e[2])
          PROVE  k \in solved_bitdata'
      <4>1. CASE e \in emitted
        BY <4>1, <3>1, <3>3, <1>1
      <4>2. CASE \E n \in matching : e = <<s, n>>
        BY <4>2, <3>3, <1>1
      <4> QED
        BY <1>1, <4>1, <4>2
    <3> HIDE DEF matching
    <3> QED
      BY <3>2, <3>3
  <2>3. unknown' = {k \in original' : k[1] \in Processed' /\ k \notin solved_bitdata'}
    BY <1>1, <1>2, <1>7 DEF DisInv, Accounted
  <2> QED
    BY <2>1, <2>2, <2>3 DEF Accounted
<1>12. AtHand'
  BY <1>1 DEF DisInv, AtHand, FramesWithData
<1> QED
  BY <1>8, <1>9, <1>10, <1>11, <1>12 DEF DisInv

LEMMA DisInvEndFrame ==
  ASSUME DisInv, EndFrame, DisTypeInv'
  PROVE  DisInv'
<1>1. /\ pc = "tiles" /\ segments_left = {}
      /\ bitdata' = {k \in bitdata : k[1] = frame => k \notin solved_bitdata}
      /\ unknown' = unknown \cup {k \in bitdata' : k[1] = frame}
      /\ pc' \in {"pop", "done"} /\ (pc' = "done" => frames_left = {})
      /\ UNCHANGED <<original, frames_left, frame, segments_left, solved_bitdata,
                     tiles_checked, emitted>>
  BY DEF EndFrame
<1>2. Processed' = Processed \cup {frame}
  BY <1>1 DEF DisInv, AtHand, Processed, FramesWithData
<1>3. RemovedBits'
  BY <1>1, <1>2 DEF DisInv, RemovedBits
<1>4. Unchecked'
  BY <1>1, <1>2 DEF DisInv, Unchecked, HasData
<1>5. Checked'
  BY <1>1 DEF DisInv, Checked, HasData
<1>6. frame \notin Processed
  BY <1>1 DEF Processed
<1>7. {k \in bitdata' : k[1] = frame} =
        {k \in original : k[1] = frame /\ k \notin solved_bitdata}
  BY <1>1, <1>6 DEF DisInv, RemovedBits, DisTypeInv, DisTypeOK
<1>8. Accounted'
  BY <1>1, <1>2, <1>7 DEF DisInv, Accounted
<1>9. AtHand'
  BY <1>1 DEF AtHand
<1> QED
  BY <1>3, <1>4, <1>5, <1>8, <1>9 DEF DisInv

LEMMA DisInvStep == ASSUME SegbitsFit, DisInv, DisStep PROVE DisInv'
<1>1. DisTypeInv'
  BY DisTypeStep DEF DisInv
<1> QED
  BY <1>1, DisInvPopFrame, DisInvSkipTile, DisInvCheckTile, DisInvEndFrame DEF DisStep

LEMMA DisInvUnchanged == ASSUME DisInv, UNCHANGED disVars PROVE DisInv'
BY DEF disVars, DisInv, DisTypeInv, DisTypeOK, RemovedBits, Unchecked, Checked, Accounted,
       AtHand, Processed, HasData

LEMMA DisInvDone ==
  ASSUME DisInv, pc = "done"
  PROVE  emitted = FeaturesOf(original)
         /\ unknown = original \ UNION {Ones(e[1], e[2]) : e \in emitted}
<1>1. Processed = FramesWithData(original)
  BY DEF DisInv, AtHand, Processed
<1>2. \A k \in original : k[1] \in Processed
  BY <1>1 DEF FramesWithData
<1>3. unknown = original \ UNION {Ones(e[1], e[2]) : e \in emitted}
  BY <1>2 DEF DisInv, Accounted
<1>4. ASSUME NEW e \in emitted PROVE e \in FeaturesOf(original)
  <2>1. e[1] \in tiles_checked /\ e[2] \in Names(e[1]) /\ e = <<e[1], e[2]>> /\ e[1] \in Segments
    BY DEF DisInv, DisTypeInv, DisTypeOK, Accounted
  <2>2. Matches(e[1], e[2], original) /\ \E f \in FramesOf(e[1]) : HasData(e[1], f)
    BY <2>1 DEF DisInv, Checked
  <2> QED
    BY <2>1, <2>2 DEF FeaturesOf, Matches, HasData
<1>5. ASSUME NEW e \in FeaturesOf(original) PROVE e \in emitted
  <2>1. /\ e = <<e[1], e[2]>> /\ e[1] \in Segments /\ e[2] \in Names(e[1])
        /\ Matches(e[1], e[2], original)
    BY DEF FeaturesOf, Matches
  <2>2. PICK k \in original : k[1] \in FramesOf(e[1]) /\ k[2] \in WordsOf(e[1])
    BY DEF FeaturesOf
  <2>3. HasData(e[1], k[1]) /\ k[1] \in Processed
    BY <2>2, <1>2 DEF HasData
  <2>4. e[1] \in tiles_checked
    BY <2>1, <2>2, <2>3 DEF DisInv, Unchecked
  <2> QED
    BY <2>1, <2>4 DEF DisInv, Checked
<1> QED
  BY <1>3, <1>4, <1>5

\* For any database whose bits are in their segments and any bitstream, what the
\* disassembler emits does not depend on the order in which it takes the frames.
THEOREM Decoded == DisSpec => [](DecodedIsMatch /\ UnknownIsExact)
<1>1. CASE SegbitsFit
  <2>1. DisInv /\ [DisNext]_disVars => DisInv'
    <3> SUFFICES ASSUME DisInv, [DisNext]_disVars PROVE DisInv'
      OBVIOUS
    <3>1. CASE \E data \in Bitstreams : pc = "load" /\ Load(data)
      BY <3>1, DisInvLoad, FasmDisassemblerAssumption DEF FasmDisassemblerAssumption
    <3>2. CASE DisStep
      BY <1>1, <3>2, DisInvStep
    <3>3. CASE UNCHANGED disVars
      BY <3>3, DisInvUnchanged
    <3> QED
      BY <3>1, <3>2, <3>3 DEF DisNext, DisReturn
  <2>2. DisInv => DecodedIsMatch /\ UnknownIsExact
    BY DisInvDone DEF DecodedIsMatch, UnknownIsExact
  <2> QED
    BY DisInvInit, <2>1, <2>2, PTL DEF DisSpec
<1>2. CASE ~ SegbitsFit
  <2>1. DecodedIsMatch /\ UnknownIsExact
    BY <1>2 DEF DecodedIsMatch, UnknownIsExact
  <2> QED
    BY <2>1, PTL
<1> QED
  BY <1>1, <1>2
-----------------------------------------------------------------------------
\* The assembler.

\* A line has at most one feature of the database, and that is one of its tile.
LEMMA FoundOne ==
  ASSUME NEW line, NEW d \in LineFound(line), NEW e \in LineFound(line)
  PROVE  /\ d = e /\ e = <<e[1], e[2]>>
         /\ e[1][1] = line.tile /\ e[1] = <<e[1][1], e[1][2]>> /\ e[2] \in Names(e[1])
<1>1. /\ d \in Found(line.tile, line.feature, line.address)
      /\ e \in Found(line.tile, line.feature, line.address)
  BY DEF LineFound
<1> QED
  BY <1>1 DEF Found, Names

LEMMA FoundInSegments ==
  ASSUME NEW line, ~ IsMissing(line), NEW e \in LineFound(line)
  PROVE  e[1] \in Segments
BY FoundOne DEF IsMissing, LineFound

\* The type invariant, but for the set of lines that a file may have.
FramesOK ==
  /\ frames \in [DOMAIN frames -> {0, 1}]
  /\ \A k \in DOMAIN frames : k[2] < FrameWords
  /\ frames_in_use \subseteq UNION {FramesOf(s) : s \in Segments}
  /\ \A line \in missing \cup enabled : line.tile \in Tiles
  /\ image.ones \subseteq DOMAIN frames
  /\ state \in {"read", "done", "key_error", "inconsistent", "lookup_error"}

\* Until a conflict, the frames have every bit of the enabled lines as the line
\* needs it and no other bit.
FramesAgree ==
  state # "inconsistent" =>
    /\ \A line \in enabled :
         /\ \A k \in SetBits(line) : k \in DOMAIN frames /\ frames[k] = 1
         /\ \A k \in ClearBits(line) : k \in DOMAIN frames /\ frames[k] = 0
    /\ \A k \in DOMAIN frames : \E line \in enabled : k \in SetBits(line) \cup ClearBits(line)

\* The frames of the tiles of enabled lines are in use.
TilesInUse ==
  state # "inconsistent" =>
    \A line \in enabled : \A e \in LineFound(line) : FramesOf(e[1]) \subseteq frames_in_use

ImageOfFrames ==
  state = "done" =>
    /\ image.ones = {k \in DOMAIN frames : frames[k] = 1}
    /\ \/ frames_in_use \subseteq image.addresses
       \/ UNION {FramesOf(s) : s \in Segments} \subseteq image.addresses

AsmInv ==
  FramesOK /\ FramesAgree /\ TilesInUse /\ ImageOfFrames /\ ConflictIsReal

LEMMA AsmInvInit == AsmInit => AsmInv
BY DEF AsmInit, AsmInv, FramesOK, FramesAgree, TilesInUse, ImageOfFrames, ConflictIsReal

LEMMA AsmInvEnable ==
  ASSUME AsmInv, NEW line, EnableFeature(line)
  PROVE  AsmInv'
<1>1. /\ state = "read" /\ line.tile \in Tiles /\ ~ IsMissing(line) /\ Consistent(line)
      /\ frames' = [k \in DOMAIN frames \cup SetBits(line) \cup ClearBits(line) |->
                      IF k \in DOMAIN frames THEN frames[k]
                      ELSE IF k \in SetBits(line) THEN 1 ELSE 0]
      /\ frames_in_use' = frames_in_use \cup UNION {FramesOf(e[1]) : e \in LineFound(line)}
      /\ enabled' = enabled \cup {line}
      /\ UNCHANGED <<missing, image, state>>
  BY DEF EnableFeature
<1>2. DOMAIN frames' = DOMAIN frames \cup SetBits(line) \cup ClearBits(line)
  BY <1>1
<1>3. \A k \in DOMAIN frames : frames'[k] = frames[k]
  BY <1>1
<1>4. \A k \in SetBits(line) : frames'[k] = 1
  BY <1>1 DEF Consistent
<1>5. \A k \in ClearBits(line) : frames'[k] = 0
  BY <1>1 DEF Consistent
<1>6. FramesOK'
  <2>1. frames' \in [DOMAIN frames' -> {0, 1}]
    BY <1>1, <1>2 DEF AsmInv, FramesOK
  <2>2. \A k \in DOMAIN frames' : k[2] < FrameWords
    BY <1>2 DEF AsmInv, FramesOK, SetBits, ClearBits, InFrame
  <2>3. frames_in_use' \subseteq UNION {FramesOf(s) : s \in Segments}
    BY <1>1, FoundInSegments DEF AsmInv, FramesOK
  <2>4. image'.ones \subseteq DOMAIN frames'
    BY <1>1, <1>2 DEF AsmInv, FramesOK
  <2> QED
    BY <1>1, <2>1, <2>2, <2>3, <2>4 DEF AsmInv, FramesOK
<1>7. FramesAgree'
  <2> SUFFICES /\ \A l \in enabled' :
                    /\ \A k \in SetBits(l) : k \in DOMAIN frames' /\ frames'[k] = 1
                    /\ \A k \in ClearBits(l) : k \in DOMAIN frames' /\ frames'[k] = 0
               /\ \A k \in DOMAIN frames' :
                    \E l \in enabled' : k \in SetBits(l) \cup ClearBits(l)
    BY DEF FramesAgree
  <2>1. FramesAgree /\ state # "inconsistent"
    BY <1>1 DEF AsmInv
  <2>2. ASSUME NEW l \in enabled'
        PROVE  /\ \A k \in SetBits(l) : k \in DOMAIN frames' /\ frames'[k] = 1
               /\ \A k \in ClearBits(l) : k \in DOMAIN frames' /\ frames'[k] = 0
    <3>1. CASE l = line
      BY <3>1, <1>2, <1>4, <1>5
    <3>2. CASE l \in enabled
      BY <3>2, <2>1, <1>2, <1>3 DEF FramesAgree
    <3> QED
      BY <1>1, <3>1, <3>2
  <2>3. ASSUME NEW k \in DOMAIN frames'
        PROVE  \E l \in enabled' : k \in SetBits(l) \cup ClearBits(l)
    BY <1>1, <1>2, <2>1 DEF FramesAgree
  <2> QED
    BY <2>2, <2>3
<1>8. TilesInUse'
  BY <1>1 DEF AsmInv, TilesInUse
<1> QED
  BY <1>1, <1>6, <1>7, <1>8 DEF AsmInv, ImageOfFrames, ConflictIsReal

LEMMA AsmInvInconsistent ==
  ASSUME AsmInv, NEW line, InconsistentBits(line)
  PROVE  AsmInv'
<1>1. /\ state = "read" /\ line.tile \in Tiles /\ ~ Consistent(line)
      /\ state' = "inconsistent" /\ enabled' = enabled \cup {line}
      /\ UNCHANGED <<frames, frames_in_use, missing, image>>
  BY DEF InconsistentBits
<1>2. /\ \A k \in DOMAIN frames : frames[k] \in {0, 1}
      /\ FramesAgree /\ state # "inconsistent"
  BY <1>1 DEF AsmInv, FramesOK
<1>3. \E a, b \in enabled' : SetBits(a) \cap ClearBits(b) # {}
  <2>1. CASE \E k \in SetBits(line) \cap DOMAIN frames : frames[k] # 1
    <3>1. PICK k \in SetBits(line) \cap DOMAIN frames : frames[k] # 1
      BY <2>1
    <3>2. PICK b \in enabled : k \in ClearBits(b)
      BY <3>1, <1>2 DEF FramesAgree
    <3> QED
      BY <1>1, <3>1, <3>2
  <2>2. CASE \E k \in ClearBits(line) \cap DOMAIN frames : frames[k] # 0
    <3>1. PICK k \in ClearBits(line) \cap DOMAIN frames : frames[k] # 0
      BY <2>2
    <3>2. PICK a \in enabled : k \in SetBits(a)
      BY <3>1, <1>2 DEF FramesAgree
    <3> QED
      BY <1>1, <3>1, <3>2
  <2>3. CASE SetBits(line) \cap ClearBits(line) # {}
    BY <1>1, <2>3
  <2> QED
    BY <1>1, <2>1, <2>2, <2>3 DEF Consistent
<1>4. FramesOK'
  BY <1>1 DEF AsmInv, FramesOK
<1> QED
  BY <1>1, <1>3, <1>4 DEF AsmInv, FramesAgree, TilesInUse, ImageOfFrames, ConflictIsReal

LEMMA AsmInvGetFrames ==
  ASSUME AsmInv, NEW sparse \in BOOLEAN, GetFrames(sparse)
  PROVE  AsmInv'
<1>1. /\ state = "read" /\ state' = "done"
      /\ image'.ones = {k \in DOMAIN frames : frames[k] = 1}
      /\ image'.addresses = {k[1] : k \in DOMAIN frames} \cup
                            (IF sparse THEN frames_in_use
                             ELSE UNION {FramesOf(s) : s \in Segments})
      /\ UNCHANGED <<frames, frames_in_use, missing, enabled>>
  BY DEF GetFrames
<1>2. FramesOK'
  BY <1>1 DEF AsmInv, FramesOK
<1>3. ImageOfFrames'
  BY <1>1 DEF ImageOfFrames
<1> QED
  BY <1>1, <1>2, <1>3 DEF AsmInv, FramesAgree, TilesInUse, ConflictIsReal

\* Whatever becomes of a line, of the file or one that the tool adds.
LEMMA AsmInvLine ==
  ASSUME AsmInv, NEW line,
         UnknownTile(line) \/ EnableFeature(line) \/ InconsistentBits(line) \/ MissingFeature(line)
  PROVE  AsmInv'
<1>1. CASE UnknownTile(line) \/ MissingFeature(line)
  BY <1>1 DEF UnknownTile, MissingFeature, AsmInv, FramesOK, FramesAgree, TilesInUse,
              ImageOfFrames, ConflictIsReal
<1> QED
  BY <1>1, AsmInvEnable, AsmInvInconsistent

LEMMA AsmInvMarkRoi == ASSUME AsmInv, NEW t, MarkRoiTile(t) PROVE AsmInv'
<1>1. frames_in_use' \subseteq UNION {FramesOf(s) : s \in Segments}
      /\ frames_in_use \subseteq frames_in_use'
  BY DEF MarkRoiTile, AsmInv, FramesOK
<1> QED
  BY <1>1 DEF MarkRoiTile, AsmInv, FramesOK, FramesAgree, TilesInUse, ImageOfFrames,
              ConflictIsReal

LEMMA AsmInvUnchanged == ASSUME AsmInv, UNCHANGED asmVars PROVE AsmInv'
BY DEF asmVars, AsmInv, FramesOK, FramesAgree, TilesInUse, ImageOfFrames, ConflictIsReal

\* The run ends over missing features.
LEMMA AsmInvMissing ==
  ASSUME AsmInv, state = "read", state' = "lookup_error",
         UNCHANGED <<frames, frames_in_use, missing, enabled, image>>
  PROVE  AsmInv'
BY DEF AsmInv, FramesOK, FramesAgree, TilesInUse, ImageOfFrames, ConflictIsReal

LEMMA AsmInvStep == ASSUME AsmInv, [AsmNext]_asmVars PROVE AsmInv'
<1>1. CASE LookupError
  BY <1>1, AsmInvMissing DEF LookupError
<1>2. CASE AsmEnded \/ UNCHANGED asmVars
  BY <1>2, AsmInvUnchanged DEF AsmEnded
<1> QED
  BY <1>1, <1>2, AsmInvMarkRoi, AsmInvLine, AsmInvGetFrames DEF AsmNext

LEMMA AsmInvImplies ==
  ASSUME AsmInv PROVE ImageIsUnion /\ ConflictIsReal /\ TilesAreWhole
<1>1. ImageIsUnion
  <2> SUFFICES ASSUME state = "done"
               PROVE  /\ image.ones = UNION {SetBits(line) : line \in enabled}
                      /\ \A line \in enabled : image.ones \cap ClearBits(line) = {}
    BY DEF ImageIsUnion
  <2>1. FramesAgree /\ state # "inconsistent" /\ image.ones = {k \in DOMAIN frames : frames[k] = 1}
    BY DEF AsmInv, ImageOfFrames
  <2>2. \A k \in image.ones : \E line \in enabled : k \in SetBits(line)
    BY <2>1 DEF FramesAgree
  <2>3. \A line \in enabled : SetBits(line) \subseteq image.ones
    BY <2>1 DEF FramesAgree
  <2>4. \A line \in enabled : image.ones \cap ClearBits(line) = {}
    BY <2>1 DEF FramesAgree
  <2> QED
    BY <2>2, <2>3, <2>4
<1>2. TilesAreWhole
  BY DEF AsmInv, ImageOfFrames, TilesInUse, TilesAreWhole, FramesOK
<1> QED
  BY <1>1, <1>2 DEF AsmInv

\* For any database and any file, in any order of its lines, the image is the
\* union of what the lines set, and only a real conflict ends the run.
THEOREM Assembled == AsmSpec => [](AsmTypeOK /\ ImageIsUnion /\ ConflictIsReal /\ TilesAreWhole)
<1> DEFINE LinesOK == missing \subseteq Lines /\ enabled \subseteq Lines
<1>1. AsmInit => LinesOK
  BY DEF AsmInit
<1>2. LinesOK /\ [AsmNext]_asmVars => LinesOK'
  BY DEF AsmNext, MarkRoiTile, UnknownTile, EnableFeature, InconsistentBits, MissingFeature,
         LookupError, GetFrames, AsmEnded, asmVars
<1>3. AsmInv /\ [AsmNext]_asmVars => AsmInv'
  BY AsmInvStep
<1>4. AsmInv /\ LinesOK => AsmTypeOK /\ ImageIsUnion /\ ConflictIsReal /\ TilesAreWhole
  BY AsmInvImplies DEF AsmInv, FramesOK, AsmTypeOK
<1> QED
  BY AsmInvInit, <1>1, <1>2, <1>3, <1>4, PTL DEF AsmSpec
-----------------------------------------------------------------------------
\* The way there and back.

\* What the disassembler has is the finished image.
HandedOver == pc # "load" => state = "done" /\ original = image.ones

\* The enabled lines have their feature in a segment of the part.
EnabledFound ==
  state # "inconsistent" =>
    \A line \in enabled : \A e \in LineFound(line) : e[1] \in Segments

\* The bits of the finished image are bits.
LEMMA ImageBits ==
  ASSUME SegbitsFit, AsmInv, EnabledFound, state = "done"
  PROVE  image.ones \subseteq Bits
<1>1. image.ones = UNION {SetBits(line) : line \in enabled}
  BY AsmInvImplies DEF ImageIsUnion
<1>2. ASSUME NEW line \in enabled, NEW k \in SetBits(line) PROVE k \in Bits
  <2>1. PICK e \in LineFound(line) : k \in Ones(e[1], e[2])
    BY <1>2 DEF SetBits, InFrame
  <2>2. e[1] \in Segments /\ e[2] \in Names(e[1])
    BY <2>1, FoundOne DEF EnabledFound
  <2> QED
    BY <2>1, <2>2, BitsFit
<1> QED
  BY <1>1, <1>2

\* A finished image that bit2fasm has read to the end.
LEMMA ImageComesBack ==
  ASSUME SegbitsFit, AsmInv, DisInv, EnabledFound,
         state = "done", pc = "done", original = image.ones
  PROVE  EnabledComesBack /\ NothingUnknown
<1>1. /\ image.ones = UNION {SetBits(line) : line \in enabled}
      /\ \A line \in enabled : image.ones \cap ClearBits(line) = {}
  BY AsmInvImplies DEF ImageIsUnion
<1>2. /\ emitted = FeaturesOf(original)
      /\ unknown = original \ UNION {Ones(e[1], e[2]) : e \in emitted}
  BY DisInvDone
<1>3. ASSUME NEW line \in enabled, NEW e \in LineFound(line), InFrames(e[1]),
             Ones(e[1], e[2]) # {}
      PROVE  e \in emitted
  <2>1. e[1] \in Segments /\ e[2] \in Names(e[1]) /\ e = <<e[1], e[2]>>
    BY FoundOne DEF EnabledFound
  <2>2. \A k \in Ones(e[1], e[2]) \cup Zeros(e[1], e[2]) :
          k[1] \in FramesOf(e[1]) /\ k[2] \in WordsOf(e[1])
    BY <2>1, BitsFit
  <2>3. \A w \in WordsOf(e[1]) : w < FrameWords
    <3> DEFINE b == TileBits[e[1][1]][e[1][2]]
    <3>1. b.offset + b.words <= FrameWords
      BY <1>3 DEF InFrames
    <3>2. b \in [base_address : Nat, frames : Nat, offset : Nat, words : Nat]
      BY <2>1, TileSegbitsAssumption DEF TileSegbitsAssumption, Segments
    <3>3. b.offset \in Nat /\ b.words \in Nat /\ FrameWords \in Nat
      BY <3>2, TileSegbitsAssumption DEF TileSegbitsAssumption
    <3>4. WordsOf(e[1]) = b.offset .. (b.offset + b.words - 1)
      BY DEF WordsOf
    <3> HIDE DEF b
    <3> QED
      BY <3>1, <3>3, <3>4
  <2>4. Ones(e[1], e[2]) \subseteq SetBits(line) /\ Zeros(e[1], e[2]) \subseteq ClearBits(line)
    BY <2>2, <2>3 DEF SetBits, ClearBits, InFrame
  <2>5. Ones(e[1], e[2]) \subseteq original /\ Zeros(e[1], e[2]) \cap original = {}
    BY <1>1, <2>4
  <2>6. \E k \in original : k[1] \in FramesOf(e[1]) /\ k[2] \in WordsOf(e[1])
    BY <1>3, <2>2, <2>5
  <2> QED
    BY <1>2, <2>1, <2>5, <2>6 DEF FeaturesOf
<1>4. ASSUME \A line \in enabled : \A e \in LineFound(line) : InFrames(e[1]),
             NEW k \in original
      PROVE  k \notin unknown
  <2>1. PICK line \in enabled : k \in SetBits(line)
    BY <1>1
  <2>2. PICK e \in LineFound(line) : k \in Ones(e[1], e[2])
    BY <2>1 DEF SetBits, InFrame
  <2>3. e \in emitted
    BY <1>3, <1>4, <2>2
  <2> QED
    BY <1>2, <2>2, <2>3
<1>5. (\A line \in enabled : \A e \in LineFound(line) : InFrames(e[1])) => unknown = {}
  BY <1>2, <1>4
<1> QED
  BY <1>3, <1>5 DEF EnabledComesBack, NothingUnknown

RoundTripInv == AsmInv /\ DisInv /\ HandedOver /\ EnabledFound

\* Where every bit of the database is in its segment, what fasm2frames has
\* enabled in segments that are in the frames comes back from bit2fasm, and all
\* bits of the image are explained.
THEOREM RoundTrip == Spec => [](EnabledComesBack /\ NothingUnknown)
<1>1. CASE SegbitsFit
  <2>0. SegbitsFit
    BY <1>1
  <2>1. Init => RoundTripInv
    BY AsmInvInit, DisInvInit
       DEF Init, RoundTripInv, HandedOver, EnabledFound, AsmInit, DisInit
  <2>2. RoundTripInv /\ [Next]_vars => RoundTripInv'
    <3> SUFFICES ASSUME RoundTripInv, [Next]_vars PROVE RoundTripInv'
      OBVIOUS
    <3>1. CASE Assemble
      <4>1. AsmNext /\ UNCHANGED disVars
        BY <3>1 DEF Assemble
      <4>2. AsmInv' /\ DisInv'
        BY <4>1, AsmInvStep, DisInvUnchanged DEF RoundTripInv
      <4>3. HandedOver'
        BY <4>1 DEF RoundTripInv, HandedOver, AsmNext, MarkRoiTile, UnknownTile, EnableFeature,
                    InconsistentBits, MissingFeature, LookupError, GetFrames, AsmEnded,
                    asmVars, disVars
      <4>4. EnabledFound'
        <5>1. CASE \E line \in Lines : EnableFeature(line)
          BY <5>1, FoundInSegments DEF EnableFeature, RoundTripInv, EnabledFound
        <5>2. CASE ~ \E line \in Lines : EnableFeature(line)
          BY <5>2, <4>1
             DEF RoundTripInv, EnabledFound, AsmNext, MarkRoiTile, UnknownTile,
                 InconsistentBits, MissingFeature, LookupError, GetFrames, AsmEnded, asmVars
        <5> QED
          BY <5>1, <5>2
      <4> QED
        BY <4>2, <4>3, <4>4 DEF RoundTripInv
    <3>2. CASE HandOver
      <4>1. state = "done" /\ pc = "load" /\ Load(image.ones) /\ UNCHANGED asmVars
        BY <3>2 DEF HandOver
      <4>2. AsmInv' /\ EnabledFound'
        BY <4>1, AsmInvStep DEF RoundTripInv, EnabledFound, asmVars
      <4>3. image.ones \subseteq Bits
        BY <2>0, <4>1, ImageBits DEF RoundTripInv
      <4>4. DisInv'
        BY <4>1, <4>3, DisInvLoad DEF RoundTripInv
      <4>5. HandedOver'
        BY <4>1 DEF HandedOver, Load, asmVars
      <4> QED
        BY <4>2, <4>4, <4>5 DEF RoundTripInv
    <3>3. CASE Disassemble
      <4>1. DisStep /\ UNCHANGED asmVars
        BY <3>3 DEF Disassemble
      <4>2. AsmInv' /\ EnabledFound'
        BY <4>1, AsmInvStep DEF RoundTripInv, EnabledFound, asmVars
      <4>3. DisInv'
        BY <2>0, <4>1, DisInvStep DEF RoundTripInv
      <4>4. HandedOver'
        BY <4>1 DEF RoundTripInv, HandedOver, DisStep, PopFrame, SkipTile, CheckTile, EndFrame,
                    asmVars
      <4> QED
        BY <4>2, <4>3, <4>4 DEF RoundTripInv
    <3>4. CASE UNCHANGED vars
      <4>1. UNCHANGED asmVars /\ UNCHANGED disVars
        BY <3>4 DEF vars
      <4>2. AsmInv' /\ DisInv'
        BY <4>1, AsmInvStep, DisInvUnchanged DEF RoundTripInv
      <4> QED
        BY <4>1, <4>2 DEF RoundTripInv, HandedOver, EnabledFound, asmVars, disVars
    <3> QED
      BY <3>1, <3>2, <3>3, <3>4 DEF Next
  <2>3. RoundTripInv => EnabledComesBack /\ NothingUnknown
    BY <2>0, ImageComesBack
       DEF RoundTripInv, HandedOver, EnabledComesBack, NothingUnknown
  <2> QED
    BY <2>1, <2>2, <2>3, PTL DEF Spec
<1>2. CASE ~ SegbitsFit
  <2>1. EnabledComesBack /\ NothingUnknown
    BY <1>2 DEF EnabledComesBack, NothingUnknown
  <2> QED
    BY <2>1, PTL
<1> QED
  BY <1>1, <1>2
-----------------------------------------------------------------------------
\* The tool, for any part, whatever lines the file has and the tool adds.

\* The lines of a phase are enabled, or the list of missing ones grows, before
\* bit2fasm starts; a bitstream of other origin leaves fasm2frames unused.
ToolHandedOver ==
  /\ pc # "load" => \/ state = "done" /\ original = image.ones
                    \/ phase = "file" /\ state # "done"
  /\ state = "done" => phase = "frames"
  /\ phase = "frames" => pending = {}

ToolInv == AsmInv /\ EnabledFound /\ ToolHandedOver

LEMMA ToolInvInit == ToolInit => ToolInv
BY AsmInvInit
   DEF ToolInit, Init, ToolInv, EnabledFound, ToolHandedOver, AsmInit, DisInit

\* A line that the tool reads or adds.
LEMMA ToolInvLine ==
  ASSUME ToolInv, NEW line, AddLine(line), pending' \subseteq pending
  PROVE  ToolInv'
<1>1. /\ UnknownTile(line) \/ EnableFeature(line) \/ InconsistentBits(line) \/ MissingFeature(line)
      /\ UNCHANGED disVars /\ phase' = phase
  BY DEF AddLine
<1>2. AsmInv'
  BY <1>1, AsmInvLine DEF ToolInv
<1>3. EnabledFound'
  BY <1>1, FoundInSegments
     DEF ToolInv, EnabledFound, UnknownTile, EnableFeature, InconsistentBits, MissingFeature
<1>4. state = "read" /\ state' # "done" /\ image' = image
  BY <1>1 DEF UnknownTile, EnableFeature, InconsistentBits, MissingFeature
<1>5. ToolHandedOver'
  BY <1>1, <1>4 DEF ToolInv, ToolHandedOver, disVars
<1> QED
  BY <1>2, <1>3, <1>5 DEF ToolInv

\* The end of a phase, with or without missing features.
LEMMA ToolInvPhase ==
  ASSUME ToolInv, NextPhase \/ MissingEnds
  PROVE  ToolInv'
<1>1. CASE NextPhase
  <2>1. /\ state = "read" /\ pc = "load" /\ phase' = After(phase) /\ pending' \in LinesOf(phase')
        /\ missing' = {}
        /\ UNCHANGED <<frames, frames_in_use, enabled, image, state, disVars>>
    BY <1>1 DEF NextPhase
  <2>2. AsmInv' /\ EnabledFound'
    BY <2>1
       DEF ToolInv, AsmInv, FramesOK, FramesAgree, TilesInUse, ImageOfFrames, ConflictIsReal,
           EnabledFound
  <2>3. ToolHandedOver'
    BY <2>1 DEF ToolHandedOver, LinesOf, disVars
  <2> QED
    BY <2>2, <2>3 DEF ToolInv
<1>2. CASE MissingEnds
  <2>1. /\ state = "read" /\ state' = "lookup_error"
        /\ UNCHANGED <<frames, frames_in_use, missing, enabled, image, disVars, phase, pending>>
        /\ phase # "frames"
    BY <1>2 DEF MissingEnds, LookupError, glueVars
  <2>2. AsmInv' /\ EnabledFound'
    BY <2>1, AsmInvMissing DEF ToolInv, EnabledFound
  <2>3. ToolHandedOver'
    BY <2>1 DEF ToolInv, ToolHandedOver, disVars
  <2> QED
    BY <2>2, <2>3 DEF ToolInv
<1> QED
  BY <1>1, <1>2

\* Every step of the tool keeps its invariant.
LEMMA ToolInvStep == ASSUME ToolInv, [ToolNext]_toolVars PROVE ToolInv'
<1>1. ASSUME NEW t \in RoiTiles, MarkRoi(t) PROVE ToolInv'
  <2>1. MarkRoiTile(t) /\ UNCHANGED <<disVars, glueVars>>
    BY <1>1 DEF MarkRoi
  <2> QED
    BY <2>1, AsmInvMarkRoi
       DEF ToolInv, EnabledFound, ToolHandedOver, MarkRoiTile, disVars, glueVars
<1>2. ASSUME NEW line \in FileLines, FileLine(line) PROVE ToolInv'
  BY <1>2, ToolInvLine DEF FileLine
<1>3. ASSUME NEW line \in FileLines, ZeroLine(line) PROVE ToolInv'
  <2>1. UNCHANGED <<asmVars, disVars, phase, pending>>
    BY <1>3 DEF ZeroLine, vars
  <2> QED
    BY <2>1, AsmInvUnchanged
       DEF ToolInv, EnabledFound, ToolHandedOver, asmVars, disVars
<1>4. ASSUME NEW line \in pending, ToolLine(line) PROVE ToolInv'
  BY <1>4, ToolInvLine DEF ToolLine
<1>5. CASE NextPhase \/ MissingEnds
  BY <1>5, ToolInvPhase
<1>6. ASSUME NEW sparse \in BOOLEAN, Frames(sparse) PROVE ToolInv'
  <2>1. phase = "frames" /\ GetFrames(sparse) /\ UNCHANGED <<disVars, glueVars>>
    BY <1>6 DEF Frames
  <2>2. AsmInv' /\ EnabledFound'
    BY <2>1, AsmInvGetFrames DEF ToolInv, EnabledFound, GetFrames
  <2>3. ToolHandedOver'
    BY <2>1 DEF ToolInv, ToolHandedOver, GetFrames, disVars, glueVars
  <2> QED
    BY <2>2, <2>3 DEF ToolInv
<1>7. CASE HandOver /\ UNCHANGED glueVars
  <2>1. /\ state = "done" /\ pc = "load" /\ Load(image.ones) /\ UNCHANGED asmVars
        /\ UNCHANGED glueVars
    BY <1>7 DEF HandOver
  <2> QED
    BY <2>1, AsmInvUnchanged
       DEF ToolInv, EnabledFound, ToolHandedOver, Load, asmVars, glueVars
<1>8. CASE Disassemble /\ UNCHANGED glueVars
  <2>1. DisStep /\ UNCHANGED asmVars /\ UNCHANGED glueVars
    BY <1>8 DEF Disassemble
  <2>2. pc # "load" /\ original' = original
    BY <2>1 DEF DisStep, PopFrame, SkipTile, CheckTile, EndFrame
  <2> QED
    BY <2>1, <2>2, AsmInvUnchanged
       DEF ToolInv, EnabledFound, ToolHandedOver, asmVars, glueVars
<1>9. CASE Foreign
  BY <1>9, AsmInvUnchanged
     DEF Foreign, ToolInv, EnabledFound, ToolHandedOver, asmVars, glueVars
<1>10. CASE UNCHANGED toolVars
  <2>1. UNCHANGED <<asmVars, disVars, phase, pending>>
    BY <1>10 DEF toolVars, vars, glueVars
  <2> QED
    BY <2>1, AsmInvUnchanged
       DEF ToolInv, EnabledFound, ToolHandedOver, asmVars, disVars
<1> QED
  BY <1>1, <1>2, <1>3, <1>4, <1>5, <1>6, <1>7, <1>8, <1>9, <1>10 DEF ToolNext, Disassembly

\* Only bit2fasm changes what it has found.
LEMMA ToolDisStep ==
  ASSUME SegbitsFit, ToolInv, DisInv, [ToolNext]_toolVars PROVE DisInv'
<1>1. CASE HandOver
  BY <1>1, ImageBits, DisInvLoad DEF HandOver, ToolInv
<1>2. CASE Disassemble
  BY <1>2, DisInvStep DEF Disassemble
<1>3. CASE Foreign
  BY <1>3, DisInvLoad, FasmDisassemblerAssumption DEF Foreign, FasmDisassemblerAssumption
<1>4. CASE UNCHANGED disVars
  BY <1>4, DisInvUnchanged
<1> QED
  BY <1>1, <1>2, <1>3, <1>4
     DEF ToolNext, MarkRoi, FileLine, ZeroLine, ToolLine, AddLine, NextPhase, MissingEnds,
         Frames, Disassembly, toolVars, vars

\* With the lines that the tool adds, too, the image is the union of what all
\* lines set, and only a real conflict ends the run.
THEOREM ToolAssembled == ToolSpec => [](ImageIsUnion /\ ConflictIsReal /\ TilesAreWhole)
<1>1. ToolInv /\ [ToolNext]_toolVars => ToolInv'
  BY ToolInvStep
<1>2. ToolInv => ImageIsUnion /\ ConflictIsReal /\ TilesAreWhole
  BY AsmInvImplies DEF ToolInv
<1> QED
  BY ToolInvInit, <1>1, <1>2, PTL DEF ToolSpec

\* What bit2fasm says of a bitstream, of whatever origin, is what the bitstream
\* has, and every line that the tool has read or added comes back.
THEOREM ToolComesBack ==
  ToolSpec => [](DecodedIsMatch /\ UnknownIsExact /\ EnabledComesBack /\ NothingUnknown)
<1>1. CASE SegbitsFit
  <2>1. ToolInv /\ [ToolNext]_toolVars => ToolInv'
    BY ToolInvStep
  <2>2. ToolInv /\ DisInv /\ [ToolNext]_toolVars => DisInv'
    BY <1>1, ToolDisStep
  <2>3. ToolInit => DisInv
    BY DisInvInit DEF ToolInit, Init
  <2>4. ToolInv /\ DisInv =>
          DecodedIsMatch /\ UnknownIsExact /\ EnabledComesBack /\ NothingUnknown
    <3> SUFFICES ASSUME ToolInv, DisInv
                 PROVE  DecodedIsMatch /\ UnknownIsExact /\ EnabledComesBack /\ NothingUnknown
      OBVIOUS
    <3>1. DecodedIsMatch /\ UnknownIsExact
      BY DisInvDone DEF DecodedIsMatch, UnknownIsExact
    <3>2. CASE state = "done" /\ pc = "done"
      BY <1>1, <3>1, <3>2, ImageComesBack DEF ToolInv, ToolHandedOver
    <3>3. CASE ~ (state = "done" /\ pc = "done")
      BY <3>1, <3>3 DEF EnabledComesBack, NothingUnknown
    <3> QED
      BY <3>2, <3>3
  <2> QED
    BY ToolInvInit, <2>1, <2>2, <2>3, <2>4, PTL DEF ToolSpec
<1>2. CASE ~ SegbitsFit
  <2>1. DecodedIsMatch /\ UnknownIsExact /\ EnabledComesBack /\ NothingUnknown
    BY <1>2 DEF DecodedIsMatch, UnknownIsExact, EnabledComesBack, NothingUnknown
  <2> QED
    BY <2>1, PTL
<1> QED
  BY <1>1, <1>2
-----------------------------------------------------------------------------
\* PUDC_B.

\* A line has configured the IOB p.
Configured(p) == \E s \in set_features : s.line.tile = p[1] /\ s.line.feature[1] = p[2]

\* There is one PUDC_B at most, and once the file is read its IOB is configured
\* or the line that does so is still to come.
PudcInv ==
  /\ \A p, q \in pudc : p = q
  /\ (emit /\ phase # "file") =>
       \A p \in pudc :
         Configured(p) \/ \E line \in pending : line.tile = p[1] /\ line.feature[1] = p[2]
  /\ state = "done" => phase = "frames"
  /\ phase = "frames" => pending = {}

\* The pull-up is among the lines that the tool adds, unless the file has a line
\* of the IOB.
LEMMA PudcLinesPull ==
  ASSUME emit, NEW p \in pudc, \A q \in pudc : q = p, ~ Configured(p)
  PROVE  \E line \in PudcLines : line.tile = p[1] /\ line.feature[1] = p[2]
<1> DEFINE line == Tag(p[1], p[2], "PULLUP")
<1>1. ~ PudcUsed
  BY DEF PudcUsed, Configured
<1>2. PudcLines = UNION {PudcTemplate(q) : q \in pudc}
  BY <1>1 DEF PudcLines
<1>3. line \in PudcTemplate(p)
  BY DEF PudcTemplate
<1>4. line.tile = p[1] /\ line.feature[1] = p[2]
  BY DEF Tag
<1> HIDE DEF line
<1> QED
  BY <1>2, <1>3, <1>4

\* Every step of the tool keeps what is said of PUDC_B.
LEMMA PudcStep == ASSUME PudcInv, [ToolNext]_toolVars PROVE PudcInv'
<1>1. ASSUME set_features \subseteq set_features', UNCHANGED <<pudc, emit, phase, pending>>,
             state' # "done" \/ state' = state \/ phase = "frames"
      PROVE  PudcInv'
  BY <1>1 DEF PudcInv, Configured
<1>2. ASSUME NEW line, AddLine(line)
      PROVE  /\ set_features' = set_features \cup {[line |-> line, value |-> TRUE]}
             /\ UNCHANGED <<pudc, emit, phase>> /\ state' # "done"
  BY <1>2 DEF AddLine, Callback, UnknownTile, EnableFeature, InconsistentBits, MissingFeature
<1>3. ASSUME NEW t \in RoiTiles, MarkRoi(t) PROVE PudcInv'
  BY <1>1, <1>3 DEF MarkRoi, MarkRoiTile, glueVars
<1>4. ASSUME NEW line \in FileLines, FileLine(line) PROVE PudcInv'
  BY <1>1, <1>2, <1>4 DEF FileLine
<1>5. ASSUME NEW line \in FileLines, ZeroLine(line) PROVE PudcInv'
  BY <1>1, <1>5 DEF ZeroLine, Callback, vars, asmVars
<1>6. ASSUME NEW line \in pending, ToolLine(line) PROVE PudcInv'
  <2>1. /\ set_features' = set_features \cup {[line |-> line, value |-> TRUE]}
        /\ pending' = pending \ {line}
        /\ UNCHANGED <<pudc, emit, phase>> /\ state' # "done"
    BY <1>2, <1>6 DEF ToolLine
  <2>2. ASSUME NEW p \in pudc, line.tile = p[1], line.feature[1] = p[2] PROVE Configured(p)'
    <3> DEFINE s == [line |-> line, value |-> TRUE]
    <3>1. s \in set_features' /\ s.line = line
      BY <2>1
    <3>2. s.line.tile = p[1] /\ s.line.feature[1] = p[2]
      BY <2>2, <3>1
    <3> HIDE DEF s
    <3> QED
      BY <3>1, <3>2 DEF Configured
  <2>3. ASSUME NEW p \in pudc, Configured(p) PROVE Configured(p)'
    BY <2>1, <2>3 DEF Configured
  <2>4. ASSUME emit, phase # "file", NEW p \in pudc
        PROVE  \/ Configured(p)'
               \/ \E l \in pending' : l.tile = p[1] /\ l.feature[1] = p[2]
    BY <2>1, <2>2, <2>3, <2>4 DEF PudcInv
  <2> QED
    BY <2>1, <2>4 DEF PudcInv
<1>7. CASE NextPhase
  <2>1. /\ state = "read" /\ pending = {} /\ phase # "frames"
        /\ phase' = After(phase) /\ pending' \in LinesOf(phase')
        /\ UNCHANGED <<state, pudc, emit, set_features>>
    BY <1>7 DEF NextPhase
  <2>2. phase' = "frames" => pending' = {}
    BY <2>1 DEF LinesOf
  <2>3. ASSUME emit, NEW p \in pudc
        PROVE  \/ Configured(p)'
               \/ \E l \in pending' : l.tile = p[1] /\ l.feature[1] = p[2]
    <3>1. CASE phase = "file"
      <4>1. pending' = PudcLines
        BY <2>1, <3>1 DEF After, LinesOf
      <4> QED
        BY <2>1, <2>3, <4>1, PudcLinesPull DEF PudcInv, Configured
    <3>2. CASE phase # "file"
      BY <2>1, <2>3, <3>2 DEF PudcInv, Configured
    <3> QED
      BY <3>1, <3>2
  <2> QED
    BY <2>1, <2>2, <2>3 DEF PudcInv
<1>8. CASE MissingEnds
  BY <1>1, <1>8 DEF MissingEnds, LookupError, glueVars
<1>9. ASSUME NEW sparse \in BOOLEAN, Frames(sparse) PROVE PudcInv'
  BY <1>1, <1>9 DEF Frames, glueVars
<1>10. CASE Disassembly \/ Foreign \/ UNCHANGED toolVars
  BY <1>1, <1>10 DEF Disassembly, HandOver, Disassemble, Foreign, toolVars, vars, asmVars, glueVars
<1> QED
  BY <1>3, <1>4, <1>5, <1>6, <1>7, <1>8, <1>9, <1>10 DEF ToolNext

\* For any part and any file, the IOB of PUDC_B is not left as it was.
THEOREM PudcPulled == ToolSpec => []PudcIsPulled
<1>1. ToolInit => PudcInv
  BY DEF ToolInit, Init, AsmInit, PudcInv
<1>2. PudcInv /\ [ToolNext]_toolVars => PudcInv'
  BY PudcStep
<1>3. PudcInv => PudcIsPulled
  BY DEF PudcInv, PudcIsPulled, Configured
<1> QED
  BY <1>1, <1>2, <1>3, PTL DEF ToolSpec
-----------------------------------------------------------------------------
\* The banks that step down.

\* A set of naturals that is not empty has a least element.
LEMMA LeastExists ==
  ASSUME NEW S, S \subseteq Nat, S # {}
  PROVE  \E x \in S : \A y \in S : x <= y
<1>1. PICK x \in S : \A y \in S : ~ (<<y, x>> \in OpToRel(<, Nat))
  BY NatLessThanWellFounded, WFMin
<1>2. \A y \in S : ~ (y < x)
  BY <1>1 DEF OpToRel
<1> QED
  BY <1>2

\* The first of some rows is one of them, and there is no other first.
LEMMA FirstExists ==
  ASSUME NEW n \in Nat, NEW S, S \subseteq 1..n, S # {}
  PROVE  \E i \in S : First(S) = {i}
<1>1. S \subseteq Nat
  OBVIOUS
<1>2. PICK i \in S : \A j \in S : i <= j
  BY <1>1, LeastExists
<1>3. \A j \in S : (\A k \in S : j <= k) => j = i
  BY <1>1, <1>2
<1> QED
  BY <1>2, <1>3 DEF First

\* The last of some rows.
LEMMA LastExists ==
  ASSUME NEW n \in Nat, NEW S, S \subseteq 1..n, S # {}
  PROVE  \E i \in S : \A j \in S : j <= i
<1> DEFINE T == {m \in Nat : m <= n /\ n - m \in S}
<1>1. PICK s \in S : TRUE
  OBVIOUS
<1>2. n - s \in Nat /\ n - (n - s) = s /\ n - s <= n
  OBVIOUS
<1>3. T # {} /\ T \subseteq Nat
  BY <1>2
<1> HIDE DEF T
<1>4. PICK t \in T : \A u \in T : t <= u
  BY <1>3, LeastExists
<1>5. t \in Nat /\ n - t \in S
  BY <1>4 DEF T
<1>6. ASSUME NEW y \in S PROVE y <= n - t
  <2>1. y \in 1..n
    OBVIOUS
  <2>2. n - y \in Nat /\ n - y <= n /\ n - (n - y) = y
    BY <2>1
  <2>3. n - y \in T
    BY <2>2 DEF T
  <2>4. t <= n - y
    BY <1>4, <2>3
  <2> QED
    BY <1>5, <2>1, <2>4
<1> QED
  BY <1>5, <1>6

\* The bank of a tile of the package is that of one of its rows.
LEMMA RowBankOf ==
  ASSUME NEW p \in Packaged
  PROVE  \E i \in DOMAIN Rows : Rows[i][1] = p /\ RowBank[p] = Rows[i][2]
<1> DEFINE mine == {i \in DOMAIN Rows : Rows[i][1] = p}
           last(i) == Rows[i][1] = p /\ \A j \in DOMAIN Rows : Rows[j][1] = p => j <= i
<1>1. PICK n \in Nat : DOMAIN Rows = 1..n
  BY PackageAssumption DEF PackageAssumption
<1>2. mine \subseteq 1..n /\ mine # {}
  BY <1>1 DEF Packaged
<1>3. PICK i \in mine : \A j \in mine : j <= i
  BY <1>1, <1>2, LastExists
<1>4. \E k \in DOMAIN Rows : last(k)
  BY <1>3
<1>5. RowBank[p] = Rows[CHOOSE k \in DOMAIN Rows : last(k)][2]
  BY DEF RowBank
<1> QED
  BY <1>4, <1>5

\* A tile's package tile is in the package.
LEMMA PackageOf ==
  ASSUME NEW t \in DOMAIN PrefixY, NEW p \in Package[t]
  PROVE  p \in Packaged /\ PrefixY[p] = PrefixY[t]
<1>1. PICK i \in First({j \in DOMAIN Rows : PrefixY[Rows[j][1]] = PrefixY[t]}) : p = Rows[i][1]
  BY DEF Package
<1>2. i \in DOMAIN Rows /\ PrefixY[Rows[i][1]] = PrefixY[t]
  BY <1>1 DEF First
<1> QED
  BY <1>1, <1>2 DEF Packaged

\* A row with the prefix and Y of a tile makes some row the first of them.
LEMMA PackageExists ==
  ASSUME NEW t \in DOMAIN PrefixY, NEW p \in Packaged, PrefixY[p] = PrefixY[t]
  PROVE  \E q \in Packaged : PrefixY[q] = PrefixY[t] /\ Package[t] = {q}
<1> DEFINE alike == {j \in DOMAIN Rows : PrefixY[Rows[j][1]] = PrefixY[t]}
<1>1. PICK n \in Nat : DOMAIN Rows = 1..n
  BY PackageAssumption DEF PackageAssumption
<1>2. alike \subseteq 1..n /\ alike # {}
  BY <1>1 DEF Packaged
<1>3. PICK i \in alike : First(alike) = {i}
  BY <1>1, <1>2, FirstExists
<1>4. Package[t] = {Rows[j][1] : j \in First(alike)}
  BY DEF Package
<1>5. Package[t] = {Rows[i][1]}
  BY <1>3, <1>4
<1> QED
  BY <1>3, <1>5 DEF Packaged

\* The alias of an IOB is the one tile of the package with its prefix and Y.
LEMMA PackageIs ==
  ASSUME NEW t \in ((Iob33 \cup Hp) \cap Tiles) \ Packaged,
         NEW p \in Packaged, PrefixY[p] = PrefixY[t]
  PROVE  Package[t] = {p}
<1>1. t \in DOMAIN PrefixY
  BY PackageAssumption DEF PackageAssumption
<1>2. PICK q \in Packaged : PrefixY[q] = PrefixY[t] /\ Package[t] = {q}
  BY <1>1, PackageExists
<1>3. q = p
  BY <1>2, PackageAssumption DEF PackageAssumption
<1> QED
  BY <1>2, <1>3

\* tile_to_bank has the bank of an IOB that a line of the file configures.
LEMMA BankFound ==
  ASSUME NEW t \in (Iob33 \cup Hp) \cap Tiles
  PROVE  BankOf(t) \subseteq TileToBank[t]
<1>1. t \in DOMAIN PrefixY
  BY PackageAssumption DEF PackageAssumption
<1>2. CASE t \in Packaged
  BY <1>1, <1>2 DEF BankOf, TileToBank
<1>3. CASE t \notin Packaged
  <2>1. TileToBank[t] = {RowBank[p] : p \in Package[t]}
    BY <1>1, <1>3 DEF TileToBank
  <2>2. BankOf(t) = {RowBank[p] : p \in {x \in Packaged \ Tiles : PrefixY[x] = PrefixY[t]}}
    BY <1>3 DEF BankOf
  <2>3. ASSUME NEW p \in Packaged, PrefixY[p] = PrefixY[t] PROVE p \in Package[t]
    BY <1>3, <2>3, PackageIs
  <2> QED
    BY <2>1, <2>2, <2>3
<1> QED
  BY <1>2, <1>3

\* The tile of the grid takes the place of a tile of the package.
LEMMA ReplacementIs ==
  ASSUME NEW t \in ((Iob33 \cup Hp) \cap Tiles) \ Packaged,
         NEW p \in Packaged \ Tiles, PrefixY[p] = PrefixY[t]
  PROVE  Replacement[p] = {t}
<1> DEFINE takers == {j \in DOMAIN GridOrder :
                        GridOrder[j] \notin Packaged /\ p \in Package[GridOrder[j]]}
<1>1. PICK n \in Nat : DOMAIN GridOrder = 1..n
  BY PackageAssumption DEF PackageAssumption
<1>2. PICK k \in DOMAIN GridOrder : GridOrder[k] = t
  BY Fasm2FramesAssumption DEF Fasm2FramesAssumption
<1>3. k \in takers
  BY <1>2, PackageIs
<1>4. takers \subseteq 1..n
  BY <1>1
<1>5. PICK i \in takers : First(takers) = {i}
  BY <1>1, <1>3, <1>4, FirstExists
<1>6. GridOrder[i] \in Tiles \ Packaged
  BY <1>5, Fasm2FramesAssumption DEF Fasm2FramesAssumption
<1>7. PrefixY[p] = PrefixY[GridOrder[i]]
  <2>1. GridOrder[i] \in DOMAIN PrefixY
    BY <1>6, PackageAssumption DEF PackageAssumption
  <2> QED
    BY <1>5, <2>1, PackageOf
<1>8. GridOrder[i] = t
  BY <1>6, <1>7, PackageAssumption DEF PackageAssumption
<1>9. Replacement[p] = {GridOrder[j] : j \in First(takers)}
  BY DEF Replacement
<1> QED
  BY <1>5, <1>8, <1>9

\* bank_to_tile has an IOB of the grid in its bank, under its name in the grid.
LEMMA TileInBank ==
  ASSUME NEW t \in Iob33 \cap Tiles, NEW bank \in BankOf(t)
  PROVE  t \in BankToTile[bank]
<1> DEFINE known == {Rows[i][1] : i \in {j \in DOMAIN Rows : Rows[j][2] = bank}}
           moved == {p \in known : Replacement[p] # {} /\ RowBank[p] = bank}
<1>1. ASSUME NEW p \in Packaged, RowBank[p] = bank
      PROVE  p \in known /\ bank \in {Rows[i][2] : i \in DOMAIN Rows}
  BY <1>1, RowBankOf
<1>2. ASSUME bank \in {Rows[i][2] : i \in DOMAIN Rows}
      PROVE  BankToTile[bank] = (known \ moved) \cup UNION {Replacement[p] : p \in moved}
  BY <1>2 DEF BankToTile
<1>3. CASE t \in Packaged
  <2>1. RowBank[t] = bank
    BY <1>3 DEF BankOf
  <2>2. Replacement[t] = {}
    BY <1>3 DEF Replacement
  <2>3. t \in known \ moved
    BY <1>1, <1>3, <2>1, <2>2
  <2> HIDE DEF known, moved
  <2> QED
    BY <1>1, <1>2, <1>3, <2>1, <2>3
<1>4. CASE t \notin Packaged
  <2>1. PICK p \in Packaged \ Tiles : PrefixY[p] = PrefixY[t] /\ bank = RowBank[p]
    BY <1>4 DEF BankOf
  <2>2. Replacement[p] = {t}
    BY <1>4, <2>1, ReplacementIs
  <2>3. p \in moved /\ t \in Replacement[p]
    BY <1>1, <2>1, <2>2
  <2> HIDE DEF known, moved
  <2> QED
    BY <1>1, <1>2, <2>1, <2>3
<1> QED
  BY <1>3, <1>4

\* The IOBs that bank_to_tile has in a bank are of no other.
LEMMA BankHasOwn ==
  ASSUME NEW bank \in {Rows[i][2] : i \in DOMAIN Rows},
         NEW t \in BankToTile[bank], t \in Iob33
  PROVE  BankOf(t) \subseteq {bank}
<1> DEFINE known == {Rows[i][1] : i \in {j \in DOMAIN Rows : Rows[j][2] = bank}}
           moved == {p \in known : Replacement[p] # {} /\ RowBank[p] = bank}
<1>1. BankToTile[bank] = (known \ moved) \cup UNION {Replacement[p] : p \in moved}
  BY DEF BankToTile
<1>2. CASE t \in known
  <2>1. PICK i \in DOMAIN Rows : Rows[i][1] = t /\ Rows[i][2] = bank
    BY <1>2
  <2>2. t \in Packaged
    BY <2>1 DEF Packaged
  <2>3. PICK j \in DOMAIN Rows : Rows[j][1] = t /\ RowBank[t] = Rows[j][2]
    BY <2>2, RowBankOf
  <2>4. Rows[i][2] = Rows[j][2]
    BY <2>1, <2>3, PackageAssumption DEF PackageAssumption
  <2> QED
    BY <2>1, <2>2, <2>3, <2>4 DEF BankOf
<1>3. CASE \E p \in moved : t \in Replacement[p]
  <2>1. PICK p \in moved : t \in Replacement[p]
    BY <1>3
  <2>2. p \in Packaged /\ RowBank[p] = bank
    BY <2>1 DEF Packaged
  <2>3. PICK j \in DOMAIN GridOrder :
          t = GridOrder[j] /\ GridOrder[j] \notin Packaged /\ p \in Package[GridOrder[j]]
    BY <2>1, <2>2 DEF Replacement, First
  <2>4. t \in Tiles \ Packaged
    BY <2>3, Fasm2FramesAssumption DEF Fasm2FramesAssumption
  <2>5. t \in DOMAIN PrefixY
    BY <2>4, PackageAssumption DEF PackageAssumption
  <2>6. PrefixY[p] = PrefixY[t]
    BY <2>3, <2>5, PackageOf
  <2>7. ASSUME NEW q \in Packaged \ Tiles, PrefixY[q] = PrefixY[t] PROVE q = p
    BY <2>2, <2>4, <2>6, <2>7, PackageAssumption DEF PackageAssumption
  <2>8. BankOf(t) = {RowBank[q] : q \in {x \in Packaged \ Tiles : PrefixY[x] = PrefixY[t]}}
    BY <2>4 DEF BankOf
  <2> QED
    BY <2>2, <2>7, <2>8
<1> HIDE DEF known, moved
<1> QED
  BY <1>1, <1>2, <1>3

\* A line with STEPDOWN for an IOB.
StepsDown(line) == line.feature[2] = "STEPDOWN"

\* Every IOB33 of the banks of the line is used, or its STEPDOWN is to come.
BankCovered(line) ==
  \A t \in Iob33 \cap Tiles, site \in Sites :
    (BankOf(t) \cap BankOf(line.tile) # {}) =>
      <<t, site>> \in Used33 \/ Tag(t, site, "STEPDOWN") \in pending

\* The lines are of tiles of the grid unless one has ended the run, STEPDOWN is for
\* IOBs alone, and from the phase of its own on every bank that steps down is
\* covered.
StepdownInv ==
  /\ state \in {"read", "done"} => \A line \in Set : line.tile \in Tiles
  /\ \A line \in Set \cup pending : StepsDown(line) => line.tile \in Iob33 \cup Hp
  /\ (state \in {"read", "done"} /\ phase \in {"stepdown", "glue", "frames"}) =>
       \A line \in Set \cup pending : StepsDown(line) => BankCovered(line)
  /\ phase \in {"file", "pudc", "stepdown", "glue", "frames"}

\* A bank that TileToBank has is one of the rows.
LEMMA BankOfRows ==
  ASSUME NEW t \in DOMAIN PrefixY
  PROVE  TileToBank[t] \subseteq {Rows[i][2] : i \in DOMAIN Rows}
<1>1. \A p \in Packaged : RowBank[p] \in {Rows[i][2] : i \in DOMAIN Rows}
  BY RowBankOf
<1>2. CASE t \in Packaged
  BY <1>1, <1>2 DEF TileToBank
<1>3. CASE t \notin Packaged
  BY <1>1, <1>3, PackageOf DEF TileToBank
<1> QED
  BY <1>2, <1>3

\* A line that the tool adds is there afterwards, and keeps what was used.
LEMMA UsedGrows ==
  ASSUME Set \subseteq Set'
  PROVE  Used33 \subseteq Used33'
BY DEF Used33

\* What the file configures and what the tool adds for a bank that steps down are
\* all its IOB33s.
LEMMA StepdownBank ==
  ASSUME NEW t \in Iob33 \cap Tiles, NEW site \in Sites, NEW bank \in BankOf(t),
         bank \in UNION {TileToBank[l.tile] : l \in {x \in Set : x.feature[2] = "STEPDOWN"}}
  PROVE  <<t, site>> \in Used33 \/ Tag(t, site, "STEPDOWN") \in StepdownLines
<1> DEFINE banks == UNION {TileToBank[l.tile] : l \in {x \in Set : x.feature[2] = "STEPDOWN"}}
           tiles == UNION {BankToTile[b] : b \in banks}
<1>2. bank \in banks
  OBVIOUS
<1>3. t \in BankToTile[bank]
  BY TileInBank
<1>4. t \in tiles
  BY <1>2, <1>3
<1>5. StepdownLines =
        {Tag(s[1], s[2], "STEPDOWN") : s \in ((tiles \cap Iob33) \X Sites) \ Used33} \cup
        {Tag(h, "STEPDOWN", "") : h \in tiles \cap Hclk}
  BY DEF StepdownLines
<1> HIDE DEF tiles, banks
<1>6. CASE <<t, site>> \notin Used33
  <2>1. <<t, site>> \in ((tiles \cap Iob33) \X Sites) \ Used33
    BY <1>4, <1>6
  <2> DEFINE unused == ((tiles \cap Iob33) \X Sites) \ Used33
  <2>2. {Tag(s[1], s[2], "STEPDOWN") : s \in unused} \subseteq StepdownLines
    BY <1>5
  <2>3. <<t, site>> \in unused
    BY <2>1
  <2> HIDE DEF unused
  <2>4. Tag(<<t, site>>[1], <<t, site>>[2], "STEPDOWN") \in StepdownLines
    BY <2>2, <2>3
  <2> QED
    BY <2>4
<1> QED
  BY <1>6

LEMMA StepdownCovers ==
  ASSUME NEW line, line.tile \in (Iob33 \cup Hp) \cap Tiles, line \in Set, StepsDown(line),
         NEW t \in Iob33 \cap Tiles, NEW site \in Sites,
         NEW bank \in BankOf(t) \cap BankOf(line.tile)
  PROVE  <<t, site>> \in Used33 \/ Tag(t, site, "STEPDOWN") \in StepdownLines
<1>1. bank \in TileToBank[line.tile]
  BY BankFound
<1>2. bank \in UNION {TileToBank[l.tile] : l \in {x \in Set : x.feature[2] = "STEPDOWN"}}
  BY <1>1 DEF StepsDown
<1> QED
  BY <1>2, StepdownBank

\* A line that the tool adds for a bank is for an IOB33 of the same bank as a line
\* of the file.
LEMMA StepdownLine ==
  ASSUME NEW added \in StepdownLines, StepsDown(added),
         \A line \in Set : line.tile \in Tiles,
         NEW bank \in BankOf(added.tile)
  PROVE  /\ added.tile \in Iob33
         /\ \E b : /\ BankOf(added.tile) \subseteq {b}
                   /\ b \in UNION {TileToBank[l.tile] : l \in {x \in Set : x.feature[2] = "STEPDOWN"}}
<1> DEFINE banks == UNION {TileToBank[l.tile] : l \in {x \in Set : x.feature[2] = "STEPDOWN"}}
           tiles == UNION {BankToTile[b] : b \in banks}
<1>1. PICK s \in ((tiles \cap Iob33) \X Sites) \ Used33 : added = Tag(s[1], s[2], "STEPDOWN")
  <2> DEFINE unused == ((tiles \cap Iob33) \X Sites) \ Used33
  <2>1. StepdownLines = {Tag(s[1], s[2], "STEPDOWN") : s \in unused} \cup
                        {Tag(h, "STEPDOWN", "") : h \in tiles \cap Hclk}
    BY DEF StepdownLines
  <2> HIDE DEF unused, tiles
  <2>2. \A h : ~ StepsDown(Tag(h, "STEPDOWN", ""))
    BY DEF StepsDown, Tag
  <2>3. \E s \in unused : added = Tag(s[1], s[2], "STEPDOWN")
    BY <2>1, <2>2
  <2> QED
    BY <2>3 DEF unused
<1>2. added.tile = s[1] /\ s[1] \in tiles /\ s[1] \in Iob33
  BY <1>1 DEF Tag
<1>3. PICK b \in banks : s[1] \in BankToTile[b]
  BY <1>2
<1>4. PICK l \in Set : b \in TileToBank[l.tile] /\ l.tile \in Tiles
  BY <1>3
<1>5. b \in {Rows[i][2] : i \in DOMAIN Rows}
  BY <1>4, BankOfRows, PackageAssumption DEF PackageAssumption
<1>6. BankOf(s[1]) \subseteq {b}
  BY <1>2, <1>3, <1>5, BankHasOwn
<1> QED
  BY <1>2, <1>3, <1>6

\* What the line that the tool makes for a feature is.
LEMMA TagFacts ==
  ASSUME NEW t, NEW site, NEW tag
  PROVE  /\ Tag(t, site, tag).tile = t /\ Tag(t, site, tag).feature = <<site, tag>>
         /\ StepsDown(Tag(t, site, tag)) <=> tag = "STEPDOWN"
BY DEF Tag, StepsDown

\* The lines of the pull-up and of the glue that have STEPDOWN are of HP tiles.
LEMMA PudcStepsDown ==
  ASSUME NEW line \in PudcLines, StepsDown(line)
  PROVE  line.tile \in Hp
<1> DEFINE input(p) == {Tag(p[1], p[2], tag) : tag \in {"IN", "PULLUP"}}
           hp(p) == IF p[1] \in Hp
                    THEN {Tag(p[1], site, tag) : site \in Sites, tag \in {"SLEW", "STEPDOWN"}} \cup
                         {Tag(p[1], Partner(p[2]), "PULLDOWN")}
                    ELSE {}
<1>1. PICK p \in pudc : line \in input(p) \cup hp(p)
  BY DEF PudcLines, PudcTemplate
<1>2. \A l \in input(p) : ~ StepsDown(l)
  BY DEF StepsDown, Tag
<1>3. line \in hp(p)
  BY <1>1, <1>2
<1>4. \A l \in hp(p) : l.tile = p[1] /\ p[1] \in Hp
  BY DEF Tag
<1> QED
  BY <1>3, <1>4

\* A line of the glue, or of an HCLK tile.
GlueLine(a) ==
  a.feature \in GlueFeatures /\ a = [tile |-> a.tile, feature |-> a.feature, address |-> 0]

LEMMA GlueIsGlue ==
  ASSUME NEW t, NEW f \in GlueFeatures
  PROVE  GlueLine([tile |-> t, feature |-> f, address |-> 0])
BY DEF GlueLine

LEMMA TagIsGlue ==
  ASSUME NEW t, NEW site, NEW tag, <<site, tag>> \in GlueFeatures
  PROVE  GlueLine(Tag(t, site, tag))
BY GlueIsGlue DEF Tag

\* The lines of the glue.
LEMMA GlueLines ==
  ASSUME NEW g \in TieGlue, NEW line \in BankGlue \cup g \cup LeafGlue
  PROVE  GlueLine(line)
<1>1. CASE line \in BankGlue
  <2> DEFINE has(t, tag) == {site \in Sites : HasTag(t, site, tag)}
             in(t) == {Tag(t, site, "IBUF_GLUE") : site \in has(t, "IN")}
             out(t) == {Tag(t, site, "OBUF_GLUE") : site \in has(t, "DRIVE")}
             diff(t) == {Tag(t, "IOB_Y0", "IBUFDS_GLUE") : site \in has(t, "IN_DIFF")}
             cascade(t) == {Tag(CascadeTile, tag, "") : tag \in {x \in {"CASCADE", "ACTIVE"} :
                              t \in ObufColumn /\ "IOB_Y1" \in has(t, "DRIVE")}}
  <2>1. PICK t : line \in in(t) \cup out(t) \cup diff(t) \cup cascade(t)
    BY <1>1 DEF BankGlue
  <2>2. \E tile : \/ \E site \in Sites, tag \in {"IBUF_GLUE", "OBUF_GLUE", "IBUFDS_GLUE"} :
                       line = Tag(tile, site, tag)
                  \/ \E site \in {"CASCADE", "ACTIVE"} : line = Tag(tile, site, "")
    <3>1. CASE line \in in(t)
      <4>1. PICK site \in Sites : line = Tag(t, site, "IBUF_GLUE")
        BY <3>1
      <4> QED
        BY <4>1
    <3>2. CASE line \in out(t)
      <4>1. PICK site \in Sites : line = Tag(t, site, "OBUF_GLUE")
        BY <3>2
      <4> QED
        BY <4>1
    <3>4. CASE line \in diff(t)
      <4>1. line = Tag(t, "IOB_Y0", "IBUFDS_GLUE")
        BY <3>4
      <4>2. "IOB_Y0" \in Sites
        BY DEF Sites
      <4> QED
        BY <4>1, <4>2
    <3>3. CASE line \in cascade(t)
      BY <3>3
    <3> QED
      BY <2>1, <3>1, <3>2, <3>3, <3>4
  <2>3. \A site \in Sites, tag \in {"IBUF_GLUE", "OBUF_GLUE", "IBUFDS_GLUE"} :
          <<site, tag>> \in GlueFeatures
    BY DEF GlueFeatures
  <2>4. \A site \in {"CASCADE", "ACTIVE"} : <<site, "">> \in GlueFeatures
    BY DEF GlueFeatures
  <2> QED
    BY <2>2, <2>3, <2>4, TagIsGlue
<1>2. <<"GFAN_TIE", "">> \in GlueFeatures /\ <<"BUFRCLK3_ACTIVE", "">> \in GlueFeatures
  BY DEF GlueFeatures
<1>3. CASE line \in g
  <2>1. PICK t : line = Tag(Mirror[t], "GFAN_TIE", "")
    BY <1>3 DEF TieGlue
  <2> QED
    BY <1>2, <2>1, TagIsGlue
<1>4. CASE line \in LeafGlue
  <2>1. PICK l : line = Tag(l.tile, "BUFRCLK3_ACTIVE", "")
    BY <1>4 DEF LeafGlue
  <2> QED
    BY <1>2, <2>1, TagIsGlue
<1> QED
  BY <1>1, <1>3, <1>4

LEMMA GlueStepsDown ==
  ASSUME NEW g \in TieGlue, NEW line \in BankGlue \cup g \cup LeafGlue
  PROVE  ~ StepsDown(line)
<1>1. line.feature \in GlueFeatures
  BY GlueLines DEF GlueLine
<1>2. \A f \in GlueFeatures : f[2] # "STEPDOWN"
  BY DEF GlueFeatures
<1> QED
  BY <1>1, <1>2 DEF StepsDown

\* A line that the file has or the tool adds leaves what was covered covered.
LEMMA StepdownAddLine ==
  ASSUME StepdownInv, NEW line, AddLine(line),
         \/ line \in FileLines /\ phase = "file" /\ pending' = pending
         \/ line \in pending /\ phase # "file" /\ pending' = pending \ {line}
  PROVE  StepdownInv'
<1>1. set_features' = set_features \cup {[line |-> line, value |-> TRUE]} /\ phase' = phase
  BY DEF AddLine, Callback
<1>2. Set' = Set \cup {line}
  <2> DEFINE s == [line |-> line, value |-> TRUE]
  <2>1. s.line = line /\ s.value
    OBVIOUS
  <2>2. set_features' = set_features \cup {s}
    BY <1>1
  <2> HIDE DEF s
  <2> QED
    BY <2>1, <2>2 DEF Set
<1>3. state = "read" /\ (state' \in {"read", "done"} => line.tile \in Tiles)
  BY DEF AddLine, UnknownTile, EnableFeature, InconsistentBits, MissingFeature
<1>4. Set' \cup pending' \subseteq Set \cup pending \cup FileLines
      /\ (phase # "file" => Set' \cup pending' = Set \cup pending)
  BY <1>2
<1>5. \A l \in FileLines : StepsDown(l) => l.tile \in Iob33 \cup Hp
  BY PackageAssumption DEF PackageAssumption, StepsDown
<1>6. Used33 \subseteq Used33'
  BY <1>2, UsedGrows
<1>7. ASSUME phase # "file", NEW l, BankCovered(l) PROVE BankCovered(l)'
  <2> SUFFICES ASSUME NEW t \in Iob33 \cap Tiles, NEW site \in Sites,
                      BankOf(t) \cap BankOf(l.tile) # {}
               PROVE  <<t, site>> \in Used33' \/ Tag(t, site, "STEPDOWN") \in pending'
    BY DEF BankCovered
  <2>1. <<t, site>> \in Used33 \/ Tag(t, site, "STEPDOWN") \in pending
    BY <1>7 DEF BankCovered
  <2>2. CASE line = Tag(t, site, "STEPDOWN")
    <3>1. line.tile = t /\ line.feature[1] = site /\ line.feature[2] # ""
      BY <2>2 DEF Tag
    <3>2. <<line.tile, line.feature[1]>> \in Used33'
      BY <1>2, <3>1 DEF Used33
    <3> QED
      BY <3>1, <3>2
  <2> QED
    BY <1>6, <1>7, <2>1, <2>2
<1> QED
  BY <1>1, <1>2, <1>3, <1>4, <1>5, <1>7 DEF StepdownInv, StepsDown

\* The lines of the next phase.
LEMMA StepdownPhase ==
  ASSUME StepdownInv, NextPhase
  PROVE  StepdownInv'
<1>1. /\ state = "read" /\ pending = {} /\ phase # "frames"
      /\ phase' = After(phase) /\ pending' \in LinesOf(phase')
      /\ UNCHANGED <<state, set_features>>
  BY DEF NextPhase
<1>2. Set' = Set /\ Used33' = Used33
  BY <1>1 DEF Set, Used33
<1>3. \A line \in Set : line.tile \in Tiles /\ (StepsDown(line) => line.tile \in Iob33 \cup Hp)
  BY <1>1 DEF StepdownInv
<1>5. CASE phase' = "pudc"
  <2>1. pending' = PudcLines
    BY <1>1, <1>5 DEF LinesOf
  <2>2. \A line \in pending' : StepsDown(line) => line.tile \in Hp
    BY <2>1, PudcStepsDown
  <2> QED
    BY <1>1, <1>2, <1>3, <1>5, <2>2 DEF StepdownInv, StepsDown
<1>6. CASE phase' = "stepdown"
  <2>1. pending' = StepdownLines
    BY <1>1, <1>6 DEF LinesOf
  <2>2. ASSUME NEW line \in StepdownLines, StepsDown(line) PROVE line.tile \in Iob33
    <3>1. \/ \E t \in Iob33 : \E site : line = Tag(t, site, "STEPDOWN")
          \/ \E t : line = Tag(t, "STEPDOWN", "")
      BY <2>2 DEF StepdownLines
    <3>2. \A t : Tag(t, "STEPDOWN", "").feature[2] # "STEPDOWN"
      BY DEF Tag
    <3>3. \E t \in Iob33 : \E site : line = Tag(t, site, "STEPDOWN")
      BY <2>2, <3>1, <3>2 DEF StepsDown
    <3> QED
      BY <3>3, TagFacts
  <2>3. ASSUME NEW line \in Set \cup StepdownLines, StepsDown(line),
               NEW t \in Iob33 \cap Tiles, NEW site \in Sites,
               NEW bank \in BankOf(t) \cap BankOf(line.tile)
        PROVE  <<t, site>> \in Used33 \/ Tag(t, site, "STEPDOWN") \in StepdownLines
    <3>1. CASE line \in Set
      BY <1>3, <2>3, <3>1, StepdownCovers
    <3>2. CASE line \in StepdownLines
      <4>1. PICK b : /\ BankOf(line.tile) \subseteq {b}
                     /\ b \in UNION {TileToBank[l.tile] :
                                l \in {x \in Set : x.feature[2] = "STEPDOWN"}}
        BY <1>3, <2>3, <3>2, StepdownLine
      <4>2. bank = b
        BY <4>1
      <4> QED
        BY <2>3, <4>1, <4>2, StepdownBank
    <3> QED
      BY <3>1, <3>2
  <2>4. ASSUME NEW line \in Set \cup StepdownLines, StepsDown(line) PROVE BankCovered(line)'
    BY <1>2, <2>1, <2>3, <2>4 DEF BankCovered
  <2> QED
    BY <1>1, <1>2, <1>3, <1>6, <2>1, <2>2, <2>4 DEF StepdownInv, StepsDown
<1>7. CASE phase' = "glue"
  <2>1. \A line \in pending' : ~ StepsDown(line)
    BY <1>1, <1>7, GlueStepsDown DEF LinesOf
  <2>2. phase = "stepdown"
    BY <1>1, <1>7 DEF After
  <2>3. ASSUME NEW line \in Set, StepsDown(line) PROVE BankCovered(line)'
    BY <1>1, <1>2, <2>2, <2>3 DEF StepdownInv, BankCovered
  <2> QED
    BY <1>1, <1>2, <1>3, <1>7, <2>1, <2>3 DEF StepdownInv, StepsDown
<1>8. CASE phase' = "frames"
  <2>1. pending' = {}
    BY <1>1, <1>8 DEF LinesOf
  <2>2. phase \in {"glue", "frames"}
    BY <1>1, <1>8 DEF After, StepdownInv
  <2>3. ASSUME NEW line \in Set, StepsDown(line) PROVE BankCovered(line)'
    BY <1>1, <1>2, <2>2, <2>3 DEF StepdownInv, BankCovered
  <2> QED
    BY <1>1, <1>2, <1>3, <1>8, <2>1, <2>3 DEF StepdownInv, StepsDown
<1> QED
  BY <1>1, <1>5, <1>6, <1>7, <1>8 DEF After

LEMMA StepdownStep == ASSUME StepdownInv, [ToolNext]_toolVars PROVE StepdownInv'
<1>1. ASSUME Set' = Set, phase' = phase, pending' = pending,
             state' \in {"read", "done"} => state \in {"read", "done"}
      PROVE  StepdownInv'
  <2>1. Used33' = Used33
    BY <1>1 DEF Used33
  <2> QED
    BY <1>1, <2>1 DEF StepdownInv, StepsDown, BankCovered
<1>2. ASSUME NEW t \in RoiTiles, MarkRoi(t) PROVE StepdownInv'
  BY <1>1, <1>2 DEF MarkRoi, MarkRoiTile, glueVars, Set
<1>3. ASSUME NEW line \in FileLines, FileLine(line) PROVE StepdownInv'
  BY <1>3, StepdownAddLine DEF FileLine
<1>4. ASSUME NEW line \in FileLines, ZeroLine(line) PROVE StepdownInv'
  <2>1. Set' = Set
    BY <1>4 DEF ZeroLine, Callback, Set
  <2> QED
    BY <1>1, <1>4, <2>1 DEF ZeroLine, vars, asmVars
<1>5. ASSUME NEW line \in pending, ToolLine(line) PROVE StepdownInv'
  BY <1>5, StepdownAddLine DEF ToolLine
<1>6. CASE NextPhase
  BY <1>6, StepdownPhase
<1>7. CASE MissingEnds
  BY <1>1, <1>7 DEF MissingEnds, LookupError, glueVars, Set
<1>8. ASSUME NEW sparse \in BOOLEAN, Frames(sparse) PROVE StepdownInv'
  BY <1>1, <1>8 DEF Frames, GetFrames, glueVars, Set
<1>9. CASE Disassembly \/ Foreign \/ UNCHANGED toolVars
  BY <1>1, <1>9
     DEF Disassembly, HandOver, Disassemble, Foreign, toolVars, vars, asmVars, glueVars, Set
<1> QED
  BY <1>2, <1>3, <1>4, <1>5, <1>6, <1>7, <1>8, <1>9 DEF ToolNext

\* For any part, whichever of its names the file uses for an IOB tile, one IOB
\* with STEPDOWN has STEPDOWN set for all IOB33s of its bank that are not used.
THEOREM StepsDownBanks == ToolSpec => []BankStepsDown
<1>1. ToolInit => StepdownInv
  BY DEF ToolInit, Init, AsmInit, StepdownInv, Set
<1>2. StepdownInv /\ [ToolNext]_toolVars => StepdownInv'
  BY StepdownStep
<1>3. ToolInv /\ [ToolNext]_toolVars => ToolInv'
  BY ToolInvStep
<1>4. ToolInv /\ StepdownInv => BankStepsDown
  BY DEF ToolInv, ToolHandedOver, StepdownInv, StepsDown, BankCovered, BankStepsDown
<1> QED
  BY ToolInvInit, <1>1, <1>2, <1>3, <1>4, PTL DEF ToolSpec
-----------------------------------------------------------------------------
\* The lines that the tool adds agree with the file.

\* A line that gives STEPDOWN to an IOB33 site of which there is no other line.
StepsAlone(a) ==
  \E t \in Iob33, site \in Sites :
    /\ a = Tag(t, site, "STEPDOWN")
    /\ \A b \in Set : (b.tile = t /\ b.feature[1] = site) => b = a

\* A line of pudc_template for a site of which there is no other line.
PullsAlone(a) ==
  \E p \in pudc :
    /\ a \in PudcTemplate(p)
    /\ \A b \in Set : b \in PudcTemplate(p) \/ b.tile # p[1] \/ b.feature[1] # p[2]

\* Until it conflicts, a line that is still to be added meets no line of its
\* own site, or is glue.
AgreeInv ==
  /\ pudc \subseteq PudcSites /\ \A p, q \in pudc : p = q
  /\ enabled \subseteq Set /\ \A a \in enabled : a.tile \in Tiles /\ ~ IsMissing(a)
  /\ \A a \in Set \cup pending : a \in FileLines \cup IobAdded \/ GlueLine(a)
  /\ phase = "pudc" => \A a \in pending : PullsAlone(a)
  /\ phase = "stepdown" =>
       \A a \in pending : StepsAlone(a) \/ \E t : a = Tag(t, "STEPDOWN", "")
  /\ phase = "glue" => \A a \in pending : GlueLine(a)
  /\ phase \in {"file", "pudc", "stepdown", "glue", "frames"}
  /\ phase = "frames" => pending = {}
  /\ AddedAgrees

\* The sites of a tile are two.
LEMMA OtherSite ==
  ASSUME NEW site \in Sites, NEW other \in Sites, other # site
  PROVE  other = Partner(site)
<1>1. \E x \in Sites : x # site
  OBVIOUS
<1>2. Partner(site) \in Sites /\ Partner(site) # site
  BY <1>1 DEF Partner
<1> QED
  BY <1>2 DEF Sites

\* The lines of pudc_template are of the IOB, or of an HP tile.
LEMMA TemplateSites ==
  ASSUME NEW p \in PudcSites, NEW a \in PudcTemplate(p)
  PROVE  /\ a.tile = p[1] /\ a.feature[1] \in Sites /\ p[2] \in Sites
         /\ p[1] \in Hp \/ a.feature[1] = p[2]
         /\ a.feature[2] # ""
         /\ a \in IobAdded
<1> DEFINE input == {Tag(p[1], p[2], tag) : tag \in {"IN", "PULLUP"}}
           both == {Tag(p[1], site, tag) : site \in Sites, tag \in {"SLEW", "STEPDOWN"}}
           partner == Tag(p[1], Partner(p[2]), "PULLDOWN")
<1>1. p[2] \in Sites
  BY IobAssumption DEF IobAssumption
<1>2. Partner(p[2]) \in Sites
  <2>1. \E x \in Sites : x # p[2]
    BY DEF Sites
  <2> QED
    BY <2>1 DEF Partner
<1>3. a \in input \/ (p[1] \in Hp /\ (a \in both \/ a = partner))
  BY DEF PudcTemplate
<1>4. a \in IobAdded
  BY DEF IobAdded
<1>5. \E site \in Sites, tag \in {"IN", "PULLUP", "SLEW", "STEPDOWN", "PULLDOWN"} :
        a = Tag(p[1], site, tag) /\ (p[1] \in Hp \/ site = p[2])
  <2>1. CASE a \in input
    BY <1>1, <2>1
  <2>2. CASE p[1] \in Hp /\ a \in both
    BY <2>2
  <2>3. CASE p[1] \in Hp /\ a = partner
    BY <1>2, <2>3
  <2> QED
    BY <1>3, <2>1, <2>2, <2>3
<1> HIDE DEF input, both, partner
<1>6. PICK site \in Sites, tag \in {"IN", "PULLUP", "SLEW", "STEPDOWN", "PULLDOWN"} :
        a = Tag(p[1], site, tag) /\ (p[1] \in Hp \/ site = p[2])
  BY <1>5
<1>7. a.tile = p[1] /\ a.feature = <<site, tag>>
  BY <1>6, TagFacts
<1>8. tag # ""
  OBVIOUS
<1>9. a.feature[1] = site /\ a.feature[2] = tag
  BY <1>7
<1> QED
  BY <1>1, <1>4, <1>6, <1>7, <1>8, <1>9

\* Every line of an IOB33 site has a tag.
LEMMA SiteHasTag ==
  ASSUME NEW b, b \in FileLines \cup IobAdded \/ GlueLine(b),
         b.tile \in Iob33, b.feature[1] \in Sites
  PROVE  b.feature[2] # ""
<1>1. CASE b \in FileLines
  BY <1>1, IobAssumption DEF IobAssumption
<1>2. CASE b \in IobAdded
  <2>1. ASSUME NEW p \in PudcSites, b \in PudcTemplate(p) PROVE b.feature[2] # ""
    BY <2>1, TemplateSites
  <2>2. ASSUME NEW t \in Iob33, NEW site \in Sites, b = Tag(t, site, "STEPDOWN")
        PROVE  b.feature[2] # ""
    <3>1. b.feature = <<site, "STEPDOWN">>
      BY <2>2, TagFacts
    <3> QED
      BY <3>1
  <2>3. \/ \E p \in PudcSites : b \in PudcTemplate(p)
        \/ \E t \in Iob33, site \in Sites : b = Tag(t, site, "STEPDOWN")
    BY <1>2 DEF IobAdded
  <2> QED
    BY <2>1, <2>2, <2>3
<1>3. CASE GlueLine(b)
  <2>1. PICK f \in GlueFeatures : b.feature = f
    BY <1>3 DEF GlueLine
  <2>2. f[1] \in Sites => f[2] # ""
    BY DEF GlueFeatures, Sites
  <2> QED
    BY <2>1, <2>2
<1> QED
  BY <1>1, <1>2, <1>3

\* A line that conflicts with the frames conflicts with a line that was enabled,
\* or with itself.
LEMMA ConflictIsWithLine ==
  ASSUME AsmInv, NEW line, state = "read", ~ Consistent(line)
  PROVE  \E b \in enabled \cup {line} : ~ Agree(line, b)
<1>1. FramesAgree /\ state # "inconsistent"
  BY DEF AsmInv
<1>2. CASE \E k \in SetBits(line) \cap DOMAIN frames : frames[k] # 1
  <2>1. PICK k \in SetBits(line) \cap DOMAIN frames : frames[k] # 1
    BY <1>2
  <2>2. PICK b \in enabled : k \in SetBits(b) \cup ClearBits(b)
    BY <1>1, <2>1 DEF FramesAgree
  <2>3. k \in ClearBits(b)
    BY <1>1, <2>1, <2>2 DEF FramesAgree
  <2> QED
    BY <2>1, <2>3 DEF Agree
<1>3. CASE \E k \in ClearBits(line) \cap DOMAIN frames : frames[k] # 0
  <2>1. PICK k \in ClearBits(line) \cap DOMAIN frames : frames[k] # 0
    BY <1>3
  <2>2. PICK b \in enabled : k \in SetBits(b) \cup ClearBits(b)
    BY <1>1, <2>1 DEF FramesAgree
  <2>3. k \in SetBits(b)
    BY <1>1, <2>1, <2>2 DEF FramesAgree
  <2> QED
    BY <2>1, <2>3 DEF Agree
<1>4. CASE SetBits(line) \cap ClearBits(line) # {}
  BY <1>4 DEF Agree
<1> QED
  BY <1>2, <1>3, <1>4 DEF Consistent

\* Two lines that are known agree if one is glue, if both are of the pull-up, or
\* if one is added for an IOB and the other is of some other place.
LEMMA KnownAgree ==
  ASSUME NEW a \in Known, NEW b \in Known, ~ Agree(a, b)
  PROVE  /\ ~ GlueLine(a) /\ ~ GlueLine(b)
         /\ \A p \in PudcSites : a \notin PudcTemplate(p) \/ b \notin PudcTemplate(p)
         /\ a \in IobAdded => a # b /\ MayDiffer(a, b)
<1>1. \A x, y : Agree(x, y) <=> Agree(y, x)
  BY DEF Agree
<1>2. ASSUME NEW x \in Known, GlueLine(x) PROVE x \in Glue
  BY <1>2 DEF Known, Glue, GlueLine
<1>3. \A x \in Glue \cap Known : \A y \in Known : Agree(x, y)
  BY IobAssumption DEF IobAssumption
<1>4. \A p \in PudcSites : \A x, y \in PudcTemplate(p) \cap Known : Agree(x, y)
  BY IobAssumption DEF IobAssumption
<1>5. \A x \in IobAdded \cap Known : Agree(x, x) /\ \A y \in Known : Agree(x, y) \/ MayDiffer(x, y)
  BY IobAssumption DEF IobAssumption
<1> QED
  BY <1>1, <1>2, <1>3, <1>4, <1>5

\* A line that the tool adds conflicts only with a line of the file on the other
\* IOB of the tile of PUDC_B.
LEMMA AddedConflict ==
  ASSUME AgreeInv, NEW a \in pending, NEW b \in Set \cup {a}, a \in Known, b \in Known,
         ~ Agree(a, b), phase # "file"
  PROVE  /\ phase = "pudc" /\ b \in Set
         /\ \E p \in pudc : /\ p[1] \in Hp /\ b \notin PudcTemplate(p)
                            /\ b.tile = p[1] /\ b.feature[1] = Partner(p[2])
<1>1. ~ GlueLine(a) /\ ~ GlueLine(b)
  BY KnownAgree
<1>2. a \in IobAdded => a # b /\ MayDiffer(a, b)
  BY KnownAgree
<1>3. CASE phase = "pudc"
  <2>1. PICK p \in pudc :
          /\ a \in PudcTemplate(p)
          /\ \A c \in Set : c \in PudcTemplate(p) \/ c.tile # p[1] \/ c.feature[1] # p[2]
    BY <1>3 DEF AgreeInv, PullsAlone
  <2>2. p \in PudcSites
    BY DEF AgreeInv
  <2>3. b \notin PudcTemplate(p)
    BY <2>1, <2>2, KnownAgree
  <2>4. /\ a.tile = p[1] /\ a.feature[1] \in Sites /\ p[2] \in Sites
        /\ p[1] \in Hp \/ a.feature[1] = p[2]
        /\ a \in IobAdded
    BY <2>1, <2>2, TemplateSites
  <2>5. b \in Set /\ b.tile = p[1]
        /\ (a.feature[1] = b.feature[1] \/ (a.tile \in Hp /\ b.feature[1] \in Sites))
    BY <1>2, <2>4 DEF MayDiffer
  <2>6. b.feature[1] \in Sites /\ b.feature[1] # p[2]
    BY <2>1, <2>3, <2>4, <2>5
  <2>7. p[1] \in Hp /\ b.feature[1] = Partner(p[2])
    BY <2>4, <2>5, <2>6, OtherSite
  <2> QED
    BY <1>3, <2>3, <2>5, <2>7
<1>4. CASE phase = "stepdown"
  <2>1. StepsAlone(a)
    <3>1. ASSUME NEW t, a = Tag(t, "STEPDOWN", "") PROVE FALSE
      <4>1. <<"STEPDOWN", "">> \in GlueFeatures
        BY DEF GlueFeatures
      <4> QED
        BY <1>1, <3>1, <4>1, TagIsGlue
    <3> QED
      BY <1>4, <3>1 DEF AgreeInv
  <2>2. PICK t \in Iob33, site \in Sites :
          /\ a = Tag(t, site, "STEPDOWN")
          /\ \A c \in Set : (c.tile = t /\ c.feature[1] = site) => c = a
    BY <2>1 DEF StepsAlone
  <2>3. a.tile = t /\ a.feature = <<site, "STEPDOWN">>
    BY <2>2, TagFacts
  <2>4. a \in IobAdded
    BY <2>2 DEF IobAdded
  <2>5. t \notin Hp
    BY Fasm2FramesAssumption DEF Fasm2FramesAssumption
  <2>6. b \in Set /\ a.tile = b.tile /\ a.feature[1] = b.feature[1]
    BY <1>2, <2>3, <2>4, <2>5 DEF MayDiffer
  <2>7. b.tile = t /\ b.feature[1] = site
    BY <2>3, <2>6
  <2>8. b = a
    BY <2>2, <2>6, <2>7
  <2> QED
    BY <1>2, <2>4, <2>8
<1>5. CASE phase \in {"glue", "frames"}
  BY <1>1, <1>5 DEF AgreeInv
<1> QED
  BY <1>3, <1>4, <1>5 DEF AgreeInv

\* What is known of the lines whose bits the database has.
LEMMA KnownLine ==
  ASSUME NEW a, a \in FileLines \cup IobAdded \/ GlueLine(a), a.tile \in Tiles, ~ IsMissing(a)
  PROVE  a \in Known
<1>1. GlueLine(a) => a \in Glue
  BY DEF GlueLine, Glue
<1> QED
  BY <1>1 DEF Known

\* A line that is read or added.
LEMMA SetGrows ==
  ASSUME NEW line, AddLine(line)
  PROVE  Set' = Set \cup {line}
<1> DEFINE s == [line |-> line, value |-> TRUE]
<1>1. s.line = line /\ s.value
  OBVIOUS
<1>2. set_features' = set_features \cup {s}
  BY DEF AddLine, Callback
<1> HIDE DEF s
<1> QED
  BY <1>1, <1>2 DEF Set

LEMMA AgreeAddLine ==
  ASSUME ToolInv, AgreeInv, NEW line, AddLine(line),
         \/ line \in FileLines /\ phase = "file" /\ pending' = pending
         \/ line \in pending /\ phase # "file" /\ pending' = pending \ {line}
  PROVE  AgreeInv'
<1>1. Set' = Set \cup {line}
  BY SetGrows
<1>2. UNCHANGED <<pudc, phase>> /\ pending' \subseteq pending
  BY DEF AddLine
<1>3. \A a \in Set \cup pending \cup {line} : a \in FileLines \cup IobAdded \/ GlueLine(a)
  BY DEF AgreeInv
<1>4. /\ state = "read"
      /\ enabled' = enabled \/ (/\ enabled' = enabled \cup {line}
                                /\ line.tile \in Tiles /\ ~ IsMissing(line))
  BY DEF AddLine, UnknownTile, EnableFeature, InconsistentBits, MissingFeature
<1>5. enabled' \subseteq Set' /\ \A a \in enabled' : a.tile \in Tiles /\ ~ IsMissing(a)
  BY <1>1, <1>4 DEF AgreeInv
<1>6. phase = "pudc" => \A a \in pending' : PullsAlone(a)'
  <2> SUFFICES ASSUME phase = "pudc", NEW a \in pending' PROVE PullsAlone(a)'
    OBVIOUS
  <2>1. PullsAlone(a) /\ PullsAlone(line)
    BY <1>2 DEF AgreeInv
  <2>2. PICK p \in pudc :
          /\ a \in PudcTemplate(p)
          /\ \A b \in Set : b \in PudcTemplate(p) \/ b.tile # p[1] \/ b.feature[1] # p[2]
    BY <2>1 DEF PullsAlone
  <2>3. line \in PudcTemplate(p)
    BY <2>1 DEF PullsAlone, AgreeInv
  <2> QED
    BY <1>1, <1>2, <2>2, <2>3 DEF PullsAlone
<1>7. phase = "stepdown" => \A a \in pending' : StepsAlone(a)' \/ \E t : a = Tag(t, "STEPDOWN", "")
  <2> SUFFICES ASSUME phase = "stepdown", NEW a \in pending', StepsAlone(a) PROVE StepsAlone(a)'
    BY <1>2 DEF AgreeInv
  <2>1. PICK t \in Iob33, site \in Sites :
          /\ a = Tag(t, site, "STEPDOWN")
          /\ \A b \in Set : (b.tile = t /\ b.feature[1] = site) => b = a
    BY DEF StepsAlone
  <2>2. (line.tile = t /\ line.feature[1] = site) => line = a
    <3>1. CASE StepsAlone(line)
      <4>1. PICK u \in Iob33, other \in Sites : line = Tag(u, other, "STEPDOWN")
        BY <3>1 DEF StepsAlone
      <4>2. line.tile = u /\ line.feature = <<other, "STEPDOWN">>
        BY <4>1, TagFacts
      <4> QED
        BY <2>1, <4>1, <4>2
    <3>2. ASSUME NEW h, line = Tag(h, "STEPDOWN", "") PROVE line.feature[1] # site
      <4>1. line.feature[1] = "STEPDOWN"
        BY <3>2 DEF Tag
      <4>2. "STEPDOWN" \notin Sites
        BY DEF Sites
      <4> QED
        BY <4>1, <4>2
    <3>3. StepsAlone(line) \/ \E h : line = Tag(h, "STEPDOWN", "")
      BY DEF AgreeInv
    <3> QED
      BY <3>1, <3>2, <3>3
  <2> QED
    BY <1>1, <2>1, <2>2 DEF StepsAlone
<1>8. AddedAgrees'
  <2> SUFFICES ASSUME state' = "inconsistent", phase # "file"
               PROVE  /\ phase = "pudc"
                      /\ \E p \in pudc : p[1] \in Hp /\ \E l \in Set' \ PudcTemplate(p) :
                           l.tile = p[1] /\ l.feature[1] = Partner(p[2])
    BY <1>2 DEF AddedAgrees
  <2>1. line \in pending /\ line.tile \in Tiles /\ ~ IsMissing(line) /\ ~ Consistent(line)
    BY <1>4 DEF AddLine, UnknownTile, EnableFeature, InconsistentBits, MissingFeature
  <2>2. PICK b \in enabled \cup {line} : ~ Agree(line, b)
    BY <1>4, <2>1, ConflictIsWithLine DEF ToolInv
  <2>3. b \in Set \cup {line} /\ b.tile \in Tiles /\ ~ IsMissing(b)
    BY <2>1 DEF AgreeInv
  <2>4. line \in Known /\ b \in Known
    BY <1>3, <2>1, <2>3, KnownLine
  <2> QED
    BY <1>1, <2>1, <2>2, <2>3, <2>4, AddedConflict
<1> QED
  BY <1>1, <1>2, <1>3, <1>5, <1>6, <1>7, <1>8 DEF AgreeInv


\* The lines of the next phase.
LEMMA AgreePhase ==
  ASSUME AgreeInv, NextPhase
  PROVE  AgreeInv'
<1>1. /\ state = "read" /\ pending = {} /\ phase # "frames"
      /\ phase' = After(phase) /\ pending' \in LinesOf(phase')
      /\ UNCHANGED <<state, enabled, set_features, pudc, emit>>
  BY DEF NextPhase
<1>2. Set' = Set /\ Used33' = Used33
  BY <1>1 DEF Set, Used33
<1>3. AddedAgrees' /\ phase' \in {"pudc", "stepdown", "glue", "frames"}
  BY <1>1 DEF AddedAgrees, After
<1>4. \A a \in Set : a \in FileLines \cup IobAdded \/ GlueLine(a)
  BY DEF AgreeInv
<1>5. CASE phase' = "pudc"
  <2>1. pending' = PudcLines
    BY <1>1, <1>5 DEF LinesOf
  <2>2. ASSUME NEW a \in PudcLines PROVE a \in IobAdded /\ PullsAlone(a)
    <3>1. ~ PudcUsed
      BY DEF PudcLines
    <3>2. PICK p \in pudc : a \in PudcTemplate(p)
      BY <3>1 DEF PudcLines
    <3>3. a \in IobAdded
      BY <3>2, TemplateSites DEF AgreeInv
    <3>4. \A b \in Set : b.tile # p[1] \/ b.feature[1] # p[2]
      BY <3>1 DEF PudcUsed, Set
    <3> QED
      BY <3>2, <3>3, <3>4 DEF PullsAlone
  <2>3. ASSUME NEW a \in pending' PROVE PullsAlone(a)'
    BY <1>1, <1>2, <2>1, <2>2 DEF PullsAlone
  <2> QED
    BY <1>1, <1>2, <1>3, <1>4, <1>5, <2>1, <2>2, <2>3 DEF AgreeInv
<1>6. CASE phase' = "stepdown"
  <2>1. pending' = StepdownLines
    BY <1>1, <1>6 DEF LinesOf
  <2>2. ASSUME NEW a \in StepdownLines
        PROVE  \/ \E t \in Iob33, site \in Sites :
                    a = Tag(t, site, "STEPDOWN") /\ <<t, site>> \notin Used33
               \/ \E t : a = Tag(t, "STEPDOWN", "")
    <3> DEFINE banks == UNION {TileToBank[l.tile] : l \in {x \in Set : x.feature[2] = "STEPDOWN"}}
               tiles == UNION {BankToTile[b] : b \in banks}
               unused == ((tiles \cap Iob33) \X Sites) \ Used33
    <3>1. StepdownLines = {Tag(s[1], s[2], "STEPDOWN") : s \in unused} \cup
                          {Tag(h, "STEPDOWN", "") : h \in tiles \cap Hclk}
      BY DEF StepdownLines
    <3>2. \A s \in unused : s[1] \in Iob33 /\ s[2] \in Sites /\ <<s[1], s[2]>> \notin Used33
      <4> HIDE DEF tiles
      <4> QED
        OBVIOUS
    <3> HIDE DEF tiles, unused
    <3> QED
      BY <3>1, <3>2
  <2>3. ASSUME NEW t \in Iob33, NEW site \in Sites, <<t, site>> \notin Used33, NEW b \in Set,
               b.tile = t, b.feature[1] = site
        PROVE  FALSE
    <3>1. b.feature[2] # ""
      BY <1>4, <2>3, SiteHasTag
    <3> QED
      BY <2>3, <3>1 DEF Used33
  <2>4. ASSUME NEW a \in pending'
        PROVE  StepsAlone(a)' \/ \E t : a = Tag(t, "STEPDOWN", "")
    <3>1. ASSUME NEW t \in Iob33, NEW site \in Sites, a = Tag(t, site, "STEPDOWN"),
                 <<t, site>> \notin Used33
          PROVE  StepsAlone(a)'
      BY <1>2, <2>3, <3>1 DEF StepsAlone
    <3> QED
      BY <2>1, <2>2, <3>1
  <2>5. ASSUME NEW a \in pending' PROVE a \in IobAdded \/ GlueLine(a)
    <3>1. <<"STEPDOWN", "">> \in GlueFeatures
      BY DEF GlueFeatures
    <3>2. \A t : GlueLine(Tag(t, "STEPDOWN", ""))
      BY <3>1, TagIsGlue
    <3>3. \A t \in Iob33, site \in Sites : Tag(t, site, "STEPDOWN") \in IobAdded
      BY DEF IobAdded
    <3> QED
      BY <2>1, <2>2, <3>2, <3>3
  <2> QED
    BY <1>1, <1>2, <1>3, <1>4, <1>6, <2>4, <2>5 DEF AgreeInv
<1>7. CASE phase' = "glue"
  <2>1. \A a \in pending' : GlueLine(a)
    BY <1>1, <1>7, GlueLines DEF LinesOf
  <2> QED
    BY <1>1, <1>2, <1>3, <1>4, <1>7, <2>1 DEF AgreeInv
<1>8. CASE phase' = "frames"
  <2>1. pending' = {}
    BY <1>1, <1>8 DEF LinesOf
  <2> QED
    BY <1>1, <1>2, <1>3, <1>4, <1>8, <2>1 DEF AgreeInv
<1> QED
  BY <1>3, <1>5, <1>6, <1>7, <1>8

LEMMA AgreeStep == ASSUME ToolInv, AgreeInv, [ToolNext]_toolVars PROVE AgreeInv'
<1>1. ASSUME Set' = Set, UNCHANGED <<enabled, pudc, phase, pending>>,
             state' = "inconsistent" => state = "inconsistent"
      PROVE  AgreeInv'
  <2>1. \A a : (PullsAlone(a) => PullsAlone(a)') /\ (StepsAlone(a) => StepsAlone(a)')
    BY <1>1 DEF PullsAlone, StepsAlone
  <2>2. AddedAgrees'
    BY <1>1 DEF AgreeInv, AddedAgrees
  <2>3. phase = "stepdown" =>
          \A a \in pending : StepsAlone(a)' \/ \E t : a = Tag(t, "STEPDOWN", "")
    BY <2>1 DEF AgreeInv
  <2> QED
    BY <1>1, <2>1, <2>2, <2>3 DEF AgreeInv
<1>2. ASSUME NEW t \in RoiTiles, MarkRoi(t) PROVE AgreeInv'
  BY <1>1, <1>2 DEF MarkRoi, MarkRoiTile, glueVars, Set
<1>3. ASSUME NEW line \in FileLines, FileLine(line) PROVE AgreeInv'
  BY <1>3, AgreeAddLine DEF FileLine
<1>4. ASSUME NEW line \in FileLines, ZeroLine(line) PROVE AgreeInv'
  <2>1. Set' = Set
    BY <1>4 DEF ZeroLine, Callback, Set
  <2> QED
    BY <1>1, <1>4, <2>1 DEF ZeroLine, vars, asmVars
<1>5. ASSUME NEW line \in pending, ToolLine(line) PROVE AgreeInv'
  BY <1>5, AgreeAddLine DEF ToolLine
<1>6. CASE NextPhase
  BY <1>6, AgreePhase
<1>7. CASE MissingEnds
  BY <1>1, <1>7 DEF MissingEnds, LookupError, glueVars, Set
<1>8. ASSUME NEW sparse \in BOOLEAN, Frames(sparse) PROVE AgreeInv'
  BY <1>1, <1>8 DEF Frames, GetFrames, glueVars, Set
<1>9. CASE Disassembly \/ Foreign \/ UNCHANGED toolVars
  BY <1>1, <1>9
     DEF Disassembly, HandOver, Disassemble, Foreign, toolVars, vars, asmVars, glueVars, Set
<1> QED
  BY <1>2, <1>3, <1>4, <1>5, <1>6, <1>7, <1>8, <1>9 DEF ToolNext

\* For any part and any file, where the database is as IobAssumption has it, a line
\* that fasm2frames adds contradicts neither the file nor another added line, but
\* for the file's own use of the other IOB of an HP tile with PUDC_B.
THEOREM AddedLinesAgree == ToolSpec => []AddedAgrees
<1>1. ToolInit => AgreeInv
  BY DEF ToolInit, Init, AsmInit, AgreeInv, AddedAgrees, Set
<1>2. ToolInv /\ AgreeInv /\ [ToolNext]_toolVars => AgreeInv'
  BY AgreeStep
<1>3. ToolInv /\ [ToolNext]_toolVars => ToolInv'
  BY ToolInvStep
<1>4. AgreeInv => AddedAgrees
  BY DEF AgreeInv
<1> QED
  BY ToolInvInit, <1>1, <1>2, <1>3, <1>4, PTL DEF ToolSpec
=============================================================================
