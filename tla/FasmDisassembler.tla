--------------------------- MODULE FasmDisassembler ---------------------------
(***************************************************************************)
(* prjxray/fasm_disassembler.py, find_features_in_bitstream: the features  *)
(* of a bitstream.  The frames that have a bit set are taken in the order  *)
(* of a Python set, which is any order.  Each tile is looked at once, when *)
(* the first of its frames with data in its words is taken; at the end of  *)
(* a frame the bits that some feature has explained are removed from the   *)
(* very data that the tiles of later frames are matched with.              *)
(***************************************************************************)
EXTENDS TileSegbits

CONSTANT Bitstreams   \* the bitstreams that are read: sets of bits

Bits == Nat \X Nat \X Nat

ASSUME FasmDisassemblerAssumption == \A data \in Bitstreams : data \subseteq Bits

VARIABLES
  original,       \* the bits set in the bitstream, <<frame, word, index>>
  bitdata,        \* bitdata[frame][1], for all frames: the bits left
  frames_left,    \* frames
  frame,          \* the frame at hand
  segments_left,  \* segments of that frame not yet looked at
  solved_bitdata,
  tiles_checked,
  emitted,        \* emitted_features, <<segment, name>>
  unknown,        \* bits reported as not converted
  pc

disVars == <<original, bitdata, frames_left, frame, segments_left,
             solved_bitdata, tiles_checked, emitted, unknown, pc>>

FramesWithData(data) == {k[1] : k \in data}

\* The words of the frame that had data, bitdata[frame][0], include one of the
\* segment: that set of words never changes.
AnyColumn(s, f) == \E k \in original : k[1] = f /\ k[2] \in WordsOf(s)

Load(data) ==
  /\ original' = data /\ bitdata' = data
  /\ frames_left' = FramesWithData(data)
  /\ pc' = IF data = {} THEN "done" ELSE "pop"
  /\ UNCHANGED <<frame, segments_left, solved_bitdata, tiles_checked, emitted,
                 unknown>>

DisInit ==
  /\ original = {} /\ bitdata = {} /\ frames_left = {} /\ frame = 0
  /\ segments_left = {} /\ solved_bitdata = {} /\ tiles_checked = {}
  /\ emitted = {} /\ unknown = {} /\ pc = "load"

\* Faulty form of PopFrame: the frame stays in the set.
PopFrameStays(f) ==
  /\ pc = "pop"
  /\ f \in frames_left
  /\ frame' = f
  /\ segments_left' = SegmentsAt(f)
  /\ pc' = "tiles"
  /\ UNCHANGED <<original, bitdata, frames_left, solved_bitdata, tiles_checked,
                 emitted, unknown>>

\* frame = frames.pop().
PopFrame(f) ==
  /\ pc = "pop"
  /\ f \in frames_left
  /\ frames_left' = frames_left \ {f}
  /\ frame' = f
  /\ segments_left' = SegmentsAt(f)
  /\ pc' = "tiles"
  /\ UNCHANGED <<original, bitdata, solved_bitdata, tiles_checked, emitted, unknown>>

\* Faulty form of SkipTile: the tile counts as checked at the first of its
\* frames, even if it has no data there.
SkipTileChecked(s) ==
  /\ pc = "tiles"
  /\ s \in segments_left
  /\ s \in tiles_checked \/ ~ AnyColumn(s, frame)
  /\ segments_left' = segments_left \ {s}
  /\ tiles_checked' = tiles_checked \cup {s}
  /\ UNCHANGED <<original, bitdata, frames_left, frame, solved_bitdata, emitted,
                 unknown, pc>>

\* A tile that was looked at before, or has no data in this frame.
SkipTile(s) ==
  /\ pc = "tiles"
  /\ s \in segments_left
  /\ s \in tiles_checked \/ ~ AnyColumn(s, frame)
  /\ segments_left' = segments_left \ {s}
  /\ UNCHANGED <<original, bitdata, frames_left, frame, solved_bitdata,
                 tiles_checked, emitted, unknown, pc>>

\* Faulty form of CheckTile: only the bits of the frame at hand are solved.
CheckTileHere(s) ==
  /\ pc = "tiles"
  /\ s \in segments_left
  /\ s \notin tiles_checked /\ AnyColumn(s, frame)
  /\ LET matching == {name \in Names(s) : Matches(s, name, bitdata)}
     IN  /\ solved_bitdata' = solved_bitdata \cup
                                {k \in UNION {Ones(s, n) : n \in matching} : k[1] = frame}
         /\ emitted' = emitted \cup {<<s, n>> : n \in matching}
  /\ tiles_checked' = tiles_checked \cup {s}
  /\ segments_left' = segments_left \ {s}
  /\ UNCHANGED <<original, bitdata, frames_left, frame, unknown, pc>>

\* find_features_in_tile: the features that match, all their set bits solved.
CheckTile(s) ==
  /\ pc = "tiles"
  /\ s \in segments_left
  /\ s \notin tiles_checked /\ AnyColumn(s, frame)
  /\ LET matching == {name \in Names(s) : Matches(s, name, bitdata)}
     IN  /\ solved_bitdata' = solved_bitdata \cup UNION {Ones(s, n) : n \in matching}
         /\ emitted' = emitted \cup {<<s, n>> : n \in matching}
  /\ tiles_checked' = tiles_checked \cup {s}
  /\ segments_left' = segments_left \ {s}
  /\ UNCHANGED <<original, bitdata, frames_left, frame, unknown, pc>>

\* Faulty form of EndFrame: solved bits are removed from all frames.
EndFrameAll ==
  /\ pc = "tiles"
  /\ segments_left = {}
  /\ bitdata' = bitdata \ solved_bitdata
  /\ unknown' = unknown \cup {k \in bitdata' : k[1] = frame}
  /\ pc' = IF frames_left = {} THEN "done" ELSE "pop"
  /\ UNCHANGED <<original, frames_left, frame, segments_left, solved_bitdata,
                 tiles_checked, emitted>>

\* remaining_bits -= solved_bitdata[frame] changes the set in bitdata; what is
\* left in it is reported.
EndFrame ==
  /\ pc = "tiles"
  /\ segments_left = {}
  /\ bitdata' = {k \in bitdata : k[1] = frame => k \notin solved_bitdata}
  /\ unknown' = unknown \cup {k \in bitdata' : k[1] = frame}
  /\ pc' = IF frames_left = {} THEN "done" ELSE "pop"
  /\ UNCHANGED <<original, frames_left, frame, segments_left, solved_bitdata,
                 tiles_checked, emitted>>

DisReturn == pc = "done" /\ UNCHANGED disVars

DisStep ==
  \/ \E f \in frames_left : PopFrame(f)
  \/ \E s \in segments_left : SkipTile(s) \/ CheckTile(s)
  \/ EndFrame

DisNext == (\E data \in Bitstreams : pc = "load" /\ Load(data)) \/ DisStep \/ DisReturn

\* A loop without waiting: it takes its next step.
DisSpec == DisInit /\ [][DisNext]_disVars /\ WF_disVars(DisStep)
-----------------------------------------------------------------------------
\* Type invariant.
DisTypeOK ==
  /\ original \subseteq Bits /\ bitdata \subseteq original
  /\ frames_left \subseteq FramesWithData(original)
  /\ frame \in Nat
  /\ segments_left \subseteq SegmentsAt(frame)
  /\ solved_bitdata \subseteq original
  /\ tiles_checked \subseteq Segments
  /\ \A e \in emitted : e[1] \in tiles_checked /\ e[2] \in Names(e[1])
  /\ unknown \subseteq original
  /\ pc \in {"load", "pop", "tiles", "done"}

\* The features of a bitstream, without an order of looking at anything: those
\* whose bits are all as the database has them, of the segments with data in one of their frames.
FeaturesOf(data) ==
  LET used == {s \in Segments : \E k \in data : k[1] \in FramesOf(s) /\ k[2] \in WordsOf(s)}
  IN  UNION {{<<s, n>> : n \in {x \in Names(s) : /\ Ones(s, x) \subseteq data
                                              /\ Zeros(s, x) \cap data = {}}} : s \in used}

\* What is emitted is what the bitstream has, in whatever order the set of
\* frames was taken: the removal of solved bits from the data that later tiles
\* are matched with (fasm_disassembler.py:136) is never seen by one of them,
\* if the database has each bit of a feature in the feature's segment.
DecodedIsMatch ==
  SegbitsFit /\ pc = "done" => emitted = FeaturesOf(original)

\* The bits reported as not converted are those that no emitted feature has:
\* no bit is lost, and none is reported before the feature that has it is found.
UnknownIsExact ==
  SegbitsFit /\ pc = "done" =>
    unknown = original \ UNION {Ones(e[1], e[2]) : e \in emitted}

\* Every frame is taken once and the generator is exhausted.
DisReturns == pc # "load" ~> pc = "done"
=============================================================================
