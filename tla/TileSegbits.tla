----------------------------- MODULE TileSegbits ------------------------------
(***************************************************************************)
(* The segbits of a part as fasm2frames and bit2fasm use them:             *)
(* prjxray/tile_segbits.py, prjxray/grid.py and prjxray/segment_map.py.    *)
(*                                                                         *)
(* A tile has bits in one or more segments, one for each block type: a     *)
(* range of frames and a range of words in them.  The database gives each  *)
(* feature of the tile the bits that must be set or clear, relative to the *)
(* segment.  A feature may have an address: the name of ALUT[3] is         *)
(* <<"ALUT", 3>> and that of BUF is <<"BUF", NoAddress>>.  A bit index is  *)
(* the pair of its word and its place in the word.                         *)
(***************************************************************************)
EXTENDS Integers

CONSTANTS
  Tiles,       \* tile names of the grid
  TileBits,    \* TileBits[t][b]: base_address, frames, offset and words of
               \* tile t's segment of block type b
  Segbits,     \* Segbits[t][b]: for each name the bits (column, word, index,
               \* isset) that the database of t's tile type has in b
  Ppips,       \* Ppips[t]: features of t without bits
  FrameWords   \* FRAME_WORD_COUNT, 101

NoAddress == -1

\* The order of the keys of the dict self.segbits.
BlockOrder == <<"CLB_IO_CLK", "BLOCK_RAM">>
BlockTypes == {"CLB_IO_CLK", "BLOCK_RAM"}

ASSUME TileSegbitsAssumption ==
  /\ FrameWords \in Nat
  /\ \A t \in Tiles :
       /\ DOMAIN TileBits[t] \subseteq BlockTypes
       /\ DOMAIN Segbits[t] \subseteq BlockTypes
       /\ \A b \in DOMAIN TileBits[t] :
            TileBits[t][b] \in
              [base_address : Nat, frames : Nat, offset : Nat, words : Nat]
       /\ \A b \in DOMAIN Segbits[t] : \A name \in DOMAIN Segbits[t][b] :
            Segbits[t][b][name] \subseteq
              [column : Nat, word : Nat, index : Nat, isset : BOOLEAN]
-----------------------------------------------------------------------------
\* iter_all_frames: the segments of all tiles.
Segments == {s \in Tiles \X BlockTypes : s[2] \in DOMAIN TileBits[s[1]]}

FramesOf(s) == LET b == TileBits[s[1]][s[2]]
               IN  b.base_address .. (b.base_address + b.frames - 1)
WordsOf(s) == LET b == TileBits[s[1]][s[2]]
              IN  b.offset .. (b.offset + b.words - 1)

\* Faulty form of SegmentsAt: the interval of a segment ends with its last frame,
\* which is then not of it.
SegmentsAtEnd(frame) == {s \in Segments : {frame, frame + 1} \subseteq FramesOf(s)}

\* SegmentMap.segment_info_for_frame.
SegmentsAt(frame) == {s \in Segments : frame \in FramesOf(s)}

\* The names that the database has for segment s.
Names(s) == IF s[2] \in DOMAIN Segbits[s[1]] THEN DOMAIN Segbits[s[1]][s[2]]
            ELSE {}

\* map_bit_to_frame: frame, word and index of a bit of segment s.
Key(s, bit) ==
  <<TileBits[s[1]][s[2]].base_address + bit.column,
    TileBits[s[1]][s[2]].offset + bit.word, bit.index>>

Ones(s, name) == {Key(s, bit) : bit \in {x \in Segbits[s[1]][s[2]][name] : x.isset}}
Zeros(s, name) == {Key(s, bit) : bit \in {x \in Segbits[s[1]][s[2]][name] : ~ x.isset}}

\* match_bitdata for one feature: every bit is as the database has it in data,
\* the set of all bits that are set.
Matches(s, name, data) ==
  Ones(s, name) \subseteq data /\ Zeros(s, name) \cap data = {}

\* feature_to_bits: where a feature is found, at most one <<segment, name>>.
\* Without an address or with address 0 the plain name is looked up first,
\* block type by block type; then feature_addresses, in which a later block
\* type has replaced an earlier one.
Found(t, feature, address) ==
  LET has(i, name) == /\ BlockOrder[i] \in DOMAIN Segbits[t]
                      /\ name \in DOMAIN Segbits[t][BlockOrder[i]]
      plain == {i \in {1, 2} : address = 0 /\ has(i, <<feature, NoAddress>>)}
      addressed == {i \in {1, 2} : has(i, <<feature, address>>)}
  IN  IF plain # {}
      THEN {<<<<t, BlockOrder[i]>>, <<feature, NoAddress>>>> :
              i \in {j \in plain : \A k \in plain : j <= k}}
      ELSE {<<<<t, BlockOrder[i]>>, <<feature, address>>>> :
              i \in {j \in addressed : \A k \in addressed : j >= k}}

\* Every bit of the database is in its segment.
SegbitsFit ==
  \A s \in Segments : \A name \in Names(s) : \A bit \in Segbits[s[1]][s[2]][name] :
    bit.column < TileBits[s[1]][s[2]].frames /\ bit.word < TileBits[s[1]][s[2]].words
=============================================================================
