--------------------------- MODULE TilegridSilicon --------------------------
(***************************************************************************)
(* What TilegridFull takes for granted of a device: where the bits of its  *)
(* tiles lie relative to those of their neighbours.  The comments and the  *)
(* assertions of generate_full.py tell of it.                              *)
(***************************************************************************)
EXTENDS TilegridFull

FabricTypes == Ints \cup Hclks

\* Tiles of one column of the configuration memory, next to one of interconnect or
\* of interfaces of a type.
InColumn(t, u) ==
  /\ {t, u} \subseteq DOMAIN Silicon /\ Silicon[t].base = Silicon[u].base
  /\ \/ {Type(t), Type(u)} \subseteq FabricTypes
     \/ Type(t) = Type(u) /\ Type(t) \in Interfaces

\* A column goes on from tile t that way, and tile u is in it.
Further(t, u, way) == InColumn(t, u) /\ way * (Tilegrid[u].y - Tilegrid[t].y) > 0

\* A block is within the frames of its column; what is solved of a tile fits.
BlockLaw ==
  \A t \in DOMAIN Silicon :
    /\ Silicon[t] \in [base : Int \X Int, frames : Nat, offset : Nat, words : Nat \ {0}]
    /\ Silicon[t].base \in DOMAIN MaxFrames /\ MaxFrames[Silicon[t].base] \in Nat
    /\ Silicon[t].frames <= MaxFrames[Silicon[t].base]
    /\ Silicon[t].offset + Silicon[t].words <= WordCount

\* Every tile of a type has the frames and words of that type.
TypeLaw(types, frames, words) ==
  \A t \in DOMAIN Silicon : Type(t) \in types =>
    Silicon[t].frames = Smaller(frames, MaxFrames[Silicon[t].base]) /\ Silicon[t].words = words

\* INT_L and INT_R are in pairs, in columns next to each other, at one offset.
PairLaw ==
  /\ \A t \in AllTiles : Type(t) \in Ints =>
       \A o \in Lateral(t) : Type(o) \in Ints \ {Type(t)} /\ (t \in DOMAIN Silicon => o \in DOMAIN Silicon)
  /\ \A l \in DOMAIN Silicon : Type(l) = "INT_L" =>
       \A r \in Lateral(l) : /\ Silicon[r].base = <<Silicon[l].base[1], Silicon[l].base[2] + 1>>
                             /\ Silicon[r].offset = Silicon[l].offset
  /\ \A t, u \in DOMAIN Silicon :
       (InColumn(t, u) /\ {Type(t), Type(u)} \subseteq Ints /\ Lateral(t) # {}) => Lateral(u) # {}

\* A column is a stack of INTs of one side, with an HCLK between, without gaps.
\* It ends with an end of a clock row or above a hard block.
FabricLaw ==
  \A t \in DOMAIN Silicon : Type(t) \in FabricTypes =>
    /\ \A u \in DOMAIN Silicon : \A way \in {Up, Down} :
         Further(t, u, way) => \E n \in Beyond(t, way, 1) : InColumn(t, n)
    /\ \A u \in DOMAIN Silicon : InColumn(t, u) =>
         /\ Tilegrid[t].x = Tilegrid[u].x
         /\ {Type(t), Type(u)} \subseteq Ints => Type(t) = Type(u)
    /\ \A n \in Beyond(t, Up, 1) : InColumn(t, n) =>
         /\ Adjoin(t, n) /\ Adjoin(n, t)
         /\ Silicon[n].offset = Silicon[t].offset + Silicon[t].words
    /\ \A way \in {Up, Down} :
         /\ Beyond(t, way, 1) # {}
         /\ \A n \in Beyond(t, way, 1) : ~ InColumn(t, n) =>
              IF Silicon[t].offset = (IF way = Down THEN 0 ELSE LastOffset)
              THEN Type(n) \in EndsOf[way]
              ELSE way = Down /\ Type(t) \in Hclks /\ Type(n) = "PCIE_NULL"

\* A column of interfaces is a stack without gaps, but for an HCLK tile of a word.
InterfaceLaw ==
  \A t \in DOMAIN Silicon : Type(t) \in Interfaces =>
    \A way \in {Up, Down} :
      /\ NextInterface(t, way) # {}
      /\ \A n \in NextInterface(t, way) :
           /\ Type(n[1]) = Type(t) =>
                InColumn(t, n[1]) /\ Silicon[n[1]].offset = Silicon[t].offset - way * n[2]
           /\ \A u \in DOMAIN Silicon : Further(t, u, way) => Type(n[1]) = Type(t)
      /\ \A u \in DOMAIN Silicon : InColumn(t, u) => Tilegrid[t].x = Tilegrid[u].x

\* Rebufs are at these distances of a clock row, in its column.
RebufLaw ==
  \A t \in AllTiles : Type(t) \in Hrows =>
    /\ t \in DOMAIN Silicon => Silicon[t].offset = RebufAt.hrow
    /\ \A d \in {<<Up, 12, RebufAt.over>>, <<Down, 13, RebufAt.under>>} :
         \E n \in Beyond(t, d[1], d[2]) :
           /\ Type(n) = "CLK_BUFG_REBUF"
           /\ t \in DOMAIN Silicon =>
                n \in DOMAIN Silicon /\ Silicon[n] = [Silicon[t] EXCEPT !.offset = d[3], !.words = 4]

\* A column of IOBs or of IOIs ends with half tiles: the one at the top has the
\* words 0 and 1 of a full tile, at the end of the frame, the one at the bottom
\* the words 2 and 3, at the beginning.  The tiles between have blocks of one size.
HalfLaw(full) ==
  \A t \in AllTiles : Type(t) \in full =>
    /\ \E bottom \in Nearest(SingsBeyond(t, Down), t) :
         SingsBeyond(bottom, Up) # {} /\ \E last \in Beyond(bottom, Up, 1) : Type(last) \in full
    /\ \A bottom \in Nearest(SingsBeyond(t, Down), t) :
       \A top \in Nearest(SingsBeyond(bottom, Up), bottom) :
       \A last \in Beyond(bottom, Up, 1) : last \in DOMAIN Silicon =>
         /\ {top, bottom} \subseteq DOMAIN Silicon
         /\ Silicon[top] = [Silicon[last] EXCEPT !.words = 2, !.offset = LastOffset]
         /\ Silicon[bottom] = [Silicon[last] EXCEPT !.words = 2, !.offset = 0]
         /\ \A u \in DOMAIN Silicon \cap (Between(top, bottom) \ {top, bottom}) :
              Agree(Silicon[last], Silicon[u])
         /\ Lent[top] = [w \in {0, 1} |-> LastOffset + w]
         /\ Lent[bottom] = [w \in {2, 3} |-> w - 2]

\* An IOI at Y9 is in the column of the one above it.
Y9Law ==
  \A t \in Y9Tiles :
    /\ Type(t) \notin FabricTypes \cup Interfaces /\ SameAbove(t) # {}
    /\ \A s \in SameAbove(t) : s \in DOMAIN Silicon =>
         t \in DOMAIN Silicon /\ Silicon[t] = [Silicon[s] EXCEPT !.words = 4, !.offset = Y9Offset]

\* CFG_CENTER_MID has all words of the column of the INT to its right.
CfgLaw ==
  \A t \in AllTiles : Type(t) = "CFG_CENTER_MID" =>
    \A i \in FirstIntRight(t) : i \in DOMAIN Silicon =>
      /\ t \in DOMAIN Silicon
      /\ Silicon[t] = Segment(Silicon[i].base, MaxFrames[Silicon[i].base], 0, WordCount)

\* An HCLK tile that borrows has the word of the other.
HclkLaw ==
  \A t \in DOMAIN Silicon : Type(t) \in {"HCLK_L_BOT_UTURN", "HCLK_R_BOT_UTURN"} =>
    Lent[t] = [w \in {0} |-> Silicon[t].offset]

ASSUME SiliconAssumption ==
  /\ WordCount \in Nat
  /\ BlockLaw /\ PairLaw /\ FabricLaw /\ InterfaceLaw /\ RebufLaw /\ Y9Law /\ CfgLaw /\ HclkLaw
  /\ TypeLaw(Ints \cup Interfaces, 28, 2) /\ TypeLaw(Hclks, 26, 1)
  /\ HalfLaw(Iobs) /\ HalfLaw(Iois)
=============================================================================
