------------------------------ MODULE Segmaker ------------------------------
(***************************************************************************)
(* Segmaker of prjxray/segmaker.py: of the bitstream of one design and the *)
(* features that its design script has recorded as used or not used, it    *)
(* makes one segment for each place in the configuration memory: the bits  *)
(* that are set there and the tags, each with its value.  A design is a    *)
(* record of bits, tags and bt, the block type that set_def_bt has set.    *)
(***************************************************************************)
EXTENDS Integers, SequencesExt

CONSTANTS Grid,     \* the tiles of tilegrid.json in their order: records with name,
                    \* type, sites (a sequence) and bits, the blocks of the
                    \* tile by block type: records with base, offset, words
                    \* and frames
          SiteKey,  \* SiteKey[s]: what add_site_tags calls site s within its tile
          Ignored  \* bits <<frame, bit>> that the bit filter drops

WordBits == 32
ColumnFrames == 128

\* The name of a bit of block b of a tile, from its place in the bitstream.
BitName(b, frame, word, bit) == <<frame - b.base, WordBits * (word - b.offset) + bit>>

\* add_segbits: the bits of the column of the block, in the words and the frames
\* of the block.
SegmentBits(bits, b) ==
  { BitName(b, x[1], x[2], x[3]) :
      x \in {y \in bits : /\ y[1] - (y[1] % ColumnFrames) = b.base
                          /\ y[2] \in b.offset .. b.offset + b.words - 1
                          /\ y[1] - b.base < b.frames} } \ Ignored

\* Tags recorded for place o, a tile or a site, under the name that key gives.
Recorded(tags, o, key) ==
  LET named == {x \in DOMAIN tags : x[1] = o} IN
    [t \in {<<key, x[2]>> : x \in named} |-> tags[<<o, t[2]>>]]

\* What tile t adds to the tags of its segment: tile tags, then those of one
\* site after the other.  A tag that is there already is overwritten.
TagsOf(tags, t) ==
  FoldLeft(LAMBDA have, s : Recorded(tags, s, SiteKey[s]) @@ have,
           Recorded(tags, t.name, ""), t.sites)

\* The block that is looked at: the only one, or that of the default type.
BlockOf(t, bt) == t.bits[IF Cardinality(DOMAIN t.bits) = 1 THEN CHOOSE b \in DOMAIN t.bits : TRUE ELSE bt]

\* Tiles of one type at one place share a segment.
SegmentName(t, bt) == <<t.type, BlockOf(t, bt).base, BlockOf(t, bt).offset>>

\* The tiles for which something is recorded; those without a block in the
\* bitstream are passed over, whatever is.
Names(t) == {t.name} \cup Range(t.sites)
Compiled(design) ==
  {t \in Range(Grid) : DOMAIN t.bits # {} /\ \E x \in DOMAIN design.tags : x[1] \in Names(t)}

\* The assertions of compile: there is a block of the default type, tiles that
\* share a segment have blocks of one size, and no tag is left unused.
CompileFails(design) ==
  \/ \E t \in Range(Grid) : Cardinality(DOMAIN t.bits) > 1 /\ design.bt \notin DOMAIN t.bits
  \/ \E t, u \in Compiled(design) :
       SegmentName(t, design.bt) = SegmentName(u, design.bt) /\ BlockOf(t, design.bt) # BlockOf(u, design.bt)
  \/ \E x \in DOMAIN design.tags : x[1] \notin UNION {Names(t) : t \in Range(Grid)}

\* compile: the segments of one design that have a tag.
Compile(design) ==
  LET nameOf(t) == SegmentName(t, design.bt)
      tagsAt(name) ==
        FoldLeft(LAMBDA have, t :
                   IF t \in Compiled(design) /\ nameOf(t) = name
                   THEN TagsOf(design.tags, t) @@ have ELSE have, <<>>, Grid)
  IN  {[name |-> nameOf(t), bits |-> SegmentBits(design.bits, BlockOf(t, design.bt)),
        tags |-> tagsAt(nameOf(t))] : t \in Compiled(design)}

\* add_site_group_zero: the tags of a feature that has one of several values,
\* of which the zero value has no bits.  A value in use is recorded together
\* with the zero value only: others may share bits with it.
GroupZeroTags(site, vals, zero_val, val) ==
  IF val = zero_val THEN [x \in {site} \X vals |-> x[2] = val]
  ELSE [x \in {<<site, val>>} \cup {<<site, zero_val>> : v \in vals \cap {zero_val}} |->
          x[2] = val]
=============================================================================
