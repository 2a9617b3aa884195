------------------------------ MODULE DbFixup -------------------------------
(***************************************************************************)
(* utils/dbfixup.py, as the Makefiles call it (without --strict): the      *)
(* lines of segmatch become entries of a database.  Segmatch only finds    *)
(* bits that are set; dbfixup adds bits that must be clear, and drops what *)
(* is not resolved or not told apart.                                      *)
(*                                                                         *)
(* A group of zero_db has the set of bits "when" of which one makes a line *)
(* a member, the bits "zero" that are clear in its members unless set, and *)
(* perhaps an all-zero tag; "A B ^ C" has tags instead, whose bits are its *)
(* bits, and C.                                                            *)
(***************************************************************************)
EXTENDS Segmatch

Plain(bits, all_zero) == [when |-> bits, zero |-> bits, all_zero |-> all_zero, tags |-> {}]
Pair(a, b) == [when |-> a, zero |-> b, all_zero |-> {}, tags |-> {}]
Caret(tags, all_zero) == [when |-> {}, zero |-> {}, all_zero |-> {all_zero}, tags |-> tags]

\* What zero_db files have: a bit makes a line a member of one group only, and
\* no tag is both.
IsZeroDb(zero_db) ==
  /\ \A i, j \in DOMAIN zero_db : i # j => zero_db[i].when \cap zero_db[j].when = {}
  /\ \A i, j \in DOMAIN zero_db : zero_db[i].tags \cap zero_db[j].all_zero = {}

NamesOf(line) == {b[2] : b \in line.bits}

\* Faulty form of CommonBits: the bits that all tags of the group have.
CommonBitsOfAll(lines, group) ==
  LET members == {l \in lines : l.tag \in group /\ l.mode = None} IN
    {b \in UNION {OnesOf(l) : l \in members} : \A l \in members : b \in OnesOf(l)}

\* find_common_bits_for_tag_groups: the bits that are set for one of the tags.
CommonBits(lines, group) ==
  UNION {OnesOf(l) : l \in {k \in lines : k.tag \in group /\ k.mode = None}}

\* group_tags, which writes every line anew: one that is not resolved is a tag
\* without bits and without mode from here on.
GroupTags(lines, tag_groups) ==
  {Line(l.tag,
        l.bits \cup Clear((UNION {CommonBits(lines, g) : g \in {h \in tag_groups : l.tag \in h}})
                          \ NamesOf(l)), None) : l \in lines}

\* The bits of a group once all lines are known.
ZeroBits(lines, group) ==
  group.zero \cup UNION {NamesOf(l) : l \in {k \in lines : k.tag \in group.tags}}

\* add_tag_bits: the groups whose bits a line must say.
MemberOf(line, group) == line.tag \in group.tags \/ OnesOf(line) \cap group.when # {}

AllZeroTags(zero_db) == UNION {zero_db[i].all_zero : i \in DOMAIN zero_db}
CaretTags(zero_db) == UNION {zero_db[i].tags : i \in DOMAIN zero_db}

\* add_tag_bits: a bit of a tag before "^" must be in no other group, and it is
\* entered with a list instead of a set: another tag before "^" that has it
\* fails the assertion, ...
Fails(lines, zero_db) ==
  \E l \in lines :
    /\ l.tag \in CaretTags(zero_db)
    /\ \/ \E i \in DOMAIN zero_db : OnesOf(l) \cap zero_db[i].when # {}
       \/ \E k \in lines \ {l} : k.tag \in CaretTags(zero_db) /\ OnesOf(l) \cap OnesOf(k) # {}

\* ... and any other tag that has it fails if it comes later in the order of a
\* Python set.
MayFail(lines, zero_db) ==
  \E l, k \in lines :
    /\ l.tag \in CaretTags(zero_db)
    /\ k.tag \notin CaretTags(zero_db) \cup AllZeroTags(zero_db)
    /\ OnesOf(l) \cap OnesOf(k) # {}

\* zero_range: of interconnect bits in frames 22 to 25 at one index, one is set.
InRange(bit) == bit[1] \in 22 .. 25
ZeroRange(line) ==
  LET indices == {b[2] : b \in {x \in OnesOf(line) : InRange(x)}} IN
    Clear({22, 23, 24, 25} \X indices \ OnesOf(line))

InconsistentIndex(line) ==
  \E b, c \in OnesOf(line) : InRange(b) /\ InRange(c) /\ b[2] # c[2]

\* add_bits_from_zero_groups, which asks for the bit itself, not for its
\* complement, before it adds that.
ZeroGroupBits(line, lines, zero_db) ==
  LET groups == {i \in DOMAIN zero_db :
                   \/ line.tag \in zero_db[i].all_zero
                   \/ /\ line.tag \notin AllZeroTags(zero_db)
                      /\ MemberOf(line, zero_db[i])}
  IN  Clear((UNION {ZeroBits(lines, zero_db[i]) : i \in groups}) \ OnesOf(line))

\* add_zero_bits: with --clb-int a line of any other number of set bits than two
\* or four is dropped; a line without bits always is.
AddZeroBits(lines, zero_db, clb_int) ==
  LET kept == {l \in lines : clb_int => Cardinality(OnesOf(l)) \in {2, 4}}
      Zeroed(l) == Line(l.tag, l.bits \cup (IF clb_int THEN ZeroRange(l) ELSE {})
                                 \cup ZeroGroupBits(l, lines, zero_db), None)
  IN  {l \in {Zeroed(k) : k \in kept} : l.bits # {}}

\* remove_ambiguous_solutions: tags with the same solution all go.
Unambiguous(lines) == {l \in lines : \A k \in lines : k.bits = l.bits => k = l}

\* update_seg_fns for one file.
Fixup(lines, zero_db, tag_groups, clb_int) ==
  Unambiguous(AddZeroBits(GroupTags(lines, tag_groups), zero_db, clb_int))

\* dbfixup ends with an error, whatever the order of lines is, or in some order.
FixupFails(lines, zero_db, tag_groups, clb_int) ==
  \/ Fails(GroupTags(lines, tag_groups), zero_db)
  \/ clb_int /\ \E l \in lines : InconsistentIndex(l)

FixupMayFail(lines, zero_db, tag_groups) ==
  MayFail(GroupTags(lines, tag_groups), zero_db)
=============================================================================
