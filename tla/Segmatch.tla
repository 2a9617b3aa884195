------------------------------ MODULE Segmatch ------------------------------
(***************************************************************************)
(* tools/segmatch.cc: which bits a tag can mean, given segments in which   *)
(* it is 1 and segments in which it is 0.                                  *)
(*                                                                         *)
(* A line of its output is a tag with bits, or with a mode if it is not    *)
(* resolved.  It is read by parse_db_line of prjxray/util.py.  A bit of a  *)
(* line is a pair of a sign and a name; segmatch finds set bits alone.     *)
(***************************************************************************)
EXTENDS Segmaker

None == "None"  \* the mode of a resolved line

Line(tag, bits, mode) == [tag |-> tag, bits |-> bits, mode |-> mode]
Set(names) == {TRUE} \X names
Clear(names) == {FALSE} \X names
OnesOf(line) == {b[2] : b \in {x \in line.bits : x[1]}}

\* Segments in which the tag is on, and off.
Having(segments, tag, value) ==
  {s \in segments : tag \in DOMAIN s.tags /\ s.tags[tag] = value}

\* Faulty form of Candidates: a segment that does not mention the tag counts as
\* one in which it is off.
CandidatesClosed(segments, tag) ==
  LET on == Having(segments, tag, TRUE) IN
    {b \in UNION {s.bits : s \in on} :
       /\ \A s \in on : b \in s.bits
       /\ \A s \in segments \ on : b \notin s.bits}

\* The mask of a tag that is on in some segment: bits set in all segments in
\* which it is on, and in none in which it is off.
Candidates(segments, tag) ==
  LET on == Having(segments, tag, TRUE) IN
    {b \in UNION {s.bits : s \in on} :
       /\ \A s \in on : b \in s.bits
       /\ \A s \in Having(segments, tag, FALSE) : b \notin s.bits}

\* The line of a tag, with arguments -m, -M and -c.
MatchLine(segments, tag, a, candidates) ==
  LET count1 == Cardinality(Having(segments, tag, TRUE))
      count0 == Cardinality(Having(segments, tag, FALSE))
      shown == a.c < 0 \/ Cardinality(candidates) \in 1 .. a.c
  IN  IF count1 < a.m \/ count0 < a.m \/ count1 + count0 < a.M THEN Line(tag, {}, "<m>")
      ELSE IF count1 = 0 THEN Line(tag, {}, "<const0>")
      ELSE IF count0 = 0 THEN Line(tag, {}, "<const1>")
      ELSE IF shown THEN Line(tag, Set(candidates), None)
      ELSE Line(tag, {}, IF candidates = {} THEN "<0 candidates>" ELSE "<candidates>")

\* segmatch for all segments of the input files.
Match(segments, a) ==
  {MatchLine(segments, t, a, Candidates(segments, t)) :
     t \in UNION {DOMAIN s.tags : s \in segments}}
=============================================================================
