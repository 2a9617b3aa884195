---------------------------- MODULE FuzzerMake -----------------------------
(***************************************************************************)
(* What the Makefiles of the fuzzers share (fuzzers/fuzzer.mk, and the     *)
(* rules of 035-iob-ilogic and its likes): "make run" cleans, builds a     *)
(* database of its own out of specimens, pushes it into the segbits        *)
(* databases with mergedb.sh and touches run.ok.  A specimen is a design   *)
(* that the vendor tools have implemented; segmaker has made segments of   *)
(* it.  A push is atomic here: module MergeDb shows that it is.            *)
(***************************************************************************)
EXTENDS DbFixup

CONSTANTS Designs,    \* Designs[d]: what segmaker gets of design d
          Batches,    \* Batches[k]: sets of designs that the specimens of one
                      \* build can be, for kind k
          MatchArgs,  \* MatchArgs[k]: -m, -M and -c of segmatch
          ZeroDb,     \* ZeroDb[k]: --zero-db of dbfixup, or that of --clb-int
          TagGroups,  \* --groups of dbfixup
          SliceM,     \* SLICEM_FEATURES of clb_ext.mk: tags that SLICELs lack
          InitialDbs  \* entries that the databases can have at first

\* The Makefiles: clb.mk without and with CLB_DBFIXUP, clb_ext.mk, int_loop.mk,
\* and one that includes nothing but fuzzer.mk.
Kinds == {"clb", "clb_fix", "clb_ext", "int", "iob"}
Targets == {"clbll", "clblm", "int", "iob"}

\* What parsedb.py and mergedb.sh refuse: a tag with two bit sets, or the
\* other way round, ...
Contradicts(S) == \E x, y \in S : x # y /\ (x.tag = y.tag \/ x.bits = y.bits)

\* Faulty form of Refused: without --strict, lines that are not resolved pass.
RefusedLoose(S) == Contradicts({l \in S : l.mode = None})

\* ... and a line that is not resolved.
Refused(S) == Contradicts(S) \/ \E l \in S : l.mode # None

ASSUME FuzzerAssumption ==
  /\ \A d \in InitialDbs : /\ d = [t \in Targets |-> d[t]]
                           /\ \A t \in Targets : ~ Refused(d[t])
  /\ \A k \in Kinds : IsZeroDb(ZeroDb[k])
  /\ \A g, h \in TagGroups : g = h \/ g \cap h = {}
  \* The zero_db next to --groups has no tags (bits.dbf of 030-iob is empty).
  /\ \A i \in DOMAIN ZeroDb["iob"] :
       ZeroDb["iob"][i].all_zero = {} /\ ZeroDb["iob"][i].tags = {}

VARIABLES kind,   \* the Makefile the fuzzer has
          db,     \* db[t]: the entries of segbits_t.db
          ok,     \* run.ok is there
          data,   \* the segments of all specimens in the build directory
          build,  \* build[t]: the lines of the build directory that go to t
          stage,  \* what make, or int_loop.sh, does next
          left    \* the pushes still to come in this pushdb

shared == <<kind, db, ok, data, build, stage, left>>

NothingBuilt == [t \in Targets |-> {}]
PushesOf(k) == CASE k = "int" -> <<"int">> [] k = "iob" -> <<"iob">>
                 [] OTHER -> <<"clbll", "clblm">>

MakeInit ==
  /\ kind \in Kinds
  /\ db \in InitialDbs /\ ok = FALSE
  /\ data = {} /\ build = NothingBuilt
  /\ stage = "clean" /\ left = <<>>

\* "make run" ends: every level of make passes a failure on.
Exit(status) == stage' = status

\* make clean.
Clean ==
  /\ stage = "clean"
  /\ ok' = FALSE
  /\ data' = {} /\ build' = NothingBuilt
  /\ stage' = "database"
  /\ UNCHANGED <<kind, db, left>>

\* The segdata files of the specimens of an iteration; segments of two specimens
\* are never the same.
Specimens(iteration, batch) ==
  UNION {{[of |-> <<iteration, d>>, bits |-> s.bits, tags |-> s.tags] :
            s \in Compile(Designs[d])} : d \in batch}

\* The batches that segmaker goes through without a failed assertion.
Compilable(k) == {batch \in Batches[k] : \A d \in batch : ~ CompileFails(Designs[d])}

\* What segmatch makes of all segments.
Solution(segments) == Match(segments, MatchArgs[kind])

\* The files that are given to dbfixup: one for all targets, or one for
\* SLICELs, without the features that only SLICEMs have, and one for SLICEMs.
FileFor(t, lines) ==
  IF kind = "clb_ext" /\ t = "clbll" THEN {l \in lines : l.tag \notin SliceM} ELSE lines

GroupsOf(k) == IF k = "iob" THEN TagGroups ELSE {}
Groups == GroupsOf(kind)

\* dbfixup, where the Makefile calls it.
Built(lines) ==
  [t \in Targets |->
     IF \A n \in DOMAIN PushesOf(kind) : PushesOf(kind)[n] # t THEN {}
     ELSE IF kind = "clb" THEN lines
     ELSE Fixup(FileFor(t, lines), ZeroDb[kind], Groups, kind = "int")]

BuildFails(lines) ==
  kind # "clb" /\ \E t \in Targets : FixupFails(FileFor(t, lines), ZeroDb[kind], Groups, kind = "int")
BuildMayFail(lines) ==
  kind # "clb" /\ \E t \in Targets : FixupMayFail(FileFor(t, lines), ZeroDb[kind], Groups)

\* What make database does with the lines of segmatch: stage next is after it.
Fixed(lines, next) ==
  \/ ~ BuildFails(lines) /\ build' = Built(lines) /\ stage' = next
  \/ (BuildFails(lines) \/ BuildMayFail(lines)) /\ Exit("failed") /\ UNCHANGED build

\* make database: specimens, segmatch and dbfixup; a specimen may fail.
Database(next) ==
  /\ stage = "database"
  /\ \/ \E batch \in Compilable(kind) :
          data' = Specimens(0, batch) /\ Fixed(Solution(data'), next)
     \/ Exit("failed") /\ UNCHANGED <<data, build>>
  /\ UNCHANGED <<kind, db, ok>>

\* Faulty form of PushNext: the recipe goes on after a push that failed.
PushNextAnyway ==
  /\ stage = "push" /\ left # <<>>
  /\ LET t == Head(left) IN
       db' = IF Refused(build[t]) \/ Contradicts(db[t] \cup build[t]) THEN db
             ELSE [db EXCEPT ![t] = @ \cup build[t]]
  /\ left' = Tail(left)
  /\ UNCHANGED <<kind, ok, data, build, stage>>

\* mergedb.sh for the next target: it refuses lines that are not resolved or
\* contradict each other or the database, and then the recipe fails.
PushNext ==
  /\ stage = "push" /\ left # <<>>
  /\ LET t == Head(left) IN
       IF Refused(build[t]) \/ Contradicts(db[t] \cup build[t])
       THEN Exit("failed") /\ UNCHANGED <<db, left>>
       ELSE /\ db' = [db EXCEPT ![t] = @ \cup build[t]]
            /\ left' = Tail(left)
            /\ UNCHANGED stage
  /\ UNCHANGED <<kind, ok, data, build>>

\* A Makefile that pushes what dbfixup has made of it, without a check.
PlainDatabase ==
  /\ kind = "iob" /\ Database("push")
  /\ left' = PushesOf(kind)

\* touch run.ok.
PlainTouch ==
  /\ kind = "iob" /\ stage = "push" /\ left = <<>>
  /\ ok' = TRUE
  /\ Exit("succeeded")
  /\ UNCHANGED <<kind, db, data, build, left>>

PlainNext ==
  \/ kind = "iob" /\ (Clean \/ PushNext)
  \/ PlainDatabase \/ PlainTouch
=============================================================================
