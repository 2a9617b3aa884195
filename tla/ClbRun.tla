------------------------------- MODULE ClbRun -------------------------------
(***************************************************************************)
(* fuzzers/clb.mk and clb_ext.mk.  pushdb needs checkdb, and checkdb, when *)
(* parsedb refuses what was built, runs the whole fuzzer again in a nested *)
(* make with more specimens.  When that returns, the build directory has   *)
(* the files of the nested run, which it has pushed, and the outer pushdb  *)
(* pushes them once more: at every level on the way out.                   *)
(***************************************************************************)
EXTENDS FuzzerMake

CONSTANT MaxIter  \* MAX_ITER

ASSUME ClbAssumption == MaxIter \in Nat

VARIABLES level,    \* ITER: the depth of nested makes
          unwinding \* a nested run has returned to this level

clbVars == <<level, unwinding>>

ClbInit == level = 0 /\ unwinding = FALSE

IsClb == kind \in {"clb", "clb_fix", "clb_ext"}

\* make database; the database is checked next.
ClbDatabase ==
  /\ IsClb /\ Database("check")
  /\ UNCHANGED <<left, clbVars>>

\* make parsedb.  In clb_ext.mk the files of the foreach are checked in one
\* command line: what counts is the last, that of the SLICEMs.
Parsed == ~ Refused(build["clblm"])

\* Faulty form of CheckDb: the nested make is called with the same ITER.
CheckDbAgain ==
  /\ IsClb /\ stage = "check"
  /\ IF Parsed THEN stage' = "push" /\ left' = PushesOf(kind) /\ UNCHANGED level
     ELSE IF level > MaxIter THEN Exit("failed") /\ UNCHANGED <<level, left>>
     ELSE stage' = "clean" /\ UNCHANGED <<level, left>>
  /\ UNCHANGED <<kind, db, ok, data, build, unwinding>>

\* Faulty form of CheckDb: the nested make builds and checks, but only the
\* outermost level pushes.
CheckDbPushOnce ==
  /\ IsClb /\ stage = "check"
  /\ IF level > MaxIter THEN Exit("failed") /\ UNCHANGED <<left, clbVars>>
     ELSE IF Parsed
          THEN stage' = "push" /\ left' = PushesOf(kind) /\ level' = 0 /\ unwinding' = (level > 0)
          ELSE stage' = "clean" /\ level' = level + 1 /\ UNCHANGED <<left, unwinding>>
  /\ UNCHANGED <<kind, db, ok, data, build>>

\* checkdb: fails beyond MAX_ITER, else parsedb or a nested run.
CheckDb ==
  /\ IsClb /\ stage = "check"
  /\ IF level > MaxIter THEN Exit("failed") /\ UNCHANGED <<level, left>>
     ELSE IF Parsed
          THEN stage' = "push" /\ left' = PushesOf(kind) /\ UNCHANGED level
          ELSE stage' = "clean" /\ level' = level + 1 /\ UNCHANGED left
  /\ UNCHANGED <<kind, db, ok, data, build, unwinding>>

\* touch run.ok, and the end of this level: the level around it comes back
\* from checkdb and pushes.
ClbTouch ==
  /\ IsClb /\ stage = "push" /\ left = <<>>
  /\ ok' = TRUE
  /\ IF level = 0
     THEN Exit("succeeded") /\ UNCHANGED <<left, clbVars>>
     ELSE /\ level' = level - 1 /\ unwinding' = TRUE
          /\ left' = PushesOf(kind) /\ UNCHANGED stage
  /\ UNCHANGED <<kind, db, data, build>>

ClbNext ==
  \/ IsClb /\ (Clean \/ PushNext) /\ UNCHANGED clbVars
  \/ ClbDatabase \/ CheckDb \/ ClbTouch
=============================================================================
