------------------------------ MODULE IntLoop -------------------------------
(***************************************************************************)
(* The interconnect fuzzers: fuzzers/int_loop.sh with int_loop_check.py,   *)
(* int_maketodo.py, int_loop.mk and pip_loop.mk.  In each turn of the loop *)
(* a todo list is made of the pips that a private copy of the database     *)
(* lacks, the check decides whether to stop, and more specimens are built  *)
(* and solved; the private copy is then the database with what was solved. *)
(* The push into the database comes after the loop.                        *)
(***************************************************************************)
EXTENDS FuzzerMake

CONSTANTS Pips,     \* the pips of the pip list that --re lets through
          Filtered, \* those of them that --zero-entries-filter leaves out
          CheckArgs \* arguments of int_loop_check.py: records of sets, empty if
                    \* the argument is not given

VARIABLES args,     \* CHECK_ARGS of this fuzzer
          quick,    \* QUICK=Y
          iter,     \* i of the loop
          private,  \* the entries of build/database
          todos     \* todos[n]: the pips in build/todo/n_all.txt

intVars == <<args, quick, iter, private, todos>>

\* The loop has something that ends it even if some pip is never solved.
Limited(a) ==
  a.timeout_iters \cup a.max_iters # {} \/ (a.min_progress # {} /\ ~ a.zero_entries)

ASSUME IntAssumption == \A a \in CheckArgs : Limited(a)

IntInit ==
  /\ args \in CheckArgs
  /\ quick \in BOOLEAN
  /\ iter = 1 /\ private = {} /\ todos = <<>>

IsInt == kind = "int"

\* make clean removes the build directory; the private copy is seeded from the
\* database when the first todo list is made.
IntClean ==
  /\ IsInt /\ Clean
  /\ iter' = 1 /\ private' = db["int"] /\ todos' = <<>>
  /\ UNCHANGED <<args, quick>>

Solved(S) == {e.tag : e \in S}

\* make todo.txt.  An empty list in the first turn ends the script well.
MakeTodo ==
  /\ IsInt /\ stage = "database"
  /\ todos' = Append(todos, Pips \ Solved(private))
  /\ stage' = IF iter = 1 /\ Pips \subseteq Solved(private) THEN "touch" ELSE "check"
  /\ UNCHANGED <<kind, db, ok, data, build, left, args, quick, iter, private>>

Unfiltered(S) == S \ Filtered

\* Not check_made_progress.
Stuck ==
  iter > 1 /\ \E least \in args.min_progress :
    Cardinality(todos[iter - 1]) <= Cardinality(todos[iter]) + least

\* run of int_loop_check.py, its tests in their order: "done" is exit code 0,
\* "again" is 1, and "timeout" is 1 with the file todo/timeout.
Verdict ==
  IF \E n \in args.min_iters : iter < n THEN "again"
  ELSE IF \E n \in args.max_iters : iter >= n THEN "done"
  ELSE IF \E n \in args.timeout_iters : iter > n THEN "timeout"
  ELSE IF args.zero_entries /\ Unfiltered(todos[iter]) # {} THEN "again"
  ELSE IF Stuck \/ (args.zero_entries /\ args.min_progress = {}) THEN "done"
  ELSE "again"

\* The check and what int_loop.sh makes of it.
CheckTodo ==
  /\ IsInt /\ stage = "check"
  /\ CASE Verdict = "done" -> /\ stage' = IF quick THEN "touch" ELSE "push"
                              /\ left' = IF quick THEN <<>> ELSE PushesOf(kind)
       [] Verdict = "timeout" -> Exit("failed") /\ UNCHANGED left
       [] OTHER -> stage' = "solve" /\ UNCHANGED left
  /\ UNCHANGED <<kind, db, ok, data, build, intVars>>

\* The database is copied again and what was built merged into the copy, which
\* fails if they contradict each other.
Merged(lines) ==
  IF Refused(lines) \/ Contradicts(db["int"] \cup lines)
  THEN Exit("failed") /\ private' = db["int"] /\ UNCHANGED iter
  ELSE private' = db["int"] \cup lines /\ stage' = "database" /\ iter' = iter + 1

\* What make database does with the lines of segmatch: a quick run leaves them
\* as they are, and leaves the loop.
IntFixed(lines) ==
  \/ /\ quick
     /\ build' = [build EXCEPT !["int"] = lines]
     /\ stage' = "touch" /\ UNCHANGED <<private, iter>>
  \/ /\ ~ quick /\ ~ BuildFails(lines)
     /\ build' = Built(lines) /\ Merged(Built(lines)["int"])
  \/ /\ ~ quick /\ BuildFails(lines)
     /\ Exit("failed") /\ UNCHANGED <<build, private, iter>>

\* Faulty form of Solve: segmatch reads the specimens of this iteration only.
SolveNew ==
  /\ IsInt /\ stage = "solve"
  /\ \/ \E batch \in Compilable(kind) :
          data' = data \cup Specimens(iter, batch) /\ IntFixed(Solution(data' \ data))
     \/ Exit("failed") /\ UNCHANGED <<data, build, private, iter>>
  /\ UNCHANGED <<kind, db, ok, left, args, quick, todos>>

\* make database: new specimens, and segmatch on the data of all iterations,
\* which may take back what fewer data said.
Solve ==
  /\ IsInt /\ stage = "solve"
  /\ \/ \E batch \in Compilable(kind) :
          data' = data \cup Specimens(iter, batch) /\ IntFixed(Solution(data'))
     \/ Exit("failed") /\ UNCHANGED <<data, build, private, iter>>
  /\ UNCHANGED <<kind, db, ok, left, args, quick, todos>>

\* touch run.ok.
IntTouch ==
  /\ IsInt /\ (stage = "touch" \/ (stage = "push" /\ left = <<>>))
  /\ ok' = TRUE
  /\ Exit("succeeded")
  /\ UNCHANGED <<kind, db, data, build, left, intVars>>

\* make pushdb, after a loop that the check has ended in its first turn: mergedb.sh
\* does not find the file that "make database" would have written.
NothingToPush ==
  /\ IsInt /\ stage = "push" /\ left # <<>> /\ iter = 1
  /\ Exit("failed")
  /\ UNCHANGED <<kind, db, ok, data, build, left, intVars>>

IntPush == IsInt /\ iter > 1 /\ PushNext /\ UNCHANGED intVars

IntNext ==
  \/ IntClean \/ MakeTodo \/ CheckTodo \/ Solve \/ IntTouch
  \/ NothingToPush \/ IntPush
=============================================================================
