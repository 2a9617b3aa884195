--------------------------- MODULE RunFuzzerProofs ---------------------------
(***************************************************************************)
(* What run.ok and exit code 0 promise, proved for any designs, specimens, *)
(* databases and arguments, and what is true of the entries: that they     *)
(* explain the designs, have all the bits of their features and exclude    *)
(* each other within a tag group, whatever the specimens were.             *)
(***************************************************************************)
EXTENDS RunFuzzer, TLAPS

Stages == {"clean", "database", "check", "solve", "touch", "push",
           "succeeded", "failed", "killed"}

Types ==
  /\ kind \in Kinds /\ stage \in Stages
  /\ db = [t \in Targets |-> db[t]] /\ build = [t \in Targets |-> build[t]]
  /\ left \in Seq(Targets)
  /\ quick => kind = "int"
  /\ stage \in {"solve", "touch"} => kind = "int"

\* Nothing is built that is not pushed.
OnlyPushed ==
  \A t \in Targets :
    (\A n \in DOMAIN PushesOf(kind) : PushesOf(kind)[n] # t) => build[t] = {}

\* A pushdb that has come as far as left has pushed the rest.
PushedSoFar ==
  stage = "push" =>
    \A t \in Targets : (\A n \in DOMAIN left : left[n] # t) => build[t] \subseteq db[t]

\* run.ok is gone before anything else is built.
OkInv ==
  /\ ok => stage \in {"push", "succeeded", "failed", "killed"}
  /\ (ok /\ ~ quick) => \A t \in Targets : build[t] \subseteq db[t]
  /\ (stage = "touch" /\ ~ quick) => \A t \in Targets : build[t] = {}

PushInv == Types /\ OnlyPushed /\ PushedSoFar /\ OkInv

\* The check has to leave no pip that the filter lets through.
Thorough == ~ quick /\ args.zero_entries /\ args.max_iters = {}

\* What the private copy has is in the database or about to be pushed into it.
PrivateInv ==
  /\ iter \in Nat \ {0}
  /\ todos \in Seq(SUBSET Pips)
  /\ (stage \in {"database", "check", "solve"} /\ iter = 1) => \A t \in Targets : build[t] = {}
  /\ (stage \in {"database", "check", "solve", "push", "touch"} /\ ~ quick) =>
        private \subseteq db["int"] \cup build["int"]

\* The todo list of this turn is what the private copy lacks.
TodoInv ==
  /\ stage = "database" => Len(todos) = iter - 1
  /\ stage \in {"check", "solve"} => Len(todos) = iter
  /\ stage = "check" => todos[iter] = Pips \ Solved(private)
  /\ (stage = "touch" /\ ~ quick) => Pips \subseteq Solved(private)
  /\ (stage = "push" /\ Thorough) => Unfiltered(Pips) \subseteq Solved(private)
  /\ (ok /\ Thorough) => Unfiltered(Pips) \subseteq Solved(db["int"])

IntInv == kind = "int" => PrivateInv /\ TodoInv

\* Exit code 0 comes from a child that has touched run.ok, and so does the
\* return from a nested run.
CodeInv ==
  /\ stage = "succeeded" => ok
  /\ unwinding => ok /\ kind # "int"
  /\ (pc \in {"finish", "end"} /\ retcode = 0) => ok \/ dry

Inv == PushInv /\ IntInv /\ CodeInv
-----------------------------------------------------------------------------
LEMMA PushesTyped == ASSUME NEW k PROVE PushesOf(k) \in Seq(Targets)
<1>1. CASE k = "int"
  <2>1. PushesOf(k) = <<"int">>
    BY <1>1 DEF PushesOf
  <2> QED
    BY <2>1 DEF Targets
<1>2. CASE k = "iob"
  <2>1. PushesOf(k) = <<"iob">>
    BY <1>2 DEF PushesOf
  <2> QED
    BY <2>1 DEF Targets
<1>3. CASE k # "int" /\ k # "iob"
  <2>1. PushesOf(k) = <<"clbll", "clblm">>
    BY <1>3 DEF PushesOf
  <2> QED
    BY <2>1 DEF Targets
<1> QED
  BY <1>1, <1>2, <1>3

LEMMA PushesOfInt == PushesOf("int") = <<"int">>
BY DEF PushesOf

\* What is not in the tail of a sequence is its head or not in it.
LEMMA NotInTail ==
  ASSUME NEW S, NEW s \in Seq(S), s # <<>>, NEW u, u # Head(s),
         \A n \in DOMAIN Tail(s) : Tail(s)[n] # u
  PROVE  \A n \in DOMAIN s : s[n] # u
<1> SUFFICES ASSUME NEW n \in 1..Len(s) PROVE s[n] # u
  OBVIOUS
<1>1. CASE n = 1
  BY <1>1
<1>2. CASE n # 1
  <2>1. n - 1 \in DOMAIN Tail(s)
    BY <1>2
  <2>2. Tail(s)[n - 1] = s[n]
    BY <1>2
  <2> QED
    BY <2>1, <2>2
<1> QED
  BY <1>1, <1>2

\* The steps that all Makefiles share.
LEMMA CleanPush == PushInv /\ Clean /\ UNCHANGED quick => PushInv'
<1> SUFFICES ASSUME PushInv, Clean, UNCHANGED quick PROVE PushInv'
  OBVIOUS
<1> USE DEF PushInv, Clean
<1>1. Types'
  BY DEF Types, NothingBuilt, Stages
<1>2. OnlyPushed'
  BY DEF OnlyPushed, NothingBuilt
<1>3. PushedSoFar'
  BY DEF PushedSoFar
<1>4. OkInv'
  BY DEF OkInv
<1> QED
  BY <1>1, <1>2, <1>3, <1>4

LEMMA PushNextPush == PushInv /\ PushNext /\ UNCHANGED quick => PushInv'
<1> SUFFICES ASSUME PushInv, PushNext, UNCHANGED quick PROVE PushInv'
  OBVIOUS
<1> DEFINE t == Head(left)
<1> USE DEF PushInv
<1>1. t \in Targets /\ Tail(left) \in Seq(Targets)
  BY DEF PushNext, Types
<1>2. stage = "push" /\ UNCHANGED <<kind, ok, data, build, quick>>
  BY DEF PushNext
<1>3. CASE stage' = "failed" /\ UNCHANGED <<db, left>>
  BY <1>2, <1>3 DEF Types, Stages, OnlyPushed, PushedSoFar, OkInv
<1>4. CASE /\ db' = [db EXCEPT ![t] = @ \cup build[t]]
           /\ left' = Tail(left) /\ UNCHANGED stage
  <2>1. db' = [u \in Targets |-> IF u = t THEN db[u] \cup build[u] ELSE db[u]]
    BY <1>1, <1>4 DEF Types
  <2>2. Types'
    <3>1. db' = [u \in Targets |-> db'[u]]
      BY <2>1
    <3> QED
      BY <1>1, <1>2, <1>4, <3>1 DEF Types
  <2>3. OnlyPushed'
    BY <1>2 DEF OnlyPushed
  <2>4. PushedSoFar'
    <3> SUFFICES ASSUME NEW u \in Targets, \A n \in DOMAIN left' : left'[n] # u
                 PROVE  build[u] \subseteq db'[u]
      BY <1>2 DEF PushedSoFar
    <3>1. CASE u = t
      BY <2>1, <3>1
    <3>2. CASE u # t
      <4>1. \A n \in DOMAIN left : left[n] # u
        BY <1>4, <3>2, NotInTail DEF PushNext, Types
      <4> QED
        BY <1>2, <2>1, <4>1 DEF PushedSoFar
    <3> QED
      BY <3>1, <3>2
  <2>5. OkInv'
    BY <1>2, <1>4, <2>1 DEF OkInv
  <2> QED
    BY <2>2, <2>3, <2>4, <2>5
<1> QED
  BY <1>3, <1>4 DEF PushNext, Exit

LEMMA EnterPush ==
  ASSUME OnlyPushed, UNCHANGED <<kind, build>>, left' = PushesOf(kind)
  PROVE  PushedSoFar'
BY DEF OnlyPushed, PushedSoFar

LEMMA BuiltOnlyPushed ==
  ASSUME NEW lines, kind' = kind, build' = Built(lines)
  PROVE  OnlyPushed' /\ build' = [t \in Targets |-> build'[t]]
BY DEF OnlyPushed, Built

\* make database, of whatever specimens.
LEMMA DatabaseStep ==
  ASSUME NEW next, Database(next)
  PROVE  /\ stage = "database" /\ UNCHANGED <<kind, db, ok>>
         /\ \/ stage' = next /\ \E lines : build' = Built(lines)
            \/ stage' = "failed" /\ UNCHANGED build
BY DEF Database, Fixed, Exit

LEMMA DatabasePush ==
  ASSUME PushInv, NEW next, Database(next), UNCHANGED quick, kind # "int",
         \/ next = "check" /\ UNCHANGED left
         \/ next = "push" /\ left' = PushesOf(kind)
  PROVE  PushInv'
<1> USE DEF PushInv
<1>1. stage = "database" /\ UNCHANGED <<kind, db, ok>>
  BY DatabaseStep
<1>2. left' \in Seq(Targets) /\ ~ ok
  BY <1>1, PushesTyped DEF Types, OkInv
<1>3. CASE stage' = next /\ \E lines : build' = Built(lines)
  <2>1. OnlyPushed' /\ build' = [t \in Targets |-> build'[t]]
    BY <1>1, <1>3, BuiltOnlyPushed
  <2>2. Types'
    BY <1>1, <1>2, <1>3, <2>1 DEF Types, Stages
  <2>3. PushedSoFar'
    BY <1>1, <1>3, <2>1 DEF PushedSoFar, OnlyPushed
  <2>4. OkInv'
    BY <1>1, <1>2, <1>3 DEF OkInv
  <2> QED
    BY <2>1, <2>2, <2>3, <2>4
<1>4. CASE stage' = "failed" /\ UNCHANGED build
  BY <1>1, <1>2, <1>4 DEF Types, Stages, OnlyPushed, PushedSoFar, OkInv
<1> QED
  BY <1>3, <1>4, DatabaseStep

\* Everything is pushed when nothing is left.
LEMMA AllPushed ==
  ASSUME PushedSoFar, stage = "push", left = <<>>
  PROVE  \A t \in Targets : build[t] \subseteq db[t]
BY DEF PushedSoFar

LEMMA ClbPush == PushInv /\ ClbNext /\ UNCHANGED intVars => PushInv'
<1> SUFFICES ASSUME PushInv, ClbNext, UNCHANGED intVars PROVE PushInv'
  OBVIOUS
<1> USE DEF PushInv
<1>1. kind # "int" /\ UNCHANGED quick
  BY DEF ClbNext, ClbDatabase, CheckDb, ClbTouch, IsClb, intVars
<1>2. CASE Clean \/ PushNext
  BY <1>1, <1>2, CleanPush, PushNextPush
<1>3. CASE ClbDatabase
  BY <1>1, <1>3, DatabasePush DEF ClbDatabase
<1>4. CASE CheckDb
  <2>1. /\ stage = "check" /\ UNCHANGED <<kind, db, ok, data, build>>
        /\ \/ stage' = "push" /\ left' = PushesOf(kind)
           \/ stage' \in {"clean", "failed"} /\ UNCHANGED left
    BY <1>4 DEF CheckDb, Exit
  <2>2. ~ ok /\ left' \in Seq(Targets)
    BY <2>1, PushesTyped DEF Types, OkInv
  <2>3. Types' /\ OnlyPushed' /\ OkInv'
    BY <1>1, <2>1, <2>2 DEF Types, Stages, OnlyPushed, OkInv
  <2>4. PushedSoFar'
    BY <2>1, EnterPush DEF PushedSoFar
  <2> QED
    BY <2>3, <2>4
<1>5. CASE ClbTouch
  <2>1. /\ stage = "push" /\ left = <<>> /\ UNCHANGED <<kind, db, data, build>>
        /\ \/ stage' = "succeeded" /\ UNCHANGED left
           \/ stage' = "push" /\ left' = PushesOf(kind)
    BY <1>5 DEF ClbTouch, Exit
  <2>2. left' \in Seq(Targets)
    BY <2>1, PushesTyped DEF Types
  <2>3. Types' /\ OnlyPushed'
    BY <1>1, <2>1, <2>2 DEF Types, Stages, OnlyPushed
  <2>4. PushedSoFar'
    BY <2>1, EnterPush DEF PushedSoFar
  <2>5. OkInv'
    BY <1>1, <2>1, AllPushed DEF OkInv
  <2> QED
    BY <2>3, <2>4, <2>5
<1> QED
  BY <1>2, <1>3, <1>4, <1>5 DEF ClbNext

LEMMA PlainPush == PushInv /\ PlainNext /\ UNCHANGED intVars => PushInv'
<1> SUFFICES ASSUME PushInv, PlainNext, UNCHANGED intVars PROVE PushInv'
  OBVIOUS
<1> USE DEF PushInv
<1>1. kind # "int" /\ UNCHANGED quick
  BY DEF PlainNext, PlainDatabase, PlainTouch, intVars
<1>2. CASE Clean \/ PushNext
  BY <1>1, <1>2, CleanPush, PushNextPush
<1>3. CASE PlainDatabase
  BY <1>1, <1>3, DatabasePush DEF PlainDatabase
<1>4. CASE PlainTouch
  <2>1. /\ stage = "push" /\ left = <<>> /\ stage' = "succeeded"
        /\ UNCHANGED <<kind, db, data, build, left>>
    BY <1>4 DEF PlainTouch, Exit
  <2>2. Types' /\ OnlyPushed' /\ PushedSoFar'
    BY <1>1, <2>1 DEF Types, Stages, OnlyPushed, PushedSoFar
  <2>3. OkInv'
    BY <1>1, <2>1, AllPushed DEF OkInv
  <2> QED
    BY <2>2, <2>3
<1> QED
  BY <1>2, <1>3, <1>4 DEF PlainNext
-----------------------------------------------------------------------------
LEMMA IntCleanInv ==
  ASSUME PushInv, IntInv, IntClean
  PROVE  PushInv' /\ IntInv'
<1>1. PushInv'
  BY CleanPush DEF IntClean
<1>2. /\ UNCHANGED <<kind, db, args, quick>> /\ ok' = FALSE /\ stage' = "database"
      /\ iter' = 1 /\ private' = db["int"] /\ todos' = <<>>
      /\ \A t \in Targets : build'[t] = {}
  BY DEF IntClean, Clean, NothingBuilt
<1>3. PrivateInv'
  BY <1>2 DEF PrivateInv
<1>4. TodoInv'
  BY <1>2 DEF TodoInv
<1> QED
  BY <1>1, <1>3, <1>4 DEF IntInv

LEMMA MakeTodoInv ==
  ASSUME PushInv, IntInv, MakeTodo
  PROVE  PushInv' /\ IntInv'
<1> DEFINE todo == Pips \ Solved(private)
<1> USE DEF PushInv
<1>1. /\ kind = "int" /\ stage = "database" /\ todos' = Append(todos, todo)
      /\ UNCHANGED <<kind, db, ok, data, build, left, args, quick, iter, private>>
      /\ \/ stage' = "touch" /\ iter = 1 /\ Pips \subseteq Solved(private)
         \/ stage' = "check"
  BY DEF MakeTodo, IsInt
<1>2. PrivateInv /\ TodoInv /\ ~ ok
  BY <1>1 DEF IntInv, OkInv
<1>3. Types' /\ OnlyPushed' /\ PushedSoFar'
  BY <1>1 DEF Types, Stages, OnlyPushed, PushedSoFar
<1>4. OkInv'
  BY <1>1, <1>2 DEF OkInv, PrivateInv
<1>5. /\ todos' \in Seq(SUBSET Pips) /\ Len(todos') = iter /\ todos'[iter] = todo
  BY <1>1, <1>2 DEF PrivateInv, TodoInv
<1>6. PrivateInv'
  BY <1>1, <1>2, <1>5 DEF PrivateInv
<1>7. Solved(private)' = Solved(private)
  BY <1>1 DEF Solved
<1>8. TodoInv'
  BY <1>1, <1>2, <1>5, <1>7 DEF TodoInv
<1> QED
  BY <1>3, <1>4, <1>6, <1>8 DEF IntInv

\* A check that says "done" of a loop that has to be thorough has seen that
\* nothing is left.
LEMMA DoneIsDone ==
  ASSUME Verdict = "done", Thorough
  PROVE  Unfiltered(todos[iter]) = {}
BY DEF Verdict, Thorough

LEMMA CheckTodoInv ==
  ASSUME PushInv, IntInv, CheckTodo
  PROVE  PushInv' /\ IntInv'
<1> USE DEF PushInv
<1>1. /\ kind = "int" /\ stage = "check"
      /\ UNCHANGED <<kind, db, ok, data, build, args, quick, iter, private, todos>>
      /\ \/ /\ Verdict = "done" /\ ~ quick
            /\ stage' = "push" /\ left' = PushesOf(kind)
         \/ quick /\ stage' = "touch" /\ left' = <<>>
         \/ stage' \in {"failed", "solve"} /\ UNCHANGED left
  BY DEF CheckTodo, IsInt, Exit, intVars
<1>2. PrivateInv /\ TodoInv /\ ~ ok
  BY <1>1 DEF IntInv, OkInv
<1>3. left' \in Seq(Targets)
  <2>1. <<>> \in Seq(Targets) /\ PushesOf(kind) \in Seq(Targets) /\ left \in Seq(Targets)
    BY PushesTyped DEF Types
  <2> QED
    BY <1>1, <2>1
<1>4. Types' /\ OnlyPushed' /\ OkInv'
  <2>1. stage' \in {"push", "touch", "failed", "solve"} /\ (stage' = "touch" => quick')
    BY <1>1
  <2>2. Types'
    BY <1>1, <1>3, <2>1 DEF Types, Stages
  <2>3. OnlyPushed'
    BY <1>1 DEF OnlyPushed
  <2>4. OkInv'
    BY <1>1, <1>2, <2>1 DEF OkInv
  <2> QED
    BY <2>2, <2>3, <2>4
<1>5. PushedSoFar'
  BY <1>1, EnterPush DEF PushedSoFar
<1>6. PrivateInv'
  BY <1>1, <1>2 DEF PrivateInv
<1>7. Solved(private)' = Solved(private)
  BY <1>1 DEF Solved
<1>8. (stage' = "push" /\ Thorough) => Unfiltered(Pips) \subseteq Solved(private)
  <2> SUFFICES ASSUME stage' = "push", Thorough PROVE Unfiltered(Pips) \subseteq Solved(private)
    OBVIOUS
  <2>1. Unfiltered(Pips \ Solved(private)) = {}
    BY <1>1, <1>2, DoneIsDone DEF TodoInv
  <2> QED
    BY <2>1 DEF Unfiltered
<1>9. TodoInv'
  BY <1>1, <1>2, <1>7, <1>8 DEF TodoInv, Thorough
<1> QED
  BY <1>4, <1>5, <1>6, <1>9 DEF IntInv

LEMMA SolveInv ==
  ASSUME PushInv, IntInv, Solve
  PROVE  PushInv' /\ IntInv'
<1> USE DEF PushInv
<1>1. /\ kind = "int" /\ stage = "solve" /\ UNCHANGED <<kind, db, ok, left, args, quick, todos>>
  BY DEF Solve, IsInt
<1>2. PrivateInv /\ TodoInv /\ ~ ok
  BY <1>1 DEF IntInv, OkInv
<1>3. PICK lines :
        \/ /\ quick /\ build' = [build EXCEPT !["int"] = lines]
           /\ stage' = "touch" /\ UNCHANGED <<private, iter>>
        \/ ~ quick /\ build' = Built(lines) /\ Merged(Built(lines)["int"])
        \/ stage' = "failed" /\ UNCHANGED <<build, private, iter>>
  <2>1. CASE \E batch \in Compilable(kind) : IntFixed(Solution(data'))
    BY <2>1 DEF IntFixed, Exit
  <2>2. CASE stage' = "failed" /\ UNCHANGED <<data, build, private, iter>>
    BY <2>2
  <2> QED
    BY <2>1, <2>2 DEF Solve, Exit
<1>4. CASE /\ quick /\ build' = [build EXCEPT !["int"] = lines]
           /\ stage' = "touch" /\ UNCHANGED <<private, iter>>
  <2>1. build' = [t \in Targets |-> IF t = "int" THEN lines ELSE build[t]]
    BY <1>4 DEF Types
  <2>2. OnlyPushed'
    BY <1>1, <2>1, PushesOfInt DEF OnlyPushed
  <2>3. build' = [t \in Targets |-> build'[t]]
    BY <2>1
  <2>4. Types' /\ PushedSoFar' /\ OkInv'
    BY <1>1, <1>2, <1>4, <2>3 DEF Types, Stages, PushedSoFar, OkInv
  <2>5. PrivateInv' /\ TodoInv'
    BY <1>1, <1>2, <1>4 DEF PrivateInv, TodoInv, Thorough
  <2> QED
    BY <2>2, <2>4, <2>5 DEF IntInv
<1>5. CASE ~ quick /\ build' = Built(lines) /\ Merged(Built(lines)["int"])
  <2>1. \/ stage' = "failed" /\ UNCHANGED iter /\ private' = db["int"]
        \/ /\ stage' = "database" /\ iter' = iter + 1
           /\ private' = db["int"] \cup build'["int"]
    BY <1>5 DEF Merged, Exit
  <2>2. OnlyPushed' /\ build' = [t \in Targets |-> build'[t]]
    BY <1>1, <1>5, BuiltOnlyPushed
  <2>3. Types' /\ PushedSoFar' /\ OkInv'
    BY <1>1, <1>2, <1>5, <2>1, <2>2 DEF Types, Stages, PushedSoFar, OkInv
  <2>4. PrivateInv'
    BY <1>1, <1>2, <2>1 DEF PrivateInv
  <2>5. TodoInv'
    BY <1>1, <1>2, <2>1 DEF TodoInv, PrivateInv
  <2> QED
    BY <2>2, <2>3, <2>4, <2>5 DEF IntInv
<1>6. CASE stage' = "failed" /\ UNCHANGED <<build, private, iter>>
  <2>1. Types' /\ OnlyPushed' /\ PushedSoFar' /\ OkInv'
    BY <1>1, <1>2, <1>6 DEF Types, Stages, OnlyPushed, PushedSoFar, OkInv
  <2>2. PrivateInv' /\ TodoInv'
    BY <1>1, <1>2, <1>6 DEF PrivateInv, TodoInv
  <2> QED
    BY <2>1, <2>2 DEF IntInv
<1> QED
  BY <1>3, <1>4, <1>5, <1>6

LEMMA IntTouchInv ==
  ASSUME PushInv, IntInv, IntTouch
  PROVE  PushInv' /\ IntInv'
<1> USE DEF PushInv
<1>1. /\ kind = "int" /\ ok' = TRUE /\ stage' = "succeeded"
      /\ stage = "touch" \/ (stage = "push" /\ left = <<>>)
      /\ UNCHANGED <<kind, db, data, build, left, args, quick, iter, private, todos>>
  BY DEF IntTouch, IsInt, Exit, intVars
<1>2. PrivateInv /\ TodoInv
  BY <1>1 DEF IntInv
<1>3. ~ quick => \A t \in Targets : build[t] \subseteq db[t]
  BY <1>1, AllPushed DEF OkInv
<1>4. Types' /\ OnlyPushed' /\ PushedSoFar'
  BY <1>1 DEF Types, Stages, OnlyPushed, PushedSoFar
<1>5. OkInv'
  BY <1>1, <1>3 DEF OkInv
<1>6. PrivateInv'
  BY <1>1, <1>2 DEF PrivateInv
<1>7. ~ quick => private \subseteq db["int"]
  BY <1>1, <1>2, <1>3 DEF PrivateInv, Targets
<1>8. Thorough => Unfiltered(Pips) \subseteq Solved(db["int"])
  <2> SUFFICES ASSUME Thorough PROVE Unfiltered(Pips) \subseteq Solved(db["int"])
    OBVIOUS
  <2>1. Unfiltered(Pips) \subseteq Solved(private)
    BY <1>1, <1>2 DEF TodoInv, Thorough, Unfiltered
  <2>2. Solved(private) \subseteq Solved(db["int"])
    BY <1>7 DEF Solved, Thorough
  <2> QED
    BY <2>1, <2>2
<1>9. TodoInv'
  <2>1. Solved(db["int"])' = Solved(db["int"])
    BY <1>1 DEF Solved
  <2> QED
    BY <1>1, <1>8, <2>1 DEF TodoInv, Thorough
<1> QED
  BY <1>4, <1>5, <1>6, <1>9 DEF IntInv

LEMMA IntPushNextInv ==
  ASSUME PushInv, IntInv, kind = "int", PushNext, UNCHANGED intVars
  PROVE  PushInv' /\ IntInv'
<1>1. /\ stage = "push" /\ stage' \in {"push", "failed"}
      /\ UNCHANGED <<kind, ok, data, build, args, quick, iter, private, todos>>
  BY DEF PushNext, Exit, intVars
<1>2. PushInv'
  BY <1>1, PushNextPush
<1>3. PrivateInv /\ TodoInv
  BY DEF IntInv
<1>4. db["int"] \subseteq db'["int"]
  <2>1. CASE UNCHANGED db
    BY <2>1
  <2>2. CASE db' = [db EXCEPT ![Head(left)] = @ \cup build[Head(left)]]
    BY <2>2 DEF PushInv, Types
  <2> QED
    BY <2>1, <2>2 DEF PushNext, Exit
<1>5. PrivateInv'
  BY <1>1, <1>3, <1>4 DEF PrivateInv
<1>6. Solved(private)' = Solved(private) /\ Solved(db["int"]) \subseteq Solved(db["int"])'
  BY <1>1, <1>4 DEF Solved
<1>7. TodoInv'
  BY <1>1, <1>3, <1>6 DEF TodoInv, Thorough
<1> QED
  BY <1>2, <1>5, <1>7 DEF IntInv

LEMMA NothingToPushInv ==
  ASSUME PushInv, IntInv, NothingToPush
  PROVE  PushInv' /\ IntInv'
<1> USE DEF PushInv
<1>1. /\ kind = "int" /\ stage = "push" /\ stage' = "failed"
      /\ UNCHANGED <<kind, db, ok, data, build, left, args, quick, iter, private, todos>>
  BY DEF NothingToPush, IsInt, Exit, intVars
<1>2. Types' /\ OnlyPushed' /\ PushedSoFar' /\ OkInv'
  BY <1>1 DEF Types, Stages, OnlyPushed, PushedSoFar, OkInv
<1>3. Solved(private)' = Solved(private) /\ Solved(db["int"])' = Solved(db["int"])
  BY <1>1 DEF Solved
<1>4. PrivateInv' /\ TodoInv'
  BY <1>1, <1>3 DEF IntInv, PrivateInv, TodoInv, Thorough
<1> QED
  BY <1>2, <1>4 DEF IntInv

LEMMA IntSteps ==
  ASSUME PushInv, IntInv, IntNext
  PROVE  PushInv' /\ IntInv'
BY IntCleanInv, MakeTodoInv, CheckTodoInv, SolveInv, IntTouchInv, IntPushNextInv, NothingToPushInv
   DEF IntNext, IntPush, IsInt

\* Steps of run_fuzzer.py that leave the child alone, or end it.
LEMMA QuietInv ==
  ASSUME PushInv, IntInv, UNCHANGED <<kind, db, ok, data, build, left, intVars>>,
         stage' \in {stage, "killed"}
  PROVE  PushInv' /\ IntInv'
<1>1. PushInv'
  BY DEF PushInv, Types, Stages, OnlyPushed, PushedSoFar, OkInv, intVars
<1>2. Solved(private)' = Solved(private) /\ Solved(db["int"])' = Solved(db["int"])
  BY DEF Solved, intVars
<1>3. ASSUME PrivateInv, TodoInv PROVE PrivateInv' /\ TodoInv'
  BY <1>2, <1>3 DEF PrivateInv, TodoInv, Thorough, intVars
<1> QED
  BY <1>1, <1>3 DEF IntInv

LEMMA InitInv == Init => Inv
<1> SUFFICES ASSUME Init PROVE Inv
  OBVIOUS
<1>1. PushInv
  <2>1. db = [t \in Targets |-> db[t]]
    BY FuzzerAssumption DEF Init, MakeInit
  <2> QED
    BY <2>1 DEF Init, MakeInit, IntInit, PushInv, Types, Stages, OnlyPushed, PushedSoFar, OkInv,
                NothingBuilt
<1>2. IntInv
  BY DEF Init, MakeInit, IntInit, IntInv, PrivateInv, TodoInv
<1>3. CodeInv
  BY DEF Init, MakeInit, ClbInit, CodeInv
<1> QED
  BY <1>1, <1>2, <1>3 DEF Inv
-----------------------------------------------------------------------------
LEMMA CodeOfZero == ASSUME NEW s, CodeOf(s) = 0 PROVE s = "succeeded"
BY DEF CodeOf

\* Steps of the child touch run.ok when they end well, and remove it only in
\* make clean, where no nested run is on its way back.
LEMMA ChildCode ==
  ASSUME Inv, ChildStep
  PROVE  CodeInv'
<1> USE DEF Inv, PushInv, Types, OkInv, CodeInv
<1>1. pc \in {"child", "reap"} /\ UNCHANGED <<pc, retcode, dry>>
  BY DEF ChildStep, own
<1>2. CASE Clean /\ UNCHANGED unwinding
  BY <1>1, <1>2 DEF Clean
<1>3. CASE PushNext /\ UNCHANGED unwinding
  BY <1>1, <1>3 DEF PushNext, Exit
<1>4. ASSUME NEW next \in {"check", "push"}, Database(next), UNCHANGED unwinding
      PROVE  CodeInv'
  BY <1>1, <1>4, DatabaseStep
<1>5. CASE CheckDb
  BY <1>1, <1>5 DEF CheckDb, Exit
<1>6. CASE ClbTouch
  BY <1>1, <1>6 DEF ClbTouch, IsClb, Exit, clbVars
<1>7. CASE PlainTouch /\ UNCHANGED unwinding
  BY <1>1, <1>7 DEF PlainTouch, Exit
<1>8. CASE (MakeTodo \/ CheckTodo \/ Solve \/ IntTouch \/ NothingToPush) /\ UNCHANGED unwinding
  <2>1. CASE MakeTodo
    BY <1>1, <1>8, <2>1 DEF MakeTodo
  <2>2. CASE CheckTodo
    BY <1>1, <1>8, <2>2 DEF CheckTodo, Exit
  <2>3. CASE Solve
    <3>1. stage = "solve" /\ UNCHANGED <<kind, ok>> /\ stage' # "succeeded"
      BY <2>3 DEF Solve, IntFixed, Merged, Exit
    <3> QED
      BY <1>1, <1>8, <3>1
  <2>4. CASE IntTouch
    BY <1>1, <1>8, <2>4 DEF IntTouch, Exit
  <2>5. CASE NothingToPush
    BY <1>1, <1>8, <2>5 DEF NothingToPush, Exit
  <2> QED
    BY <1>8, <2>1, <2>2, <2>3, <2>4, <2>5
<1>9. CASE ClbNext
  BY <1>2, <1>3, <1>4, <1>5, <1>6, <1>9 DEF ClbNext, ClbDatabase, clbVars
<1>10. CASE IntNext /\ UNCHANGED clbVars
  BY <1>2, <1>3, <1>8, <1>10 DEF IntNext, IntClean, IntPush, clbVars
<1>11. CASE PlainNext /\ UNCHANGED <<clbVars, intVars>>
  BY <1>2, <1>3, <1>4, <1>7, <1>11 DEF PlainNext, PlainDatabase, clbVars
<1> QED
  BY <1>9, <1>10, <1>11 DEF ChildStep

LEMMA OtherSteps ==
  ASSUME Inv, SkipFuzzer \/ ChildReturns \/ Reap \/ Finish \/ KillChild \/ Interrupt \/ CallAgain
  PROVE  Inv'
<1>1. /\ UNCHANGED <<kind, db, ok, data, build, left, clbVars, intVars, dry>>
      /\ stage' \in {stage, "killed"}
  BY DEF SkipFuzzer, ChildReturns, Reap, Finish, KillChild, Interrupt, CallAgain, own,
         childVars, shared
<1>2. PushInv' /\ IntInv'
  BY <1>1, QuietInv DEF Inv
<1>3. (stage' = "succeeded" => ok') /\ (unwinding' => ok' /\ kind' # "int")
  BY <1>1 DEF Inv, CodeInv, clbVars
<1>4. (pc' \in {"finish", "end"} /\ retcode' = 0) => ok' \/ dry'
  <2> USE <1>1 DEF Inv, CodeInv
  <2>1. CASE SkipFuzzer
    BY <2>1 DEF SkipFuzzer
  <2>2. CASE ChildReturns
    BY <2>2, CodeOfZero DEF ChildReturns
  <2>3. CASE Reap
    BY <2>3, CodeOfZero DEF Reap
  <2>4. CASE Finish
    BY <2>4 DEF Finish
  <2>5. CASE KillChild \/ Interrupt \/ CallAgain
    BY <2>5 DEF KillChild, Interrupt, CallAgain, own
  <2> QED
    BY <2>1, <2>2, <2>3, <2>4, <2>5
<1> QED
  BY <1>2, <1>3, <1>4 DEF Inv, CodeInv

\* make run starts anew: run.ok is not there.
LEMMA SpawnInv ==
  ASSUME Inv, Spawn
  PROVE  Inv'
<1>1. /\ ~ ok /\ stage' = "clean" /\ left' = <<>> /\ unwinding' = FALSE /\ pc' = "child"
      /\ UNCHANGED <<kind, db, ok, data, build, args, quick, iter, private, todos>>
  BY DEF Spawn, intVars
<1>2. PushInv'
  <2>1. left' \in Seq(Targets)
    BY <1>1
  <2> QED
    BY <1>1, <2>1 DEF Inv, PushInv, Types, Stages, OnlyPushed, PushedSoFar, OkInv
<1>3. IntInv'
  BY <1>1 DEF Inv, IntInv, PrivateInv, TodoInv
<1>4. CodeInv'
  BY <1>1 DEF CodeInv
<1> QED
  BY <1>2, <1>3, <1>4 DEF Inv

LEMMA ChildInv ==
  ASSUME Inv, ChildStep
  PROVE  Inv'
<1>1. CodeInv'
  BY ChildCode
<1>2. CASE ClbNext /\ UNCHANGED intVars
  <2>1. kind # "int" /\ UNCHANGED kind
    BY <1>2 DEF ClbNext, ClbDatabase, Database, CheckDb, ClbTouch, IsClb, Clean, PushNext
  <2> QED
    BY <1>1, <1>2, <2>1, ClbPush DEF Inv, IntInv
<1>3. CASE IntNext /\ UNCHANGED clbVars
  BY <1>1, <1>3, IntSteps DEF Inv
<1>4. CASE PlainNext /\ UNCHANGED <<clbVars, intVars>>
  <2>1. kind # "int" /\ UNCHANGED kind
    BY <1>4 DEF PlainNext, PlainDatabase, Database, PlainTouch, Clean, PushNext
  <2> QED
    BY <1>1, <1>4, <2>1, PlainPush DEF Inv, IntInv
<1> QED
  BY <1>2, <1>3, <1>4 DEF ChildStep

LEMMA NextInv == Inv /\ [Next]_vars => Inv'
<1> SUFFICES ASSUME Inv, [Next]_vars PROVE Inv'
  OBVIOUS
<1>1. CASE UNCHANGED vars
  <2>1. PushInv' /\ IntInv'
    BY <1>1, QuietInv DEF Inv, vars, childVars, shared
  <2>2. CodeInv'
    BY <1>1 DEF Inv, CodeInv, vars, childVars, shared, clbVars, own
  <2> QED
    BY <2>1, <2>2 DEF Inv
<1> QED
  BY <1>1, OtherSteps, SpawnInv, ChildInv DEF Next, Work

LEMMA InvAlways == Spec => []Inv
BY InitInv, NextInv, PTL DEF Spec

\* run.ok promises that what was built is pushed, and that a loop which must
\* leave no pip unsolved has left none: for any designs, specimens, databases
\* and limits, failures, kills and reruns.
THEOREM Pushed == Spec => []OkIsPushed
<1>1. Inv => OkIsPushed
  BY DEF Inv, PushInv, OkInv, IntInv, TodoInv, Thorough, OkIsPushed
<1> QED
  BY <1>1, InvAlways, PTL

\* Exit code 0 of run_fuzzer.py is backed by run.ok, whenever it is
\* interrupted or its child killed.
THEOREM Real == Spec => []SuccessIsReal
<1>1. Inv => SuccessIsReal
  BY DEF Inv, CodeInv, SuccessIsReal
<1> QED
  BY <1>1, InvAlways, PTL

\* Pushing again on the way out of nested runs, at whatever depth, changes
\* nothing.
THEOREM PushAgain == Spec => PushAgainAddsNothing
<1>1. Inv /\ [Next]_vars => [unwinding /\ stage = "push" => UNCHANGED db]_vars
  <2> SUFFICES ASSUME Inv, [Next]_vars, unwinding, stage = "push" PROVE UNCHANGED db
    OBVIOUS
  <2>1. \A t \in Targets : build[t] \subseteq db[t]
    BY DEF Inv, PushInv, Types, OkInv, CodeInv
  <2>2. CASE PushNext
    <3>1. CASE UNCHANGED db
      BY <3>1
    <3>2. CASE db' = [db EXCEPT ![Head(left)] = @ \cup build[Head(left)]] /\ left # <<>>
      <4>1. Head(left) \in Targets
        BY <3>2 DEF Inv, PushInv, Types
      <4>2. db[Head(left)] \cup build[Head(left)] = db[Head(left)]
        BY <2>1, <4>1
      <4> QED
        BY <3>2, <4>1, <4>2 DEF Inv, PushInv, Types
    <3> QED
      BY <2>2, <3>1, <3>2 DEF PushNext, Exit
  <2>3. CASE ChildStep /\ ~ PushNext
    BY <2>3 DEF ChildStep, ClbNext, IntNext, PlainNext, Clean, ClbDatabase, PlainDatabase, Database,
                CheckDb, ClbTouch, PlainTouch, IntClean, MakeTodo, CheckTodo, Solve, IntTouch,
                NothingToPush, IntPush
  <2>4. CASE ~ ChildStep
    BY <2>4 DEF Next, Work, SkipFuzzer, Spawn, ChildReturns, Reap, Finish, KillChild, Interrupt,
                CallAgain, vars, own, childVars, shared
  <2> QED
    BY <2>2, <2>3, <2>4
<1> QED
  BY <1>1, InvAlways, PTL DEF Spec, PushAgainAddsNothing
-----------------------------------------------------------------------------
\* The features that the segments mention.
Seen(segments) == UNION {DOMAIN s.tags : s \in segments}

\* What clb.mk builds, checks and pushes without dbfixup: lines for all the
\* features of the specimens, in both databases, and after parsedb no line
\* that is not resolved.
CompleteInv ==
  kind = "clb" =>
    \A t \in {"clbll", "clblm"} :
      /\ stage \in {"check", "push"} \/ ok => Seen(data) \subseteq Solved(build[t])
      /\ stage = "check" => build[t] = build["clblm"]
      /\ stage = "push" \/ ok => \A l \in build[t] : l.mode = None

\* segmatch writes a line for every feature.
LEMMA LineForEach ==
  ASSUME NEW segments, NEW a
  PROVE  Solved(Match(segments, a)) = Seen(segments)
<1>1. \A t : MatchLine(segments, t, a, Candidates(segments, t)).tag = t
  BY DEF MatchLine, Line
<1> QED
  BY <1>1 DEF Match, Solved, Seen

LEMMA BuiltClb ==
  ASSUME kind = "clb", NEW lines, NEW t \in {"clbll", "clblm"}
  PROVE  Built(lines)[t] = lines
<1>1. PushesOf(kind) = <<"clbll", "clblm">>
  BY DEF PushesOf
<1>2. t \in Targets
  BY DEF Targets
<1>3. ~ (\A n \in DOMAIN PushesOf(kind) : PushesOf(kind)[n] # t)
  <2>1. CASE t = "clbll"
    BY <1>1, <2>1
  <2>2. CASE t = "clblm"
    BY <1>1, <2>2
  <2> QED
    BY <2>1, <2>2
<1> QED
  BY <1>2, <1>3 DEF Built

\* make database of clb.mk gives both databases what segmatch has made of the
\* specimens.
LEMMA BuildsEach ==
  ASSUME kind = "clb", Database("check"), stage' # "failed"
  PROVE  /\ stage' = "check"
         /\ \A t \in {"clbll", "clblm"} :
              build'[t] = build'["clblm"] /\ Solved(build'[t]) = Seen(data')
<1>1. stage' = "check" /\ build' = Built(Solution(data'))
  BY DEF Database, Fixed, Exit
<1>2. \A t \in {"clbll", "clblm"} : build'[t] = Solution(data')
  BY <1>1, BuiltClb
<1>3. Solved(Solution(data')) = Seen(data')
  BY LineForEach DEF Solution
<1> QED
  BY <1>1, <1>2, <1>3

LEMMA CompleteNext == Inv /\ CompleteInv /\ [Next]_vars => CompleteInv'
<1> SUFFICES ASSUME Inv, CompleteInv, [Next]_vars PROVE CompleteInv'
  OBVIOUS
<1>0. kind' = kind
  <2>1. CASE ~ ChildStep
    BY <2>1 DEF Next, Work, SkipFuzzer, Spawn, ChildReturns, Reap, Finish, KillChild,
                Interrupt, CallAgain, vars, childVars, shared
  <2>2. CASE ChildStep
    <3>1. CASE Clean \/ PushNext
      BY <3>1 DEF Clean, PushNext
    <3>2. CASE ClbDatabase \/ CheckDb \/ ClbTouch
      BY <3>2 DEF ClbDatabase, Database, CheckDb, ClbTouch
    <3>3. CASE PlainDatabase \/ PlainTouch
      BY <3>3 DEF PlainDatabase, Database, PlainTouch
    <3>4. CASE MakeTodo \/ CheckTodo \/ Solve \/ IntTouch \/ NothingToPush
      BY <3>4 DEF MakeTodo, CheckTodo, Solve, IntTouch, NothingToPush
    <3> QED
      BY <2>2, <3>1, <3>2, <3>3, <3>4 DEF ChildStep, ClbNext, IntNext, IntClean, IntPush, PlainNext
  <2> QED
    BY <2>1, <2>2
<1> SUFFICES ASSUME kind = "clb", kind' = "clb" PROVE CompleteInv'
  BY <1>0 DEF CompleteInv
<1>1. ok => stage \in {"push", "succeeded", "failed", "killed"}
  BY DEF Inv, PushInv, OkInv
<1>2. ASSUME UNCHANGED <<data, build>>, ok' => ok \/ stage = "push",
             stage' = "push" => stage = "push", stage' # "check"
      PROVE  CompleteInv'
  BY <1>2 DEF CompleteInv, Seen, Solved
<1>3. CASE Clean
  BY <1>3 DEF Clean, CompleteInv
<1>4. CASE PushNext
  BY <1>2, <1>4 DEF PushNext, Exit
<1>5. CASE ClbDatabase
  <2>1. Database("check") /\ stage = "database" /\ UNCHANGED ok
    BY <1>5 DEF ClbDatabase, Database
  <2>2. CASE stage' = "failed"
    BY <1>1, <2>1, <2>2 DEF CompleteInv
  <2>3. CASE stage' # "failed"
    BY <1>1, <2>1, <2>3, BuildsEach DEF CompleteInv
  <2> QED
    BY <2>2, <2>3
<1>6. CASE CheckDb
  <2>1. stage = "check" /\ UNCHANGED <<data, build, ok>>
    BY <1>6 DEF CheckDb
  <2>2. stage' # "check" /\ (stage' = "push" => Parsed)
    BY <1>6 DEF CheckDb, Exit
  <2>3. Parsed => \A t \in {"clbll", "clblm"} : \A l \in build[t] : l.mode = None
    BY <2>1 DEF CompleteInv, Parsed, Refused
  <2> QED
    BY <1>1, <2>1, <2>2, <2>3 DEF CompleteInv, Seen, Solved
<1>7. CASE ClbTouch
  BY <1>2, <1>7 DEF ClbTouch, Exit
<1>8. CASE ChildStep
  BY <1>3, <1>4, <1>5, <1>6, <1>7, <1>8
     DEF ChildStep, ClbNext, IntNext, PlainNext, IntClean, MakeTodo, CheckTodo, Solve,
         IntTouch, NothingToPush, IntPush, PlainDatabase, PlainTouch, IsInt
<1>9. CASE ~ ChildStep
  <2>1. /\ UNCHANGED <<data, build, ok>>
        /\ stage' \in {stage, "killed"} \/ (~ ok /\ stage' = "clean")
    BY <1>9 DEF Next, Work, SkipFuzzer, Spawn, ChildReturns, Reap, Finish, KillChild,
                Interrupt, CallAgain, vars, own, childVars, shared
  <2> QED
    BY <2>1 DEF CompleteInv, Seen, Solved
<1> QED
  BY <1>8, <1>9

\* A fuzzer of clb.mk has its run.ok only when every feature of its last
\* specimens has a resolved entry in both databases, however often it was run
\* again in between.
THEOREM Complete == Spec => []OkIsComplete
<1>1. Init => CompleteInv
  BY DEF Init, MakeInit, CompleteInv
<1>2. Inv /\ CompleteInv => OkIsComplete
  <2> SUFFICES ASSUME Inv, CompleteInv, kind = "clb", ok, NEW t \in {"clbll", "clblm"}
               PROVE  Seen(data) \subseteq Solved({e \in db[t] : e.mode = None})
    BY DEF OkIsComplete, Seen
  <2>1. build[t] \subseteq db[t]
    BY DEF Inv, PushInv, OkInv, Types, Targets
  <2>2. Seen(data) \subseteq Solved(build[t]) /\ \A l \in build[t] : l.mode = None
    BY DEF CompleteInv
  <2> QED
    BY <2>1, <2>2 DEF Solved
<1> QED
  BY <1>1, <1>2, CompleteNext, InvAlways, PTL DEF Spec

-----------------------------------------------------------------------------
\* Clear bits are not among the set ones.
LEMMA OnesKept ==
  ASSUME NEW k, NEW l, NEW names, k.bits = l.bits \cup Clear(names)
  PROVE  OnesOf(k) = OnesOf(l)
<1>1. \A x \in Clear(names) : x[1] = FALSE
  BY DEF Clear
<1>2. {x \in k.bits : x[1]} = {x \in l.bits : x[1]}
  BY <1>1
<1> QED
  BY <1>2 DEF OnesOf

LEMMA OnesOfSet ==
  ASSUME NEW l, NEW names, l.bits = Set(names)
  PROVE  OnesOf(l) = names
<1>1. \A x \in l.bits : x[1] = TRUE /\ x[2] \in names
  BY DEF Set
<1>2. \A b \in names : <<TRUE, b>> \in l.bits
  BY DEF Set
<1>3. {x \in l.bits : x[1]} = l.bits
  BY <1>1
<1>4. OnesOf(l) \subseteq names
  BY <1>1, <1>3 DEF OnesOf
<1>5. \A b \in names : <<TRUE, b>> \in {x \in l.bits : x[1]} /\ <<TRUE, b>>[2] = b
  BY <1>2, <1>3
<1>6. names \subseteq OnesOf(l)
  BY <1>5, Zenon DEF OnesOf
<1> QED
  BY <1>4, <1>6

\* A line of segmatch: resolved, with the candidates as its set bits, or
\* without bits.
LEMMA MatchBits ==
  ASSUME NEW segments, NEW a, NEW l \in Match(segments, a)
  PROVE  /\ l = MatchLine(segments, l.tag, a, Candidates(segments, l.tag))
         /\ l.bits = Set(OnesOf(l))
         /\ OnesOf(l) # {} => l.mode = None /\ OnesOf(l) = Candidates(segments, l.tag)
<1>1. PICK u : l = MatchLine(segments, u, a, Candidates(segments, u))
  BY DEF Match
<1>2. \/ l = Line(u, Set(Candidates(segments, u)), None)
      \/ \E m : l = Line(u, {}, m)
  BY <1>1 DEF MatchLine
<1>3. l.tag = u
  BY <1>2 DEF Line
<1>4. CASE l = Line(u, Set(Candidates(segments, u)), None)
  <2>1. l.bits = Set(Candidates(segments, u)) /\ l.mode = None
    BY <1>4 DEF Line
  <2>2. OnesOf(l) = Candidates(segments, u)
    BY <2>1, OnesOfSet
  <2> QED
    BY <2>1, <2>2, <1>1, <1>3
<1>5. CASE \E m : l = Line(u, {}, m)
  <2>1. l.bits = Set({})
    BY <1>5 DEF Line, Set
  <2>2. OnesOf(l) = {}
    BY <2>1, OnesOfSet
  <2> QED
    BY <2>1, <2>2, <1>1, <1>3
<1> QED
  BY <1>2, <1>4, <1>5

\* The candidates explain the segments they were found in.
LEMMA CandidatesExplain ==
  ASSUME NEW segments, NEW t, Candidates(segments, t) # {},
         NEW s \in segments, t \in DOMAIN s.tags
  PROVE  /\ s.tags[t] = TRUE => Candidates(segments, t) \subseteq s.bits
         /\ s.tags[t] = FALSE => ~ (Candidates(segments, t) \subseteq s.bits)
<1>1. ASSUME s.tags[t] = TRUE PROVE Candidates(segments, t) \subseteq s.bits
  <2>1. s \in Having(segments, t, TRUE)
    BY <1>1 DEF Having
  <2> QED
    BY <2>1 DEF Candidates
<1>2. ASSUME s.tags[t] = FALSE PROVE ~ (Candidates(segments, t) \subseteq s.bits)
  <2>1. s \in Having(segments, t, FALSE)
    BY <1>2 DEF Having
  <2>2. \A b \in Candidates(segments, t) : b \notin s.bits
    BY <2>1 DEF Candidates
  <2> QED
    BY <2>2
<1> QED
  BY <1>1, <1>2

\* group_tags writes a line with the bits it had and clear ones.
LEMMA GroupedBits ==
  ASSUME NEW lines, NEW tag_groups, NEW k \in GroupTags(lines, tag_groups)
  PROVE  \E l \in lines :
           /\ k.tag = l.tag /\ OnesOf(k) = OnesOf(l)
           /\ k.bits = l.bits \cup
                Clear((UNION {CommonBits(lines, g) : g \in {h \in tag_groups : l.tag \in h}})
                       \ NamesOf(l))
<1> DEFINE zeros(l) == (UNION {CommonBits(lines, g) : g \in {h \in tag_groups : l.tag \in h}})
                         \ NamesOf(l)
<1>1. PICK l \in lines : k = Line(l.tag, l.bits \cup Clear(zeros(l)), None)
  BY DEF GroupTags
<1> HIDE DEF zeros
<1>2. k.tag = l.tag /\ k.bits = l.bits \cup Clear(zeros(l))
  BY <1>1 DEF Line
<1>3. OnesOf(k) = OnesOf(l)
  BY <1>2, OnesKept
<1> QED
  BY <1>2, <1>3 DEF zeros

\* dbfixup adds clear bits to a line, and drops lines, but never changes what is
\* set.
LEMMA FixupOnes ==
  ASSUME NEW lines, NEW zero_db, NEW tag_groups, NEW clb_int,
         NEW e \in Fixup(lines, zero_db, tag_groups, clb_int)
  PROVE  \E l \in lines : e.tag = l.tag /\ OnesOf(e) = OnesOf(l)
<1> DEFINE grouped == GroupTags(lines, tag_groups)
<1>1. e \in AddZeroBits(grouped, zero_db, clb_int)
  BY DEF Fixup, Unambiguous
<1>2. PICK k \in grouped :
        e = Line(k.tag, k.bits \cup (IF clb_int THEN ZeroRange(k) ELSE {})
                          \cup ZeroGroupBits(k, grouped, zero_db), None)
  BY <1>1 DEF AddZeroBits
<1>3. PICK zeros : ZeroGroupBits(k, grouped, zero_db) = Clear(zeros)
  BY DEF ZeroGroupBits
<1>4. PICK range : (IF clb_int THEN ZeroRange(k) ELSE {}) = Clear(range)
  <2>1. CASE clb_int
    BY <2>1 DEF ZeroRange
  <2>2. CASE ~ clb_int
    <3>1. Clear({}) = {}
      BY DEF Clear
    <3> QED
      BY <2>2, <3>1
  <2> QED
    BY <2>1, <2>2
<1>5. e.tag = k.tag /\ e.bits = k.bits \cup Clear(range \cup zeros)
  <2>1. Clear(range \cup zeros) = Clear(range) \cup Clear(zeros)
    BY DEF Clear
  <2> QED
    BY <2>1, <1>2, <1>3, <1>4 DEF Line
<1>6. OnesOf(e) = OnesOf(k)
  BY <1>5, OnesKept
<1> QED
  BY <1>5, <1>6, GroupedBits
-----------------------------------------------------------------------------
\* An entry says of its set bits what segmatch has made of the segments.
MadeOf(e, segments) == OnesOf(e) # {} => OnesOf(e) = Candidates(segments, e.tag)

LEMMA LineMadeOf ==
  ASSUME NEW segments, NEW l \in Solution(segments)
  PROVE  MadeOf(l, segments)
<1>1. l \in Match(segments, MatchArgs[kind])
  BY DEF Solution
<1> QED
  BY <1>1, MatchBits DEF MadeOf

LEMMA BuiltMadeOf ==
  ASSUME NEW segments, NEW t \in Targets, NEW e \in Built(Solution(segments))[t]
  PROVE  MadeOf(e, segments)
<1> DEFINE lines == Solution(segments)
           file == FileFor(t, lines)
           fixed == Fixup(file, ZeroDb[kind], Groups, kind = "int")
<1>1. Built(lines)[t] = {} \/ Built(lines)[t] = lines \/ Built(lines)[t] = fixed
  BY DEF Built
<1>2. file \subseteq lines
  BY DEF FileFor
<1> HIDE DEF lines, file, fixed
<1>3. CASE e \in lines
  BY <1>3, LineMadeOf DEF lines
<1>4. CASE e \in fixed
  <2>1. PICK l \in file : e.tag = l.tag /\ OnesOf(e) = OnesOf(l)
    BY <1>4, FixupOnes DEF fixed
  <2>2. MadeOf(l, segments)
    BY <1>2, <2>1, LineMadeOf DEF lines
  <2> QED
    BY <2>1, <2>2 DEF MadeOf
<1> QED
  BY <1>1, <1>3, <1>4 DEF lines

\* Where segments and lines are in use.
Live == {"database", "check", "solve", "touch", "push"}

\* The lines are new: segmatch, and dbfixup unless the run is quick, have made
\* them of the segments that are there now.
Rebuilt ==
  \/ build' = Built(Solution(data'))
  \/ quick /\ kind = "int" /\ build' = [build EXCEPT !["int"] = Solution(data')]

\* The segments are new, or there are more of them.
Sampled ==
  \E i : \E batch \in Compilable(kind) :
    \/ data' = Specimens(i, batch)
    \/ data' = data \cup Specimens(i, batch)

\* What a step does to segments and lines.
Effect ==
  \/ UNCHANGED <<data, build>> /\ (stage' \in Live => stage \in Live)
  \/ data' = {} /\ build' = NothingBuilt
  \/ Sampled /\ (Rebuilt \/ (UNCHANGED build /\ stage' = "failed"))

LEMMA DatabaseEffect ==
  ASSUME NEW next, Database(next)
  PROVE  UNCHANGED kind /\ Effect
<1>1. CASE Exit("failed") /\ UNCHANGED <<data, build>>
  BY <1>1 DEF Database, Effect, Exit, Live
<1>2. CASE \E batch \in Compilable(kind) :
             data' = Specimens(0, batch) /\ Fixed(Solution(data'), next)
  <2>1. PICK batch \in Compilable(kind) :
             data' = Specimens(0, batch) /\ Fixed(Solution(data'), next)
    BY <1>2
  <2>2. Sampled
    BY <2>1 DEF Sampled
  <2>3. Rebuilt \/ (UNCHANGED build /\ stage' = "failed")
    BY <2>1 DEF Fixed, Exit, Rebuilt
  <2> QED
    BY <2>2, <2>3 DEF Effect, Database
<1> QED
  BY <1>1, <1>2 DEF Database

LEMMA SolveEffect ==
  ASSUME Solve
  PROVE  UNCHANGED kind /\ Effect
<1>1. CASE Exit("failed") /\ UNCHANGED <<data, build>>
  BY <1>1 DEF Solve, Effect, Exit, Live
<1>2. CASE \E batch \in Compilable(kind) :
             data' = data \cup Specimens(iter, batch) /\ IntFixed(Solution(data'))
  <2>1. PICK batch \in Compilable(kind) :
             data' = data \cup Specimens(iter, batch) /\ IntFixed(Solution(data'))
    BY <1>2
  <2>2. Sampled
    BY <2>1 DEF Sampled
  <2>3. Rebuilt \/ (UNCHANGED build /\ stage' = "failed")
    BY <2>1 DEF IntFixed, Exit, Rebuilt, Solve, IsInt
  <2> QED
    BY <2>2, <2>3 DEF Effect, Solve
<1> QED
  BY <1>1, <1>2 DEF Solve

LEMMA StepEffect ==
  ASSUME Inv, [Next]_vars
  PROVE  UNCHANGED kind /\ Effect
<1> USE DEF Live
<1>1. CASE ~ ChildStep
  BY <1>1 DEF Next, Work, SkipFuzzer, Spawn, ChildReturns, Reap, Finish, KillChild,
              Interrupt, CallAgain, vars, own, childVars, shared, Effect
<1>2. CASE Clean
  BY <1>2 DEF Clean, Effect
<1>3. CASE PushNext
  BY <1>3 DEF PushNext, Exit, Effect
<1>4. CASE ClbDatabase \/ PlainDatabase
  BY <1>4, DatabaseEffect DEF ClbDatabase, PlainDatabase
<1>5. CASE CheckDb
  BY <1>5 DEF CheckDb, Exit, Effect
<1>6. CASE ClbTouch \/ PlainTouch \/ IntTouch \/ NothingToPush
  BY <1>6 DEF ClbTouch, PlainTouch, IntTouch, NothingToPush, Exit, Effect
<1>7. CASE MakeTodo \/ CheckTodo
  BY <1>7 DEF MakeTodo, CheckTodo, Exit, Effect
<1>8. CASE Solve
  BY <1>8, SolveEffect
<1>9. CASE ChildStep
  BY <1>2, <1>3, <1>4, <1>5, <1>6, <1>7, <1>8, <1>9
     DEF ChildStep, ClbNext, IntNext, IntClean, IntPush, PlainNext
<1> QED
  BY <1>1, <1>9

\* All that is built is of the segments that were solved last.
LEMMA RebuiltMadeOf ==
  ASSUME Inv, Rebuilt, UNCHANGED kind, NEW t \in Targets, NEW e \in build'[t]
  PROVE  MadeOf(e, data')
<1>1. PICK segments : segments = data'
  OBVIOUS
<1>2. CASE build' = Built(Solution(segments))
  BY <1>1, <1>2, BuiltMadeOf
<1>3. CASE quick /\ kind = "int" /\ build' = [build EXCEPT !["int"] = Solution(segments)]
  <2>1. t = "int"
    <3> SUFFICES ASSUME t # "int" PROVE FALSE
      OBVIOUS
    <3>1. build'[t] = build[t]
      BY <1>3 DEF Inv, PushInv, Types
    <3>2. build[t] = {}
      BY <1>3, PushesOfInt DEF Inv, PushInv, OnlyPushed
    <3> QED
      BY <3>1, <3>2
  <2>2. e \in Solution(segments)
    BY <1>3, <2>1 DEF Inv, PushInv, Types
  <2> QED
    BY <1>1, <2>2, LineMadeOf
<1> QED
  BY <1>1, <1>2, <1>3 DEF Rebuilt

MadeInv == stage \in Live => \A t \in Targets : \A e \in build[t] : MadeOf(e, data)

LEMMA MadeNext == Inv /\ MadeInv /\ [Next]_vars => MadeInv'
<1> SUFFICES ASSUME Inv, MadeInv, [Next]_vars, stage' \in Live,
                    NEW t \in Targets, NEW e \in build'[t]
             PROVE  MadeOf(e, data')
  BY DEF MadeInv
<1>1. UNCHANGED kind /\ Effect
  BY StepEffect
<1>2. CASE UNCHANGED <<data, build>> /\ stage \in Live
  BY <1>2 DEF MadeInv
<1>3. CASE Rebuilt
  BY <1>1, <1>3, RebuiltMadeOf
<1>4. build' # NothingBuilt
  BY DEF NothingBuilt
<1>5. stage' # "failed"
  BY DEF Live
<1> QED
  BY <1>1, <1>2, <1>3, <1>4, <1>5 DEF Effect

\* What is pushed explains all the specimens it was made of: the set bits of an
\* entry are in every segment that has the feature and in none that has not,
\* whatever the designs, in any iteration and rerun.
THEOREM SetBits == Spec => []SetBitsExplain
<1>1. Init => MadeInv
  BY DEF Init, MakeInit, MadeInv, Live
<1>2. MadeInv => SetBitsExplain
  <2> SUFFICES ASSUME MadeInv, stage = "push", NEW t \in Targets, NEW e \in build[t],
                      NEW s \in data, e.tag \in DOMAIN s.tags, OnesOf(e) # {}
               PROVE  /\ s.tags[e.tag] = TRUE => OnesOf(e) \subseteq s.bits
                      /\ s.tags[e.tag] = FALSE => ~ (OnesOf(e) \subseteq s.bits)
    BY DEF SetBitsExplain
  <2>1. OnesOf(e) = Candidates(data, e.tag)
    BY DEF MadeInv, MadeOf, Live
  <2> QED
    BY <2>1, CandidatesExplain
<1> QED
  BY <1>1, <1>2, MadeNext, InvAlways, PTL DEF Spec
-----------------------------------------------------------------------------
\* A segment in which a feature is on has its bits, one in which it is off has
\* none of them.
Truthful(s) ==
  \A t \in DOMAIN s.tags :
    /\ s.tags[t] = TRUE => Truth[t] \subseteq s.bits
    /\ s.tags[t] = FALSE => Truth[t] \cap s.bits = {}

\* The set bits of an entry are at least those of its feature.
Covers(e) == OnesOf(e) # {} => Truth[e.tag] \subseteq OnesOf(e)

CoverInv ==
  /\ \A s \in data : Truthful(s)
  /\ \A t \in Targets : \A e \in build[t] \cup New(t) : Covers(e)

LEMMA SpecimensTruthful ==
  ASSUME NEW k \in Kinds, NEW batch \in Compilable(k), NEW i, NEW s \in Specimens(i, batch)
  PROVE  Truthful(s)
<1>1. PICK d \in batch : \E x \in Compile(Designs[d]) :
             s = [of |-> <<i, d>>, bits |-> x.bits, tags |-> x.tags]
  BY DEF Specimens
<1>2. PICK x \in Compile(Designs[d]) : s = [of |-> <<i, d>>, bits |-> x.bits, tags |-> x.tags]
  BY <1>1
<1>3. s.bits = x.bits /\ s.tags = x.tags
  BY <1>2
<1>4. \A t \in DOMAIN x.tags :
        /\ x.tags[t] = TRUE => Truth[t] \subseteq x.bits
        /\ x.tags[t] = FALSE => Truth[t] \cap x.bits = {}
  BY TruthAssumption
<1> QED
  BY <1>3, <1>4 DEF Truthful

\* What all segments that have a feature have in common, and no segment that has
\* not, comprises the bits of the feature.
LEMMA CandidatesCover ==
  ASSUME NEW segments, \A s \in segments : Truthful(s),
         NEW t, Candidates(segments, t) # {}
  PROVE  Truth[t] \subseteq Candidates(segments, t)
<1> SUFFICES ASSUME NEW b \in Truth[t] PROVE b \in Candidates(segments, t)
  OBVIOUS
<1>1. \A s \in Having(segments, t, TRUE) : b \in s.bits
  BY DEF Having, Truthful
<1>2. \A s \in Having(segments, t, FALSE) : b \notin s.bits
  BY DEF Having, Truthful
<1>3. Having(segments, t, TRUE) # {}
  BY DEF Candidates
<1>4. b \in UNION {s.bits : s \in Having(segments, t, TRUE)}
  BY <1>1, <1>3
<1> QED
  BY <1>1, <1>2, <1>4 DEF Candidates

LEMMA MadeOfCovers ==
  ASSUME NEW segments, \A s \in segments : Truthful(s), NEW e, MadeOf(e, segments)
  PROVE  Covers(e)
BY CandidatesCover DEF MadeOf, Covers

\* A database gains nothing but lines of the build directory.
LEMMA DbGains ==
  ASSUME Inv, [Next]_vars
  PROVE  \A t \in Targets : db'[t] \subseteq db[t] \cup build[t]
<1>1. CASE UNCHANGED db
  BY <1>1
<1>2. CASE PushNext
  <2>1. CASE db' = [db EXCEPT ![Head(left)] = @ \cup build[Head(left)]]
    BY <2>1 DEF Inv, PushInv, Types
  <2> QED
    BY <1>1, <1>2, <2>1 DEF PushNext
<1>3. CASE ChildStep /\ ~ PushNext
  BY <1>1, <1>3 DEF ChildStep, ClbNext, IntNext, PlainNext, Clean, ClbDatabase, PlainDatabase,
                    Database, CheckDb, ClbTouch, PlainTouch, IntClean, MakeTodo, CheckTodo, Solve,
                    IntTouch, NothingToPush, IntPush
<1>4. CASE ~ ChildStep
  BY <1>1, <1>4 DEF Next, Work, SkipFuzzer, Spawn, ChildReturns, Reap, Finish, KillChild,
                    Interrupt, CallAgain, vars, own, childVars, shared
<1> QED
  BY <1>2, <1>3, <1>4

LEMMA CoverNext == Inv /\ CoverInv /\ [Next]_vars => CoverInv'
<1> SUFFICES ASSUME Inv, CoverInv, [Next]_vars PROVE CoverInv'
  OBVIOUS
<1>1. UNCHANGED kind /\ Effect /\ kind \in Kinds
  BY StepEffect DEF Inv, PushInv, Types
<1>2. \A s \in data' : Truthful(s)
  <2>1. CASE Sampled
    BY <1>1, <2>1, SpecimensTruthful DEF Sampled, CoverInv
  <2> QED
    BY <1>1, <2>1 DEF Effect, CoverInv
<1>3. ASSUME NEW t \in Targets, NEW e \in build'[t] PROVE Covers(e)
  <2>1. CASE UNCHANGED build
    BY <1>3, <2>1 DEF CoverInv
  <2>2. CASE Rebuilt
    BY <1>1, <1>2, <1>3, <2>2, RebuiltMadeOf, MadeOfCovers
  <2>3. build' # NothingBuilt
    BY <1>3 DEF NothingBuilt
  <2> QED
    BY <1>1, <2>1, <2>2, <2>3 DEF Effect
<1>4. ASSUME NEW t \in Targets, NEW e \in New(t)' PROVE Covers(e)
  <2>1. e \in db'[t] /\ e \notin UNION {d[t] : d \in InitialDbs}
    BY <1>4 DEF New
  <2>2. e \in New(t) \/ e \in build[t]
    BY <2>1, DbGains DEF New
  <2> QED
    BY <2>2 DEF CoverInv
<1> QED
  BY <1>2, <1>3, <1>4 DEF CoverInv

\* However few the specimens, what a fuzzer adds to a database about a feature
\* has all the bits that the feature really has.
THEOREM CoversTruth == Spec => []EntriesCoverTruth
<1>1. Init => CoverInv
  BY FuzzerAssumption DEF Init, MakeInit, CoverInv, NothingBuilt, New
<1>2. CoverInv => EntriesCoverTruth
  BY DEF CoverInv, Covers, EntriesCoverTruth
<1> QED
  BY <1>1, <1>2, CoverNext, InvAlways, PTL DEF Spec
-----------------------------------------------------------------------------
\* dbfixup as the IOB fuzzers call it: with groups, without --clb-int.
GroupFixup(lines, zero_db, tag_groups) == Fixup(lines, zero_db, tag_groups, FALSE)

\* What --zero-db and --groups of the IOB fuzzers are, and what segmatch writes.
NoTags(zero_db) == \A i \in DOMAIN zero_db : zero_db[i].all_zero = {} /\ zero_db[i].tags = {}
Apart(tag_groups) == \A g, h \in tag_groups : g = h \/ g \cap h = {}
SetOnly(lines) ==
  \A l \in lines : l.bits = Set(OnesOf(l)) /\ (OnesOf(l) # {} => l.mode = None)

\* The bits that a line of a group with these set bits has after dbfixup.
FixedAs(lines, zero_db, tag_groups, g, ones) ==
  LET groups == {i \in DOMAIN zero_db : ones \cap zero_db[i].when # {}}
      zeros == UNION {ZeroBits(GroupTags(lines, tag_groups), zero_db[i]) : i \in groups}
  IN  Set(ones) \cup Clear(CommonBits(lines, g) \ ones) \cup Clear(zeros \ ones)

\* The bits of a line as dbfixup leaves it, if its zero_db has no tags.
LEMMA FixedBits ==
  ASSUME NEW lines, NEW zero_db, NEW tag_groups,
         NoTags(zero_db), Apart(tag_groups), SetOnly(lines),
         NEW e \in GroupFixup(lines, zero_db, tag_groups),
         NEW g \in tag_groups, e.tag \in g
  PROVE  \E l \in lines :
           /\ e.tag = l.tag
           /\ e.bits = FixedAs(lines, zero_db, tag_groups, g, OnesOf(l))
<1> DEFINE grouped == GroupTags(lines, tag_groups)
<1>1. e \in AddZeroBits(grouped, zero_db, FALSE)
  BY DEF GroupFixup, Fixup, Unambiguous
<1>2. PICK k \in grouped :
        /\ e.tag = k.tag
        /\ e.bits = k.bits \cup ZeroGroupBits(k, grouped, zero_db)
  BY <1>1 DEF AddZeroBits, Line
<1>3. PICK l \in lines :
        /\ k.tag = l.tag /\ OnesOf(k) = OnesOf(l)
        /\ k.bits = l.bits \cup
             Clear((UNION {CommonBits(lines, h) : h \in {x \in tag_groups : l.tag \in x}})
                    \ NamesOf(l))
  BY GroupedBits
<1>4. {x \in tag_groups : l.tag \in x} = {g}
  BY <1>2, <1>3 DEF Apart
<1>5. UNION {CommonBits(lines, h) : h \in {g}} = CommonBits(lines, g)
  OBVIOUS
<1>6. NamesOf(l) = OnesOf(l)
  <2>1. l.bits = Set(OnesOf(l))
    BY DEF SetOnly
  <2>2. \A b \in Set(OnesOf(l)) : b[1] = TRUE
    BY DEF Set
  <2>3. {b \in Set(OnesOf(l)) : b[1]} = Set(OnesOf(l))
    BY <2>2
  <2> QED
    BY <2>1, <2>3, Zenon DEF NamesOf, OnesOf
<1>7. ZeroGroupBits(k, grouped, zero_db)
        = Clear((UNION {ZeroBits(grouped, zero_db[i]) :
                         i \in {j \in DOMAIN zero_db : OnesOf(l) \cap zero_db[j].when # {}}})
                  \ OnesOf(l))
  <2>1. AllZeroTags(zero_db) = {}
    BY DEF AllZeroTags, NoTags
  <2>2. \A j \in DOMAIN zero_db :
          (\/ k.tag \in zero_db[j].all_zero
           \/ k.tag \notin AllZeroTags(zero_db) /\ MemberOf(k, zero_db[j]))
          <=> OnesOf(l) \cap zero_db[j].when # {}
    BY <1>3, <2>1 DEF MemberOf, NoTags
  <2>3. {j \in DOMAIN zero_db :
           \/ k.tag \in zero_db[j].all_zero
           \/ k.tag \notin AllZeroTags(zero_db) /\ MemberOf(k, zero_db[j])}
        = {j \in DOMAIN zero_db : OnesOf(l) \cap zero_db[j].when # {}}
    BY <2>2
  <2> QED
    BY <1>3, <2>3 DEF ZeroGroupBits
<1>8. e.bits = Set(OnesOf(l)) \cup Clear(CommonBits(lines, g) \ OnesOf(l))
                 \cup ZeroGroupBits(k, grouped, zero_db)
  BY <1>2, <1>3, <1>4, <1>5, <1>6 DEF SetOnly
<1> QED
  BY <1>2, <1>3, <1>7, <1>8 DEF FixedAs

\* Two entries of a group are told apart by a bit, or are one.
LEMMA FixupExcludes ==
  ASSUME NEW lines, NEW zero_db, NEW tag_groups,
         NoTags(zero_db), Apart(tag_groups), SetOnly(lines),
         NEW e \in GroupFixup(lines, zero_db, tag_groups),
         NEW f \in GroupFixup(lines, zero_db, tag_groups),
         e # f, NEW g \in tag_groups, {e.tag, f.tag} \subseteq g
  PROVE  \E b \in e.bits : <<~ b[1], b[2]>> \in f.bits
<1> DEFINE common == CommonBits(lines, g)
<1>1. PICK l \in lines :
        e.tag = l.tag /\ e.bits = FixedAs(lines, zero_db, tag_groups, g, OnesOf(l))
  BY FixedBits
<1>2. PICK m \in lines :
        f.tag = m.tag /\ f.bits = FixedAs(lines, zero_db, tag_groups, g, OnesOf(m))
  BY FixedBits
<1>3. OnesOf(l) \subseteq common /\ OnesOf(m) \subseteq common
  <2>1. ASSUME NEW k \in lines, k.tag \in g PROVE OnesOf(k) \subseteq common
    <3>1. CASE OnesOf(k) = {}
      BY <3>1
    <3>2. CASE OnesOf(k) # {}
      <4>1. k.mode = None
        BY <3>2 DEF SetOnly
      <4> QED
        BY <2>1, <4>1 DEF CommonBits
    <3> QED
      BY <3>1, <3>2
  <2> QED
    BY <1>1, <1>2, <2>1
<1>4. e.bits # f.bits
  BY DEF GroupFixup, Fixup, Unambiguous
<1>5. OnesOf(l) # OnesOf(m)
  BY <1>1, <1>2, <1>4
<1>6. ASSUME NEW ones, NEW b
      PROVE  /\ b \in ones => <<TRUE, b>> \in FixedAs(lines, zero_db, tag_groups, g, ones)
             /\ b \in common \ ones => <<FALSE, b>> \in FixedAs(lines, zero_db, tag_groups, g, ones)
  BY DEF FixedAs, Set, Clear
<1> HIDE DEF common
<1>7. CASE \E b \in OnesOf(l) : b \notin OnesOf(m)
  <2>1. PICK b \in OnesOf(l) : b \notin OnesOf(m)
    BY <1>7
  <2>2. <<TRUE, b>> \in e.bits /\ <<FALSE, b>> \in f.bits
    BY <1>1, <1>2, <1>3, <1>6, <2>1
  <2>3. <<~ <<TRUE, b>>[1], <<TRUE, b>>[2]>> = <<FALSE, b>>
    OBVIOUS
  <2> QED
    BY <2>2, <2>3
<1>8. CASE \E b \in OnesOf(m) : b \notin OnesOf(l)
  <2>1. PICK b \in OnesOf(m) : b \notin OnesOf(l)
    BY <1>8
  <2>2. <<FALSE, b>> \in e.bits /\ <<TRUE, b>> \in f.bits
    BY <1>1, <1>2, <1>3, <1>6, <2>1
  <2>3. <<~ <<FALSE, b>>[1], <<FALSE, b>>[2]>> = <<TRUE, b>>
    OBVIOUS
  <2> QED
    BY <2>2, <2>3
<1> QED
  BY <1>5, <1>7, <1>8

LEMMA ExcludeNext == Inv /\ Inv' /\ ChoicesExclude /\ [Next]_vars => ChoicesExclude'
<1> SUFFICES ASSUME Inv, Inv', ChoicesExclude, [Next]_vars PROVE ChoicesExclude'
  OBVIOUS
<1>1. UNCHANGED kind /\ Effect
  BY StepEffect
<1>2. CASE UNCHANGED build
  BY <1>2 DEF ChoicesExclude
<1>3. CASE build'["iob"] = {}
  BY <1>3 DEF ChoicesExclude
<1>4. CASE Rebuilt /\ kind = "iob"
  <2>1. PICK segments : segments = data'
    OBVIOUS
  <2> DEFINE lines == Match(segments, MatchArgs["iob"])
  <2>2. PushesOf(kind) = <<"iob">>
    BY <1>4 DEF PushesOf
  <2>3. ~ (\A n \in DOMAIN PushesOf(kind) : PushesOf(kind)[n] # "iob")
    BY <2>2
  <2>4. Solution(segments) = lines
    BY <1>4 DEF Solution
  <2>5. Built(lines)["iob"] = Fixup(lines, ZeroDb["iob"], TagGroups, FALSE)
    BY <1>4, <2>3 DEF Built, Targets, FileFor, Groups, GroupsOf
  <2>6. build'["iob"] = GroupFixup(lines, ZeroDb["iob"], TagGroups)
    BY <1>4, <2>1, <2>4, <2>5 DEF Rebuilt, GroupFixup
  <2>7. SetOnly(lines)
    BY MatchBits DEF SetOnly
  <2> HIDE DEF lines
  <2>8. ASSUME NEW e \in build'["iob"], NEW f \in build'["iob"], NEW g \in TagGroups,
               e # f, {e.tag, f.tag} \subseteq g
        PROVE  \E b \in e.bits : <<~ b[1], b[2]>> \in f.bits
    <3>1. NoTags(ZeroDb["iob"]) /\ Apart(TagGroups)
      BY FuzzerAssumption DEF NoTags, Apart
    <3> QED
      BY <2>6, <2>7, <2>8, <3>1, FixupExcludes
  <2> QED
    BY <2>8 DEF ChoicesExclude
<1>5. CASE kind # "iob"
  <2>1. kind' # "iob"
    BY <1>1, <1>5
  <2>2. \A n \in DOMAIN PushesOf(kind') : PushesOf(kind')[n] # "iob"
    BY <2>1 DEF PushesOf
  <2> QED
    BY <1>3, <2>2 DEF Inv, PushInv, OnlyPushed, Targets
<1> QED
  BY <1>1, <1>2, <1>3, <1>4, <1>5 DEF Effect, NothingBuilt, Targets

\* Of two features that --groups says exclude each other, no bitstream has both:
\* for any specimens, also if segmatch has found them nothing that differs, when
\* dbfixup drops both.
THEOREM Exclude == Spec => []ChoicesExclude
<1>1. Init => ChoicesExclude
  BY DEF Init, MakeInit, NothingBuilt, Targets, ChoicesExclude
<1> QED
  BY <1>1, ExcludeNext, InvAlways, PTL DEF Spec
-----------------------------------------------------------------------------
\* What dbfixup takes for clear bits of line l: of its tag groups, of its groups
\* of zero_db, and at the indices of its interconnect bits.
GroupZeros(l, lines, tag_groups) ==
  UNION {CommonBits(lines, g) : g \in {h \in tag_groups : l.tag \in h}}
ZeroGroups(l, zero_db) ==
  {i \in DOMAIN zero_db :
     \/ l.tag \in zero_db[i].all_zero
     \/ l.tag \notin AllZeroTags(zero_db) /\ MemberOf(l, zero_db[i])}
TableZeros(l, lines, zero_db, tag_groups) ==
  UNION {ZeroBits(GroupTags(lines, tag_groups), zero_db[i]) : i \in ZeroGroups(l, zero_db)}
RangeZeros(bits, clb_int) ==
  IF clb_int THEN {22, 23, 24, 25} \X {b[2] : b \in {x \in bits : InRange(x)}} ELSE {}

LEMMA SetOnlyNames ==
  ASSUME NEW l, l.bits = Set(OnesOf(l))
  PROVE  NamesOf(l) = OnesOf(l)
<1>1. \A b \in Set(OnesOf(l)) : b[1] = TRUE
  BY DEF Set
<1>2. {b \in Set(OnesOf(l)) : b[1]} = Set(OnesOf(l))
  BY <1>1
<1> QED
  BY <1>2, Zenon DEF NamesOf, OnesOf

\* Entry e is what dbfixup makes of line l.
WrittenOf(e, l, lines, zero_db, tag_groups, clb_int) ==
  /\ e.tag = l.tag /\ OnesOf(e) = OnesOf(l)
  /\ e.bits = Set(OnesOf(l))
       \cup Clear(GroupZeros(l, lines, tag_groups) \ OnesOf(l))
       \cup Clear(RangeZeros(OnesOf(l), clb_int) \ OnesOf(l))
       \cup Clear(TableZeros(l, lines, zero_db, tag_groups) \ OnesOf(l))

\* All that dbfixup writes into an entry.
LEMMA FixupWrites ==
  ASSUME NEW lines, NEW zero_db, NEW tag_groups, NEW clb_int, SetOnly(lines),
         NEW e \in Fixup(lines, zero_db, tag_groups, clb_int)
  PROVE  \E l \in lines : WrittenOf(e, l, lines, zero_db, tag_groups, clb_int)
<1> DEFINE grouped == GroupTags(lines, tag_groups)
<1>1. e \in AddZeroBits(grouped, zero_db, clb_int)
  BY DEF Fixup, Unambiguous
<1>2. PICK k \in grouped :
        e = Line(k.tag, k.bits \cup (IF clb_int THEN ZeroRange(k) ELSE {})
                          \cup ZeroGroupBits(k, grouped, zero_db), None)
  BY <1>1 DEF AddZeroBits
<1>3. PICK l \in lines :
        /\ k.tag = l.tag /\ OnesOf(k) = OnesOf(l)
        /\ k.bits = l.bits \cup
             Clear((UNION {CommonBits(lines, h) : h \in {x \in tag_groups : l.tag \in x}})
                    \ NamesOf(l))
  BY GroupedBits
<1>4. k.bits = Set(OnesOf(l)) \cup Clear(GroupZeros(l, lines, tag_groups) \ OnesOf(l))
  <2>1. l.bits = Set(OnesOf(l))
    BY DEF SetOnly
  <2>2. NamesOf(l) = OnesOf(l)
    BY <2>1, SetOnlyNames
  <2> QED
    BY <1>3, <2>1, <2>2 DEF GroupZeros
<1>5. ZeroGroupBits(k, grouped, zero_db)
        = Clear(TableZeros(l, lines, zero_db, tag_groups) \ OnesOf(l))
  BY <1>3 DEF ZeroGroupBits, TableZeros, ZeroGroups, MemberOf
<1>6. (IF clb_int THEN ZeroRange(k) ELSE {})
        = Clear(RangeZeros(OnesOf(l), clb_int) \ OnesOf(l))
  <2>1. CASE clb_int
    <3>1. RangeZeros(OnesOf(l), clb_int)
            = {22, 23, 24, 25} \X {b[2] : b \in {x \in OnesOf(l) : InRange(x)}}
      BY <2>1 DEF RangeZeros
    <3>2. ZeroRange(k) = Clear(({22, 23, 24, 25} \X {b[2] : b \in {x \in OnesOf(l) : InRange(x)}})
                                \ OnesOf(l))
      BY <1>3 DEF ZeroRange
    <3> QED
      BY <2>1, <3>1, <3>2
  <2>2. CASE ~ clb_int
    BY <2>2 DEF Clear, RangeZeros
  <2> QED
    BY <2>1, <2>2
<1> HIDE DEF grouped
<1>7. /\ e.tag = l.tag
      /\ e.bits = Set(OnesOf(l))
           \cup Clear(GroupZeros(l, lines, tag_groups) \ OnesOf(l))
           \cup Clear(RangeZeros(OnesOf(l), clb_int) \ OnesOf(l))
           \cup Clear(TableZeros(l, lines, zero_db, tag_groups) \ OnesOf(l))
  BY <1>2, <1>3, <1>4, <1>5, <1>6 DEF Line
<1>8. \A x \in e.bits : (x \in Set(OnesOf(l)) /\ x[1] = TRUE) \/ x[1] = FALSE
  BY <1>7 DEF Set, Clear
<1>9. OnesOf(e) = OnesOf(l)
  <2>1. \A x \in Set(OnesOf(l)) : x[1] = TRUE /\ x \in e.bits
    BY <1>7 DEF Set
  <2>2. {x \in e.bits : x[1]} = Set(OnesOf(l))
    BY <1>8, <2>1
  <2>3. l.bits = Set(OnesOf(l))
    BY DEF SetOnly
  <2>4. {x \in l.bits : x[1]} = Set(OnesOf(l))
    BY <2>1, <2>3
  <2> QED
    BY <2>2, <2>4 DEF OnesOf
<1> QED
  BY <1>7, <1>9 DEF WrittenOf

\* The bits of a group of zero_db, once the lines are known.
LEMMA ZeroBitsKnown ==
  ASSUME NEW lines, NEW tag_groups, SetOnly(lines), NEW group,
         tag_groups = {} \/ group.tags = {}, NEW b
  PROVE  b \in ZeroBits(GroupTags(lines, tag_groups), group) <=>
           \/ b \in group.zero
           \/ \E l \in lines : l.tag \in group.tags /\ b \in OnesOf(l)
<1> DEFINE grouped == GroupTags(lines, tag_groups)
<1>0. b \in ZeroBits(grouped, group) <=>
        b \in group.zero \/ \E k \in grouped : k.tag \in group.tags /\ b \in NamesOf(k)
  BY DEF ZeroBits
<1>1. CASE group.tags = {}
  BY <1>0, <1>1
<1>2. CASE tag_groups = {}
  <2>1. \A l \in lines :
          GroupZeros(l, lines, tag_groups) = {} /\ l.bits = l.bits \cup Clear({} \ NamesOf(l))
    BY <1>2 DEF GroupZeros, Clear
  <2>2. grouped = {Line(l.tag, l.bits, None) : l \in lines}
    BY <2>1 DEF GroupTags, GroupZeros
  <2>3. \A l \in lines : /\ Line(l.tag, l.bits, None).tag = l.tag
                         /\ NamesOf(Line(l.tag, l.bits, None)) = OnesOf(l)
    <3> SUFFICES ASSUME NEW l \in lines
                 PROVE  /\ Line(l.tag, l.bits, None).tag = l.tag
                        /\ NamesOf(Line(l.tag, l.bits, None)) = OnesOf(l)
      OBVIOUS
    <3>1. l.bits = Set(OnesOf(l))
      BY DEF SetOnly
    <3>2. NamesOf(Line(l.tag, l.bits, None)) = NamesOf(l)
      BY DEF NamesOf, Line
    <3> QED
      BY <3>1, <3>2, SetOnlyNames DEF Line
  <2> HIDE DEF grouped
  <2>4. (\E k \in grouped : k.tag \in group.tags /\ b \in NamesOf(k)) <=>
        (\E l \in lines : l.tag \in group.tags /\ b \in OnesOf(l))
    BY <2>2, <2>3
  <2> QED
    BY <1>0, <2>4 DEF grouped
<1> QED
  BY <1>1, <1>2

\* The lines of segmatch that go into dbfixup.
FileOf(t) == FileFor(t, Solution(data))

LEMMA FileSetOnly ==
  ASSUME NEW t
  PROVE  FileOf(t) \subseteq Solution(data) /\ SetOnly(FileOf(t))
<1>1. FileOf(t) \subseteq Solution(data)
  BY DEF FileOf, FileFor
<1>2. \A l \in Solution(data) : l.bits = Set(OnesOf(l)) /\ (OnesOf(l) # {} => l.mode = None)
  BY MatchBits DEF Solution
<1> QED
  BY <1>1, <1>2 DEF SetOnly

\* With --groups there are no tags in zero_db.
LEMMA GroupsOrTags ==
  ASSUME kind \in Kinds, NEW i \in DOMAIN ZeroDb[kind]
  PROVE  Groups = {} \/ ZeroDb[kind][i].tags = {}
BY FuzzerAssumption DEF Groups, GroupsOf

\* The clear bits of an entry are some of those that go with its feature, and all
\* of them where all other features are resolved.
LEMMA ClearBitsKnown ==
  ASSUME kind \in Kinds, NEW t \in Targets,
         NEW e \in Fixup(FileOf(t), ZeroDb[kind], Groups, kind = "int"),
         OnesOf(e) = Truth[e.tag]
  PROVE  /\ NothingSpurious(e.tag) =>
              \A x \in e.bits : \/ x[1] = TRUE /\ x[2] \in Truth[e.tag]
                                \/ x[1] = FALSE /\ x[2] \in ClearWith(kind, e.tag) \ Truth[e.tag]
         /\ (Truth[e.tag] = {} /\ AllResolved(e.tag, FileOf(t))) =>
              \A b \in ClearWith(kind, e.tag) : \E x \in e.bits : x[1] = FALSE /\ x[2] = b
<1> DEFINE lines == FileOf(t)
           zdb == ZeroDb[kind]
<1>1. lines \subseteq Solution(data) /\ SetOnly(lines)
  BY FileSetOnly
<1>2. PICK l \in lines : WrittenOf(e, l, lines, zdb, Groups, kind = "int")
  <2>1. e \in Fixup(lines, zdb, Groups, kind = "int")
    OBVIOUS
  <2> HIDE DEF lines, zdb
  <2> QED
    BY <1>1, <2>1, FixupWrites
<1>3. OnesOf(l) = Truth[l.tag] /\ e.tag = l.tag
  BY <1>2 DEF WrittenOf
<1>4. ZeroGroups(l, zdb) = ZeroGroupsOf(kind, l.tag)
  BY <1>3 DEF ZeroGroups, ZeroGroupsOf, MemberOf
<1>5. \A b : \A i \in DOMAIN zdb : b \in ZeroBits(GroupTags(lines, Groups), zdb[i]) <=>
           b \in zdb[i].zero \/ \E k \in lines : k.tag \in zdb[i].tags /\ b \in OnesOf(k)
  <2> SUFFICES ASSUME NEW b, NEW i \in DOMAIN zdb
               PROVE  b \in ZeroBits(GroupTags(lines, Groups), zdb[i]) <=>
                        b \in zdb[i].zero \/ \E k \in lines : k.tag \in zdb[i].tags /\ b \in OnesOf(k)
    OBVIOUS
  <2>1. Groups = {} \/ zdb[i].tags = {}
    BY GroupsOrTags
  <2> HIDE DEF lines, zdb
  <2> QED
    BY <1>1, <2>1, ZeroBitsKnown
<1>6. \A i \in DOMAIN zdb : zdb[i].tags \subseteq Peers(l.tag)
  BY DEF Peers, CaretTags
<1>7. \A g \in Groups : l.tag \in g => g \subseteq Peers(l.tag)
  BY DEF Peers
<1> HIDE DEF lines, zdb
<1>8. \A b : b \in GroupZeros(l, lines, Groups) <=>
        \E g \in Groups : l.tag \in g /\ \E k \in lines : k.tag \in g /\ k.mode = None /\ b \in OnesOf(k)
  BY DEF GroupZeros, CommonBits
<1>9. \A b : b \in TableZeros(l, lines, zdb, Groups) <=>
        \E i \in ZeroGroupsOf(kind, l.tag) :
          b \in zdb[i].zero \/ \E k \in lines : k.tag \in zdb[i].tags /\ b \in OnesOf(k)
  <2>1. ZeroGroupsOf(kind, l.tag) \subseteq DOMAIN zdb
    BY DEF ZeroGroupsOf, zdb
  <2> QED
    BY <1>4, <1>5, <2>1 DEF TableZeros
<1>10. \A b : b \in ClearWith(kind, l.tag) <=>
         \/ \E g \in Groups : l.tag \in g /\ \E u \in g : b \in Truth[u]
         \/ \E i \in ZeroGroupsOf(kind, l.tag) :
              b \in zdb[i].zero \/ \E u \in zdb[i].tags : b \in Truth[u]
         \/ b \in RangeZeros(Truth[l.tag], kind = "int")
  BY DEF ClearWith, Groups, zdb, RangeZeros
<1>11. ASSUME NothingSpurious(l.tag), NEW x \in e.bits
       PROVE  \/ x[1] = TRUE /\ x[2] \in Truth[l.tag]
              \/ x[1] = FALSE /\ x[2] \in ClearWith(kind, l.tag) \ Truth[l.tag]
  <2>1. \A k \in lines : k.tag \in Peers(l.tag) => OnesOf(k) \subseteq Truth[k.tag]
    BY <1>1, <1>11 DEF NothingSpurious
  <2>2. GroupZeros(l, lines, Groups) \subseteq ClearWith(kind, l.tag)
    <3> SUFFICES ASSUME NEW b \in GroupZeros(l, lines, Groups) PROVE b \in ClearWith(kind, l.tag)
      OBVIOUS
    <3>1. PICK g \in Groups : l.tag \in g /\ \E k \in lines : k.tag \in g /\ b \in OnesOf(k)
      BY <1>8
    <3>2. \E u \in g : b \in Truth[u]
      BY <1>7, <2>1, <3>1
    <3> QED
      BY <1>10, <3>1, <3>2
  <2>3. TableZeros(l, lines, zdb, Groups) \subseteq ClearWith(kind, l.tag)
    <3> SUFFICES ASSUME NEW b \in TableZeros(l, lines, zdb, Groups) PROVE b \in ClearWith(kind, l.tag)
      OBVIOUS
    <3>1. PICK i \in ZeroGroupsOf(kind, l.tag) :
            b \in zdb[i].zero \/ \E k \in lines : k.tag \in zdb[i].tags /\ b \in OnesOf(k)
      BY <1>9
    <3>2. i \in DOMAIN zdb
      BY DEF ZeroGroupsOf, zdb
    <3>3. b \in zdb[i].zero \/ \E u \in zdb[i].tags : b \in Truth[u]
      BY <1>6, <2>1, <3>1, <3>2
    <3> QED
      BY <1>10, <3>3
  <2>4. RangeZeros(OnesOf(l), kind = "int") \subseteq ClearWith(kind, l.tag)
    BY <1>3, <1>10
  <2>5. \A names : \A y \in Clear(names) : y[1] = FALSE /\ y[2] \in names
    BY DEF Clear
  <2>6. \A y \in Set(OnesOf(l)) : y[1] = TRUE /\ y[2] \in OnesOf(l)
    BY DEF Set
  <2> QED
    BY <1>2, <1>3, <2>2, <2>3, <2>4, <2>5, <2>6 DEF WrittenOf
<1>12. ASSUME Truth[l.tag] = {}, AllResolved(l.tag, lines), NEW b \in ClearWith(kind, l.tag)
       PROVE  \E x \in e.bits : x[1] = FALSE /\ x[2] = b
  <2>1. \A u \in Peers(l.tag) : \E k \in lines : k.tag = u /\ OnesOf(k) = Truth[u]
    BY <1>12 DEF AllResolved
  <2>2. RangeZeros(Truth[l.tag], kind = "int") = {}
    BY <1>12 DEF RangeZeros
  <2>3. b \in GroupZeros(l, lines, Groups) \cup TableZeros(l, lines, zdb, Groups)
    <3>1. ASSUME NEW g \in Groups, l.tag \in g, NEW u \in g, b \in Truth[u]
          PROVE  b \in GroupZeros(l, lines, Groups)
      <4>1. PICK k \in lines : k.tag = u /\ OnesOf(k) = Truth[u]
        BY <1>7, <2>1, <3>1
      <4>2. k.mode = None
        BY <1>1, <3>1, <4>1 DEF SetOnly
      <4> QED
        BY <1>8, <3>1, <4>1, <4>2
    <3>2. ASSUME NEW i \in ZeroGroupsOf(kind, l.tag),
                 b \in zdb[i].zero \/ \E u \in zdb[i].tags : b \in Truth[u]
          PROVE  b \in TableZeros(l, lines, zdb, Groups)
      <4>1. i \in DOMAIN zdb
        BY DEF ZeroGroupsOf, zdb
      <4>2. b \in zdb[i].zero \/ \E k \in lines : k.tag \in zdb[i].tags /\ b \in OnesOf(k)
        BY <1>6, <2>1, <3>2, <4>1
      <4> QED
        BY <1>9, <4>2
    <3> QED
      BY <1>10, <2>2, <3>1, <3>2
  <2>4. \A names : b \in names => <<FALSE, b>> \in Clear(names)
    BY DEF Clear
  <2>5. b \notin OnesOf(l)
    BY <1>3, <1>12
  <2>6. <<FALSE, b>> \in e.bits
    BY <1>2, <2>3, <2>4, <2>5 DEF WrittenOf
  <2> QED
    BY <2>6
<1> QED
  BY <1>3, <1>11, <1>12 DEF lines


\* What --groups and --zero-db say of a segment.
AsTold(s) ==
  \A t \in DOMAIN s.tags :
    /\ s.tags[t] \in BOOLEAN
    /\ s.tags[t] = TRUE => ClearWith(kind, t) \cap s.bits \subseteq Truth[t]
    /\ (s.tags[t] = FALSE /\ Truth[t] = {} /\ ClearWith(kind, t) # {}) =>
         ClearWith(kind, t) \cap s.bits # {}

LEMMA SpecimensAsTold ==
  ASSUME kind \in Kinds, NEW batch \in Compilable(kind), NEW i, NEW s \in Specimens(i, batch)
  PROVE  AsTold(s)
<1>1. PICK d \in batch : \E x \in Compile(Designs[d]) :
             s = [of |-> <<i, d>>, bits |-> x.bits, tags |-> x.tags]
  BY DEF Specimens
<1>2. PICK x \in Compile(Designs[d]) : s = [of |-> <<i, d>>, bits |-> x.bits, tags |-> x.tags]
  BY <1>1
<1>3. s.bits = x.bits /\ s.tags = x.tags
  BY <1>2
<1>4. \A t \in DOMAIN x.tags :
        /\ x.tags[t] \in BOOLEAN
        /\ x.tags[t] = TRUE => ClearWith(kind, t) \cap x.bits \subseteq Truth[t]
        /\ (x.tags[t] = FALSE /\ Truth[t] = {} /\ ClearWith(kind, t) # {}) =>
             ClearWith(kind, t) \cap x.bits # {}
  BY ClearAssumption
<1> QED
  BY <1>3, <1>4 DEF AsTold

\* The lines of the build directory are those of segmatch for all segments there
\* are, or what dbfixup has made of them.
FixedOf(t) == Fixup(FileOf(t), ZeroDb[kind], Groups, kind = "int")
BuiltInv ==
  /\ \A s \in data : AsTold(s)
  /\ stage \in Live => \A t \in Targets : build[t] \subseteq Solution(data) \cup FixedOf(t)

LEMMA BuiltNext == Inv /\ BuiltInv /\ [Next]_vars => BuiltInv'
<1> SUFFICES ASSUME Inv, BuiltInv, [Next]_vars PROVE BuiltInv'
  OBVIOUS
<1>1. UNCHANGED kind /\ Effect /\ kind \in Kinds
  BY StepEffect DEF Inv, PushInv, Types
<1>2. \A s \in data' : AsTold(s)
  <2>1. CASE Sampled
    BY <1>1, <2>1, SpecimensAsTold DEF Sampled, BuiltInv
  <2> QED
    BY <1>1, <2>1 DEF Effect, BuiltInv
<1>3. \A s \in data' : AsTold(s)'
  BY <1>1, <1>2 DEF AsTold, ClearWith, GroupsOf, ZeroGroupsOf
<1>4. ASSUME stage' \in Live, NEW t \in Targets, NEW e \in build'[t]
      PROVE  e \in (Solution(data) \cup FixedOf(t))'
  <2>1. CASE UNCHANGED <<data, build>> /\ stage \in Live
    BY <1>1, <1>4, <2>1 DEF BuiltInv, Solution, FixedOf, FileOf, FileFor, Groups
  <2>2. CASE Rebuilt
    <3>1. PICK lines : lines = Solution(data')
      OBVIOUS
    <3>2. lines = Solution(data)'
      BY <1>1, <3>1 DEF Solution
    <3>3. CASE build' = Built(lines)
      <4>1. e \in lines \/ e \in Fixup(FileFor(t, lines), ZeroDb[kind], Groups, kind = "int")
        BY <1>4, <3>3 DEF Built
      <4>2. FixedOf(t)' = Fixup(FileFor(t, lines), ZeroDb[kind], Groups, kind = "int")
        BY <1>1, <3>2 DEF FixedOf, FileOf, FileFor, Groups
      <4> QED
        BY <3>2, <4>1, <4>2
    <3>4. CASE kind = "int" /\ build' = [build EXCEPT !["int"] = lines]
      <4>1. t # "int" => build[t] = {}
        BY <3>4, PushesOfInt DEF Inv, PushInv, OnlyPushed
      <4>2. e \in lines
        BY <1>4, <3>4, <4>1 DEF Inv, PushInv, Types
      <4> QED
        BY <3>2, <4>2
    <3> QED
      BY <2>2, <3>1, <3>3, <3>4 DEF Rebuilt
  <2>3. build' # NothingBuilt
    BY <1>4 DEF NothingBuilt
  <2>4. stage' # "failed"
    BY <1>4 DEF Live
  <2> QED
    BY <1>1, <1>4, <2>1, <2>2, <2>3, <2>4 DEF Effect
<1> QED
  BY <1>3, <1>4 DEF BuiltInv

\* Set bits have to be set, clear bits clear.
LEMMA MatchesEach ==
  ASSUME NEW e, NEW bits, \A x \in e.bits : x[1] = TRUE \/ x[1] = FALSE
  PROVE  MatchesBits(e, bits) <=>
           \A x \in e.bits : (x[1] = TRUE => x[2] \in bits) /\ (x[1] = FALSE => x[2] \notin bits)
<1>1. ASSUME NEW x \in e.bits
      PROVE  (x[1] = (x[2] \in bits)) <=>
               (x[1] = TRUE => x[2] \in bits) /\ (x[1] = FALSE => x[2] \notin bits)
  <2>1. CASE x[2] \in bits
    <3>1. (x[2] \in bits) = TRUE
      BY <2>1
    <3> QED
      BY <1>1, <2>1, <3>1
  <2>2. CASE x[2] \notin bits
    <3>1. (x[2] \in bits) = FALSE
      BY <2>2
    <3> QED
      BY <1>1, <2>2, <3>1
  <2> QED
    BY <2>1, <2>2
<1> QED
  BY <1>1, Zenon DEF MatchesBits

\* An entry of which dbfixup has made nothing has no clear bits.
LEMMA LineAgrees ==
  ASSUME NEW l \in Solution(data), NEW bits
  PROVE  MatchesBits(l, bits) <=> OnesOf(l) \subseteq bits
<1>1. l.bits = Set(OnesOf(l))
  BY MatchBits DEF Solution
<1>2. \A x \in l.bits : x[1] = TRUE /\ x[2] \in OnesOf(l)
  BY <1>1 DEF Set
<1>3. \A b \in OnesOf(l) : \E x \in l.bits : x[2] = b
  BY DEF OnesOf
<1>4. MatchesBits(l, bits) <=>
        \A x \in l.bits : (x[1] = TRUE => x[2] \in bits) /\ (x[1] = FALSE => x[2] \notin bits)
  BY <1>2, MatchesEach
<1> QED
  BY <1>2, <1>3, <1>4

\* The set bits of an entry have to be set.
LEMMA MatchesOnes ==
  ASSUME NEW e, NEW bits, MatchesBits(e, bits)
  PROVE  OnesOf(e) \subseteq bits
BY DEF MatchesBits, OnesOf

\* The clear bits that dbfixup adds do not change which segments have a feature, if
\* the bits they come of are known.
LEMMA ClearAgrees ==
  ASSUME kind \in Kinds, BuiltInv, \A s \in data : Truthful(s), SetBitsExplain
  PROVE  ClearBitsAgree
<1> SUFFICES ASSUME stage = "push", NEW t \in Targets, NEW e \in build[t], NEW s \in data,
                    e.tag \in DOMAIN s.tags, OnesOf(e) = Truth[e.tag], NothingSpurious(e.tag)
             PROVE  /\ s.tags[e.tag] => MatchesBits(e, s.bits)
                    /\ (\/ OnesOf(e) # {}
                        \/ e.bits # {} /\ AllResolved(e.tag, FileOf(t))) =>
                         (MatchesBits(e, s.bits) => s.tags[e.tag])
  BY DEF ClearBitsAgree, FileOf
<1>1. /\ s.tags[e.tag] \in BOOLEAN
      /\ s.tags[e.tag] = TRUE => ClearWith(kind, e.tag) \cap s.bits \subseteq Truth[e.tag]
      /\ (s.tags[e.tag] = FALSE /\ Truth[e.tag] = {} /\ ClearWith(kind, e.tag) # {}) =>
           ClearWith(kind, e.tag) \cap s.bits # {}
  BY DEF BuiltInv, AsTold
<1>2. s.tags[e.tag] = TRUE => Truth[e.tag] \subseteq s.bits
  BY DEF Truthful
<1>3. e \in Solution(data) \/ e \in FixedOf(t)
  BY DEF BuiltInv, Live
<1>4. ASSUME s.tags[e.tag] = TRUE PROVE MatchesBits(e, s.bits)
  <2>1. CASE e \in Solution(data)
    BY <1>2, <1>4, <2>1, LineAgrees
  <2>2. CASE e \in FixedOf(t)
    <3>1. \A x \in e.bits : \/ x[1] = TRUE /\ x[2] \in Truth[e.tag]
                            \/ x[1] = FALSE /\ x[2] \in ClearWith(kind, e.tag) \ Truth[e.tag]
      BY <2>2, ClearBitsKnown DEF FixedOf
    <3> QED
      BY <1>1, <1>2, <1>4, <3>1, MatchesEach
  <2> QED
    BY <1>3, <2>1, <2>2
<1>5. ASSUME OnesOf(e) # {}, MatchesBits(e, s.bits) PROVE s.tags[e.tag] = TRUE
  BY <1>1, <1>5, MatchesOnes DEF SetBitsExplain
<1>6. ASSUME OnesOf(e) = {}, e.bits # {}, AllResolved(e.tag, FileOf(t)), MatchesBits(e, s.bits)
      PROVE  s.tags[e.tag] = TRUE
  <2>1. e \in FixedOf(t)
    <3> SUFFICES ASSUME e \in Solution(data) PROVE FALSE
      BY <1>3
    <3>1. e.bits = Set(OnesOf(e))
      BY MatchBits DEF Solution
    <3> QED
      BY <1>6, <3>1 DEF Set
  <2>6. Truth[e.tag] = {}
    BY <1>6
  <2>2. \A b \in ClearWith(kind, e.tag) : \E x \in e.bits : x[1] = FALSE /\ x[2] = b
    <3>1. /\ e \in Fixup(FileOf(t), ZeroDb[kind], Groups, kind = "int")
          /\ OnesOf(e) = Truth[e.tag] /\ AllResolved(e.tag, FileOf(t))
      BY <1>6, <2>1 DEF FixedOf
    <3> QED
      BY <2>6, <3>1, ClearBitsKnown
  <2>5. \A x \in e.bits : \/ x[1] = TRUE /\ x[2] \in Truth[e.tag]
                          \/ x[1] = FALSE /\ x[2] \in ClearWith(kind, e.tag) \ Truth[e.tag]
    BY <2>1, ClearBitsKnown DEF FixedOf
  <2>3. \A b \in ClearWith(kind, e.tag) : b \notin s.bits
    <3>1. \A x \in e.bits : x[1] = TRUE \/ x[1] = FALSE
      BY <2>5
    <3>2. \A x \in e.bits : x[1] = FALSE => x[2] \notin s.bits
      BY <1>6, <3>1, MatchesEach
    <3> QED
      BY <2>2, <3>2
  <2>4. ClearWith(kind, e.tag) # {}
    BY <1>6, <2>5
  <2> QED
    BY <1>1, <1>6, <2>3, <2>4
<1> QED
  BY <1>1, <1>4, <1>5, <1>6

\* What is pushed explains all the specimens it was made of with its set bits and
\* with the clear bits that dbfixup has added, whatever the designs, if --groups
\* and --zero-db are true of the device.
THEOREM Explains == Spec => []EntriesExplainData
<1>1. Init => BuiltInv
  BY DEF Init, MakeInit, BuiltInv, NothingBuilt
<1>2. Inv /\ BuiltInv /\ CoverInv /\ SetBitsExplain => EntriesExplainData
  BY ClearAgrees DEF EntriesExplainData, CoverInv, Inv, PushInv, Types
<1>3. Spec => []CoverInv
  <2>1. Init => CoverInv
    BY FuzzerAssumption DEF Init, MakeInit, CoverInv, NothingBuilt, New
  <2> QED
    BY <2>1, CoverNext, InvAlways, PTL DEF Spec
<1> QED
  BY <1>1, <1>2, <1>3, BuiltNext, SetBits, InvAlways, PTL DEF Spec

=============================================================================
