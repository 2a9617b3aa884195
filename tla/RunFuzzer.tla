----------------------------- MODULE RunFuzzer ------------------------------
(***************************************************************************)
(* fuzzers/run_fuzzer.py, which fuzzers/Makefile calls for each fuzzer: it *)
(* skips a fuzzer that has its run.ok, runs "make run" as a child, tries   *)
(* again when that fails, and reaps the child when it is interrupted       *)
(* itself.  The child is a fuzzer of clb.mk, clb_ext.mk, int_loop.sh or    *)
(* one with rules of its own.                                              *)
(***************************************************************************)
EXTENDS ClbRun, IntLoop

CONSTANTS Truth,    \* Truth[tag]: the bits that the device really has for a tag
          Retries,  \* values of --retries
          MaxCalls  \* bound on the calls of run_fuzzer.py for one fuzzer

\* The specimens tell what the device does: a segment that has a feature has its
\* bits, and a segment that is recorded not to have it has none of them, which is
\* why add_site_group_zero records a value in use with the zero value only.
ASSUME TruthAssumption ==
  \A k \in Kinds : \A batch \in Compilable(k) : \A d \in batch :
    \A s \in Compile(Designs[d]) : \A t \in DOMAIN s.tags :
      /\ s.tags[t] = TRUE => Truth[t] \subseteq s.bits
      /\ s.tags[t] = FALSE => Truth[t] \cap s.bits = {}

\* The groups of zero_db that say something of tag t.
ZeroGroupsOf(k, t) ==
  {i \in DOMAIN ZeroDb[k] :
     \/ t \in ZeroDb[k][i].all_zero
     \/ /\ t \notin AllZeroTags(ZeroDb[k])
        /\ t \in ZeroDb[k][i].tags \/ Truth[t] \cap ZeroDb[k][i].when # {}}

\* The bits that the Makefile of kind k has dbfixup take to be clear where t is on,
\* unless they are of t: those of its tag groups and of its groups of zero_db,
\* and those at the indices of its interconnect bits.
ClearWith(k, t) ==
  (UNION {Truth[u] : u \in UNION {g \in GroupsOf(k) : t \in g}})
  \cup (UNION {ZeroDb[k][i].zero \cup (UNION {Truth[u] : u \in ZeroDb[k][i].tags}) :
               i \in ZeroGroupsOf(k, t)})
  \cup (IF k = "int" THEN {22, 23, 24, 25} \X {b[2] : b \in {x \in Truth[t] : InRange(x)}} ELSE {})

\* The --groups and the --zero-db of the Makefiles are true of the device: where a
\* feature is on these bits are clear but for its own, and where one that has no
\* bits is off, one of them is set.
ASSUME ClearAssumption ==
  \A k \in Kinds : \A batch \in Compilable(k) : \A d \in batch :
    \A s \in Compile(Designs[d]) : \A t \in DOMAIN s.tags :
      /\ s.tags[t] \in BOOLEAN
      /\ s.tags[t] = TRUE => ClearWith(k, t) \cap s.bits \subseteq Truth[t]
      /\ (s.tags[t] = FALSE /\ Truth[t] = {} /\ ClearWith(k, t) # {}) =>
           ClearWith(k, t) \cap s.bits # {}

VARIABLES pc,          \* "start" of an attempt, "child", "reap", "finish", "end"
          retries,     \* --retries
          attempt,     \* retry_count
          retcode,     \* of the last attempt
          dry,         \* MAKEFLAGS has n or q
          interrupted, \* Ctrl-C during this call
          calls        \* calls so far

own == <<pc, retries, attempt, retcode, dry, interrupted, calls>>
childVars == <<shared, clbVars, intVars>>
vars == <<own, childVars>>

Init ==
  /\ MakeInit /\ ClbInit /\ IntInit
  /\ (kind # "int" => (args = (CHOOSE a \in CheckArgs : TRUE) /\ ~ quick))
  /\ pc = "start" /\ retries \in Retries /\ attempt = 0
  /\ retcode = -1 /\ dry \in BOOLEAN /\ interrupted = FALSE /\ calls = 1

ChildEnded == stage \in {"succeeded", "failed", "killed"}

\* What wait() returns for a child that has ended.
CodeOf(status) == CASE status = "succeeded" -> 0 [] status = "failed" -> 2
                    [] OTHER -> -9

\* run_fuzzer returns at once: nothing to execute, or done already.
SkipFuzzer ==
  /\ pc = "start" /\ (dry \/ ok)
  /\ retcode' = 0
  /\ pc' = "finish"
  /\ UNCHANGED <<retries, attempt, dry, interrupted, calls, childVars>>

\* Popen of make run.
Spawn ==
  /\ pc = "start" /\ ~ dry /\ ~ ok
  /\ stage' = "clean" /\ left' = <<>>
  /\ level' = 0 /\ unwinding' = FALSE
  /\ pc' = "child"
  /\ UNCHANGED <<kind, db, ok, data, build, intVars, retries, attempt, retcode, dry,
                 interrupted, calls>>

ChildStep ==
  /\ pc \in {"child", "reap"}
  /\ \/ ClbNext /\ UNCHANGED intVars
     \/ IntNext /\ UNCHANGED clbVars
     \/ PlainNext /\ UNCHANGED <<clbVars, intVars>>
  /\ UNCHANGED own

\* wait() of the loop returns.
ChildReturns ==
  /\ pc = "child" /\ ChildEnded
  /\ retcode' = CodeOf(stage)
  /\ pc' = "finish"
  /\ UNCHANGED <<retries, attempt, dry, interrupted, calls, childVars>>

\* Somebody, such as the kernel that runs out of memory, kills make.
KillChild ==
  /\ pc = "child" /\ ~ ChildEnded
  /\ stage' = "killed"
  /\ UNCHANGED <<kind, db, ok, data, build, left, clbVars, intVars, own>>

\* KeyboardInterrupt or another exception in the loop: retcode is -1 for now.
Interrupt ==
  /\ pc = "child"
  /\ interrupted' = TRUE
  /\ retcode' = -1
  /\ pc' = "reap"
  /\ UNCHANGED <<retries, attempt, dry, calls, childVars>>

\* Faulty form of Reap: what the child returned is not asked for.
ReapForgets ==
  /\ pc = "reap"
  /\ retcode' = 0
  /\ stage' = IF ChildEnded THEN stage ELSE "killed"
  /\ pc' = "finish"
  /\ UNCHANGED <<kind, db, ok, data, build, left, clbVars, intVars, retries, attempt,
                 dry, interrupted, calls>>

\* The child has a second to end by itself; then it is killed.
Reap ==
  /\ pc = "reap"
  /\ IF ChildEnded THEN retcode' = CodeOf(stage) /\ UNCHANGED stage
                   ELSE retcode' = -1 /\ stage' = "killed"
  /\ pc' = "finish"
  /\ UNCHANGED <<kind, db, ok, data, build, left, clbVars, intVars, retries, attempt,
                 dry, interrupted, calls>>

\* The loop of main: a positive code is tried again, if attempts are left.
Finish ==
  /\ pc = "finish"
  /\ IF retcode > 0 /\ attempt < retries
     THEN attempt' = attempt + 1 /\ pc' = "start"
     ELSE pc' = "end" /\ UNCHANGED attempt
  /\ UNCHANGED <<retries, retcode, dry, interrupted, calls, childVars>>

\* make of fuzzers/Makefile is called again.
CallAgain ==
  /\ pc = "end" /\ calls < MaxCalls
  /\ calls' = calls + 1
  /\ pc' = "start" /\ attempt' = 0 /\ retcode' = -1 /\ interrupted' = FALSE
  /\ UNCHANGED <<retries, dry, childVars>>

Work == SkipFuzzer \/ Spawn \/ ChildStep \/ ChildReturns \/ Reap \/ Finish

Next == Work \/ KillChild \/ Interrupt \/ CallAgain

\* Python and its child go on by themselves; nobody has to kill, interrupt or
\* call them.
Spec == Init /\ [][Next]_vars /\ WF_vars(Work)
-----------------------------------------------------------------------------
\* run.ok, which keeps the fuzzer from being run ever again, is there only if
\* what it last built is in every database it pushes into, and for a fuzzer
\* that must leave no pip unsolved, only if the database has them all:
\* wherever a run fails, is killed or interrupted, at any depth of reruns and
\* in any iteration.
OkIsPushed ==
  (ok /\ ~ quick) =>
    /\ \A t \in Targets : build[t] \subseteq db[t]
    /\ ((kind = "int" /\ args.zero_entries /\ args.max_iters = {}) =>
         Unfiltered(Pips) \subseteq Solved(db["int"]))

\* The exit code 0, on which the fuzzers that depend on this one are started,
\* is backed by run.ok.
SuccessIsReal == (pc = "end" /\ retcode = 0) => (ok \/ dry)

\* A fuzzer of clb.mk that does not use dbfixup is done only when every
\* feature of its specimens has an entry: one that segmatch could not resolve
\* has it run again, with more of them.
OkIsComplete ==
  (kind = "clb" /\ ok) =>
    \A t \in {"clbll", "clblm"} :
      UNION {DOMAIN s.tags : s \in data} \subseteq Solved({e \in db[t] : e.mode = None})

\* Entries that are not from before.
New(t) == db[t] \ UNION {d[t] : d \in InitialDbs}

\* What gets into a database about a feature has all the bits that the feature
\* really has (Truth), through segmaker, segmatch and dbfixup, however few the
\* specimens: features that share bits take none from each other, if they are
\* recorded as add_site_group_zero does.
EntriesCoverTruth ==
  \A t \in Targets : \A e \in New(t) : OnesOf(e) # {} => Truth[e.tag] \subseteq OnesOf(e)

\* A bitstream has the feature of an entry: its set bits are set and its clear
\* bits are clear.
MatchesBits(e, bits) == \A b \in e.bits : b[1] = (b[2] \in bits)

\* The set bits of an entry are in the segments that have the feature and in no
\* segment that has not.
SetBitsExplain ==
  stage = "push" =>
    \A t \in Targets : \A e \in build[t] : \A s \in data :
      (e.tag \in DOMAIN s.tags /\ OnesOf(e) # {}) =>
        /\ s.tags[e.tag] = TRUE => OnesOf(e) \subseteq s.bits
        /\ s.tags[e.tag] = FALSE => ~ (OnesOf(e) \subseteq s.bits)

\* The tags whose bits dbfixup writes as clear bits of others.
Peers(tag) == (UNION {g \in Groups : tag \in g}) \cup CaretTags(ZeroDb[kind])

\* The specimens have told the features that a tag has clear bits of from others
\* that were always on with them; and all of these features are resolved.
NothingSpurious(tag) ==
  \A l \in Solution(data) : l.tag \in Peers(tag) => OnesOf(l) \subseteq Truth[l.tag]
AllResolved(tag, lines) ==
  \A u \in Peers(tag) : \E l \in lines : l.tag = u /\ OnesOf(l) = Truth[u]

\* If the set bits are those of the feature, and clear bits come of no bits that
\* are spurious, then the entry matches every segment that has the feature.  It
\* matches no other: its set bits, or if it has clear bits alone those of all the
\* features they come of, tell.
ClearBitsAgree ==
  stage = "push" =>
    \A t \in Targets : \A e \in build[t] : \A s \in data :
      (e.tag \in DOMAIN s.tags /\ OnesOf(e) = Truth[e.tag] /\ NothingSpurious(e.tag)) =>
        /\ s.tags[e.tag] => MatchesBits(e, s.bits)
        /\ (\/ OnesOf(e) # {}
            \/ e.bits # {} /\ AllResolved(e.tag, FileFor(t, Solution(data)))) =>
             (MatchesBits(e, s.bits) => s.tags[e.tag])

\* What is pushed explains all specimens it was made of, those of earlier
\* iterations too, with its set bits and with its clear bits.
EntriesExplainData == SetBitsExplain /\ ClearBitsAgree

\* Of two features of a group that exclude each other no bitstream has both.
ChoicesExclude ==
  \A e, f \in build["iob"] : \A g \in TagGroups :
    (e # f /\ {e.tag, f.tag} \subseteq g) => \E b \in e.bits : <<~ b[1], b[2]>> \in f.bits

\* Whether segmatch could say what the tag of a line is.
WasResolved(tag) == \A l \in Solution(data) : l.tag = tag => l.mode \in {None, "<0 candidates>"}

\* What dbfixup.py says of the lines it goes through: "Entries must be
\* resolved", and a tag that is all zero "must have 0 candidates".  A feature
\* that segmatch could not resolve gets no entry.
UnresolvedDropped ==
  (stage = "push" /\ kind # "clb") =>
    \A t \in Targets : \A e \in build[t] : WasResolved(e.tag)

\* On the way out of nested runs the same files are pushed again at every
\* level: that changes nothing in the databases.
PushAgainAddsNothing == [][unwinding /\ stage = "push" => UNCHANGED db]_vars

\* Every call comes to its end, if nobody interferes for ever.
CallsEnd == pc = "start" ~> pc = "end"
=============================================================================
