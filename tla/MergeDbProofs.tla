--------------------------- MODULE MergeDbProofs ----------------------------
(***************************************************************************)
(* Proofs about mergedb.sh for any number of concurrent pushes into a      *)
(* segbits database that exists: they exclude each other, no push is lost, *)
(* and they implement DbStore.                                             *)
(***************************************************************************)
EXTENDS MergeDb, TLAPS

(***************************************************************************)
(* Type correctness.                                                       *)
(***************************************************************************)
\* The types hold initially.
LEMMA TypeInit == Init => TypeOK
BY MergeDbAssumption DEF Init, TypeOK, Entries, Files

\* What a write leaves in the file are entries.
LEMMA LeavesEntries ==
  ASSUME TypeOK, NEW m \in Mergers, NEW S \in SUBSET Entries, NEW text \in Leaves(m, S)
  PROVE  text \in SUBSET Entries
<1>1. file[target[m]] \subseteq Entries
  BY DEF TypeOK
<1> QED
  BY <1>1 DEF Leaves

\* Every step of a push keeps the types and lets go of the lock at its end.
LEMMA TypeStep == TypeOK /\ [Next]_vars => TypeOK'
<1> SUFFICES ASSUME TypeOK, [Next]_vars PROVE TypeOK'
  OBVIOUS
<1> USE MergeDbAssumption DEF TypeOK, Active, Files
<1>1. ASSUME NEW m \in Mergers, CheckDb(m) PROVE TypeOK'
  BY <1>1 DEF CheckDb
<1>2. ASSUME NEW m \in Mergers, Lock(m) PROVE TypeOK'
  BY <1>2 DEF Lock
<1>3. ASSUME NEW m \in Mergers, LockTimeout(m) PROVE TypeOK'
  BY <1>3 DEF LockTimeout, Exit
<1>4. ASSUME NEW m \in Mergers, Parse(m) PROVE TypeOK'
  BY <1>4 DEF Parse, Exit
<1>5. ASSUME NEW m \in Mergers, TouchDb(m) PROVE TypeOK'
  BY <1>5 DEF TouchDb
<1>6. ASSUME NEW m \in Mergers, ReadFile(m) PROVE TypeOK'
  <2>1. file[target[m]] \cup New[m] \in SUBSET Entries
    BY DEF Entries
  <2> QED
    BY <1>6, <2>1 DEF ReadFile, Exit
<1>7. ASSUME NEW m \in Mergers, CutFile(m) PROVE TypeOK'
  <2>1. overlap' \subseteq Mergers \X Files
    BY <1>7 DEF CutFile, Rivals
  <2> QED
    BY <1>7, <2>1 DEF CutFile
<1>8. ASSUME NEW m \in Mergers, WriteFile(m) PROVE TypeOK'
  <2>1. PICK text \in Leaves(m, acc[m]) : file' = [file EXCEPT ![target[m]] = text]
    BY <1>8 DEF WriteFile
  <2>2. text \in SUBSET Entries
    BY <2>1, LeavesEntries
  <2>3. file' \in [Files -> SUBSET Entries]
    BY <2>1, <2>2
  <2> QED
    BY <1>8, <2>3 DEF WriteFile, Exit
<1>11. ASSUME NEW m \in Mergers, FlushPart(m) PROVE TypeOK'
  <2>1. PICK part \in SUBSET acc[m] : \E text \in Leaves(m, part) :
          file' = [file EXCEPT ![target[m]] = text]
    BY <1>11 DEF FlushPart
  <2>2. PICK text \in Leaves(m, part) : file' = [file EXCEPT ![target[m]] = text]
    BY <2>1
  <2>3. part \in SUBSET Entries
    BY <2>1
  <2>4. text \in SUBSET Entries
    BY <2>2, <2>3, LeavesEntries
  <2>5. file' \in [Files -> SUBSET Entries]
    BY <2>2, <2>4
  <2> QED
    BY <1>11, <2>5 DEF FlushPart
<1>9. ASSUME NEW m \in Mergers, Kill(m) PROVE TypeOK'
  BY <1>9 DEF Kill, Exit
<1>10. CASE UNCHANGED vars
  BY <1>10 DEF vars
<1> QED
  BY <1>1, <1>2, <1>3, <1>4, <1>5, <1>6, <1>7, <1>8, <1>9, <1>10,
     <1>11 DEF Next

\* Types in every reachable state, and no ended push holds the lock.
THEOREM TypeCorrect == Spec => []TypeOK
BY TypeInit, TypeStep, PTL DEF Spec

(***************************************************************************)
(* Mutual exclusion, when the test for the database file finds it.         *)
(***************************************************************************)
\* Past the test of an existing database only the holder of the lock acts.
LEMMA LockStep ==
  ASSUME TypeOK, ~ IsMask, LockInv, [Next]_vars
  PROVE  LockInv'
<1> USE MergeDbAssumption DEF TypeOK, LockInv, Active
<1>1. ASSUME NEW m \in Mergers, CheckDb(m) PROVE LockInv'
  BY <1>1 DEF CheckDb
<1>2. ASSUME NEW m \in Mergers, Lock(m) PROVE LockInv'
  BY <1>2 DEF Lock
<1>3. ASSUME NEW m \in Mergers, LockTimeout(m) PROVE LockInv'
  BY <1>3 DEF LockTimeout, Exit
<1>4. ASSUME NEW m \in Mergers, Parse(m) PROVE LockInv'
  BY <1>4 DEF Parse, Exit
<1>5. ASSUME NEW m \in Mergers, TouchDb(m) PROVE LockInv'
  BY <1>5 DEF TouchDb
<1>6. ASSUME NEW m \in Mergers, ReadFile(m) PROVE LockInv'
  BY <1>6 DEF ReadFile, Exit
<1>7. ASSUME NEW m \in Mergers, CutFile(m) PROVE LockInv'
  <2>1. Rivals(m) = {}
    BY <1>7 DEF CutFile, Rivals
  <2> QED
    BY <1>7, <2>1 DEF CutFile
<1>11. ASSUME NEW m \in Mergers, FlushPart(m) PROVE LockInv'
  BY <1>11 DEF FlushPart
<1>8. ASSUME NEW m \in Mergers, WriteFile(m) PROVE LockInv'
  BY <1>8 DEF WriteFile, Exit
<1>9. ASSUME NEW m \in Mergers, Kill(m) PROVE LockInv'
  BY <1>9 DEF Kill, Exit
<1>10. CASE UNCHANGED vars
  BY <1>10 DEF vars
<1> QED
  BY <1>1, <1>2, <1>3, <1>4, <1>5, <1>6, <1>7, <1>8, <1>9, <1>10,
     <1>11 DEF Next

\* While one push rewrites the database, the entries are those it will write.
LEMMA StoreWhileCut ==
  ASSUME TypeOK, LockInv, NEW m \in Mergers, pc[m] = "cut", target[m] = "db"
  PROVE  Store = acc[m]
<1>1. Rewriting("db")
  BY DEF Rewriting
<1>2. \A n \in Mergers : pc[n] = "cut" /\ target[n] = "db" => n = m
  BY DEF LockInv, Active
<1> QED
  BY <1>1, <1>2 DEF Store

\* Otherwise they are those in the file.
LEMMA StoreElse ==
  ASSUME ~ Rewriting("db")
  PROVE  Store = file["db"]
BY DEF Store

\* A step that neither touches the database file nor begins or ends its
\* rewriting leaves the entries alone.
LEMMA StoreKept ==
  ASSUME TypeOK, TypeOK', LockInv, LockInv', file'["db"] = file["db"], acc' = acc,
         \A m \in Mergers : (pc[m] = "cut" /\ target[m] = "db")
                            <=> (pc'[m] = "cut" /\ target'[m] = "db")
  PROVE  Store' = Store
<1>1. CASE Rewriting("db")
  <2>1. PICK m \in Mergers : pc[m] = "cut" /\ target[m] = "db"
    BY <1>1 DEF Rewriting
  <2>2. Rewriting("db")' /\ \A n \in Mergers : pc'[n] = "cut" /\ target'[n] = "db" => n = m
    BY <2>1 DEF Rewriting, LockInv, Active
  <2>3. Store' = acc'[m]
    BY <2>1, <2>2 DEF Store
  <2> QED
    BY <2>1, <2>3, StoreWhileCut
<1>2. CASE ~ Rewriting("db")
  <2>1. ~ Rewriting("db")'
    BY <1>2 DEF Rewriting
  <2> QED
    BY <1>2, <2>1, StoreElse DEF Store
<1> QED
  BY <1>1, <1>2

(***************************************************************************)
(* No push is lost.                                                        *)
(***************************************************************************)
\* Steps of a push that read or write no database file keep StoreInv.
LEMMA StoreQuiet ==
  ASSUME TypeOK, TypeOK', LockInv, LockInv', StoreInv,
         file'["db"] = file["db"], acc' = acc, torn \subseteq torn',
         \A m \in Mergers :
           /\ (pc'[m] = "cut" /\ target'[m] = "db")
                => (pc[m] = "cut" /\ target[m] = "db")
           /\ (pc[m] = "cut" /\ target[m] = "db")
                => (pc'[m] = "cut" /\ target'[m] = "db") \/ "db" \in torn'
           /\ (pc'[m] = "rewrite" /\ target'[m] = "db")
                => (pc[m] = "rewrite" /\ target[m] = "db")
           /\ pc'[m] = "done" => pc[m] = "done"
  PROVE  StoreInv'
<1>1. ASSUME NEW m \in Mergers
      PROVE  /\ (pc'[m] = "rewrite" /\ target'[m] = "db") =>
                  acc'[m] = file'["db"] \cup New[m] /\ ~ Rejected(acc'[m])
             /\ (pc'[m] = "cut" /\ target'[m] = "db") =>
                  New[m] \subseteq acc'[m] /\ file'["db"] \subseteq acc'[m]
  BY DEF StoreInv
<1>2. ASSUME "db" \notin torn', NEW m \in Mergers, pc'[m] = "done"
      PROVE  New[m] \subseteq Store'
  BY <1>2, StoreKept DEF StoreInv
<1> QED
  BY <1>1, <1>2 DEF StoreInv, Rejected

\* Reading a file and adding the new entries keeps StoreInv.
LEMMA StoreRead ==
  ASSUME TypeOK, TypeOK', LockInv, LockInv', StoreInv,
         NEW m \in Mergers, ReadFile(m)
  PROVE  StoreInv'
<1>1. /\ pc[m] = "read"
      /\ file' = file /\ torn' = torn /\ target' = target
      /\ \/ /\ Rejected(file[target[m]] \cup New[m])
            /\ pc' = [pc EXCEPT ![m] = "failed"]
            /\ acc' = acc
         \/ /\ ~ Rejected(file[target[m]] \cup New[m])
            /\ pc' = [pc EXCEPT ![m] = "rewrite"]
            /\ acc' = [acc EXCEPT ![m] = file[target[m]] \cup New[m]]
  BY DEF ReadFile, Exit
<1>2. Active(m) /\ \A n \in Mergers : Active(n) => n = m
  BY <1>1 DEF LockInv, Active
<1>3. ~ Rewriting("db")
  BY <1>1, <1>2 DEF Rewriting, Active
<1>4. ~ Rewriting("db")'
  BY <1>1, <1>3 DEF Rewriting, TypeOK
<1>5. Store' = Store
  BY <1>1, <1>3, <1>4 DEF Store
<1>6. ASSUME NEW n \in Mergers
      PROVE  /\ (pc'[n] = "rewrite" /\ target'[n] = "db") =>
                  acc'[n] = file'["db"] \cup New[n] /\ ~ Rejected(acc'[n])
             /\ (pc'[n] = "cut" /\ target'[n] = "db") =>
                  New[n] \subseteq acc'[n] /\ file'["db"] \subseteq acc'[n]
  <2>1. CASE n = m
    BY <1>1, <2>1 DEF TypeOK
  <2>2. CASE n # m
    BY <1>1, <2>2 DEF TypeOK, StoreInv
  <2> QED
    BY <2>1, <2>2
<1>7. ASSUME "db" \notin torn', NEW n \in Mergers, pc'[n] = "done"
      PROVE  New[n] \subseteq Store'
  BY <1>1, <1>5, <1>7 DEF TypeOK, StoreInv
<1> QED
  BY <1>6, <1>7 DEF StoreInv, Rejected

\* Emptying the database loses nothing: the push that does it has merged with
\* what was in it, and no other push is past the lock.
LEMMA StoreCut ==
  ASSUME TypeOK, TypeOK', LockInv, LockInv', StoreInv,
         NEW m \in Mergers, CutFile(m), target[m] = "db"
  PROVE  StoreInv' /\ Store' = Store \cup New[m]
<1>1. /\ pc[m] = "rewrite" /\ pc' = [pc EXCEPT ![m] = "cut"]
      /\ target' = target /\ acc' = acc /\ torn' = torn /\ file'["db"] = {}
  BY DEF CutFile, TypeOK, Files
<1>2. Active(m) /\ \A n \in Mergers : Active(n) => n = m
  BY <1>1 DEF LockInv, Active
<1>3. Store = file["db"]
  <2>1. ~ Rewriting("db")
    BY <1>1, <1>2 DEF Rewriting, Active
  <2> QED
    BY <2>1, StoreElse
<1>4. acc[m] = Store \cup New[m]
  BY <1>1, <1>3 DEF StoreInv
<1>5. Store' = acc'[m]
  <2>1. Rewriting("db")'
    BY <1>1 DEF Rewriting, TypeOK
  <2>2. \A n \in Mergers : pc'[n] = "cut" /\ target'[n] = "db" <=> n = m
    BY <1>1, <1>2 DEF Active, TypeOK
  <2> QED
    BY <2>1, <2>2 DEF Store
<1>6. ASSUME NEW n \in Mergers
      PROVE  /\ (pc'[n] = "rewrite" /\ target'[n] = "db") =>
                  acc'[n] = file'["db"] \cup New[n] /\ ~ Rejected(acc'[n])
             /\ (pc'[n] = "cut" /\ target'[n] = "db") =>
                  New[n] \subseteq acc'[n] /\ file'["db"] \subseteq acc'[n]
  BY <1>1, <1>2, <1>4 DEF Active, TypeOK
<1>7. ASSUME "db" \notin torn', NEW n \in Mergers, pc'[n] = "done"
      PROVE  New[n] \subseteq Store'
  BY <1>1, <1>4, <1>5, <1>7 DEF StoreInv, TypeOK
<1> QED
  BY <1>1, <1>4, <1>5, <1>6, <1>7 DEF StoreInv, Rejected

\* Filling the database leaves the entries as they were to be.
LEMMA StoreWrite ==
  ASSUME TypeOK, TypeOK', LockInv, LockInv', StoreInv,
         NEW m \in Mergers, WriteFile(m), target[m] = "db"
  PROVE  StoreInv' /\ Store' = Store
<1>1. /\ pc[m] = "cut" /\ pc' = [pc EXCEPT ![m] = "done"]
      /\ target' = target /\ acc' = acc /\ torn' = torn
      /\ file' = [file EXCEPT !["db"] = acc[m]]
  BY DEF WriteFile, Exit, Leaves, LockInv
<1>2. Active(m) /\ \A n \in Mergers : Active(n) => n = m
  BY <1>1 DEF LockInv, Active
<1>3. Store = acc[m]
  BY <1>1, StoreWhileCut
<1>4. Store' = acc[m]
  <2>1. ~ Rewriting("db")'
    BY <1>1, <1>2 DEF Rewriting, Active, TypeOK
  <2>2. file'["db"] = acc[m]
    BY <1>1 DEF TypeOK, Files
  <2> QED
    BY <2>1, <2>2 DEF Store
<1>5. New[m] \subseteq acc[m]
  BY <1>1 DEF StoreInv
<1>6. ASSUME NEW n \in Mergers
      PROVE  /\ (pc'[n] = "rewrite" /\ target'[n] = "db") =>
                  acc'[n] = file'["db"] \cup New[n] /\ ~ Rejected(acc'[n])
             /\ (pc'[n] = "cut" /\ target'[n] = "db") =>
                  New[n] \subseteq acc'[n] /\ file'["db"] \subseteq acc'[n]
  BY <1>1, <1>2 DEF Active, TypeOK
<1>7. ASSUME "db" \notin torn', NEW n \in Mergers, pc'[n] = "done"
      PROVE  New[n] \subseteq Store'
  BY <1>1, <1>3, <1>4, <1>5, <1>7 DEF StoreInv, TypeOK
<1> QED
  BY <1>3, <1>4, <1>6, <1>7 DEF StoreInv, Rejected

\* Filling the database in part leaves the entries as they were to be.
LEMMA StoreFlush ==
  ASSUME TypeOK, TypeOK', LockInv, LockInv', StoreInv,
         NEW m \in Mergers, FlushPart(m), target[m] = "db"
  PROVE  StoreInv' /\ Store' = Store
<1>1. /\ pc[m] = "cut" /\ pc' = pc
      /\ target' = target /\ acc' = acc /\ torn' = torn /\ file'["db"] \subseteq acc[m]
  BY DEF FlushPart, Leaves, LockInv, TypeOK, Files
<1>2. Active(m) /\ \A n \in Mergers : Active(n) => n = m
  BY <1>1 DEF LockInv, Active
<1>3. Store = acc[m] /\ Store' = acc[m]
  BY <1>1, StoreWhileCut DEF Store, Rewriting
<1>4. ASSUME NEW n \in Mergers
      PROVE  /\ (pc'[n] = "rewrite" /\ target'[n] = "db") =>
                  acc'[n] = file'["db"] \cup New[n] /\ ~ Rejected(acc'[n])
             /\ (pc'[n] = "cut" /\ target'[n] = "db") =>
                  New[n] \subseteq acc'[n] /\ file'["db"] \subseteq acc'[n]
  BY <1>1, <1>2 DEF Active, StoreInv
<1>5. ASSUME "db" \notin torn', NEW n \in Mergers, pc'[n] = "done"
      PROVE  New[n] \subseteq Store'
  BY <1>1, <1>3, <1>5 DEF StoreInv
<1> QED
  BY <1>3, <1>4, <1>5 DEF StoreInv, Rejected

\* The steps of a push that belong to StoreQuiet.
LEMMA QuietSteps ==
  ASSUME TypeOK, TypeOK', ~ IsMask, LockInv, LockInv', StoreInv,
         NEW m \in Mergers,
         \/ CheckDb(m) \/ Lock(m) \/ LockTimeout(m) \/ Parse(m) \/ TouchDb(m)
         \/ (CutFile(m) \/ FlushPart(m) \/ WriteFile(m)) /\ target[m] = "origin"
         \/ Kill(m)
  PROVE  StoreInv'
<1> USE DEF TypeOK, Files
<1>1. CASE CheckDb(m)
  BY <1>1, StoreQuiet DEF CheckDb
<1>2. CASE Lock(m)
  BY <1>2, StoreQuiet DEF Lock
<1>3. CASE LockTimeout(m)
  BY <1>3, StoreQuiet DEF LockTimeout, Exit
<1>4. CASE Parse(m)
  BY <1>4, StoreQuiet DEF Parse, Exit
<1>5. CASE TouchDb(m)
  BY <1>5, StoreQuiet DEF TouchDb
<1>6. CASE CutFile(m) /\ target[m] = "origin"
  BY <1>6, StoreQuiet DEF CutFile
<1>7. CASE WriteFile(m) /\ target[m] = "origin"
  BY <1>7, StoreQuiet DEF WriteFile
<1>8. CASE Kill(m)
  BY <1>8, StoreQuiet DEF Kill, Exit
<1>9. CASE FlushPart(m) /\ target[m] = "origin"
  BY <1>9, StoreQuiet DEF FlushPart
<1> QED
  BY <1>1, <1>2, <1>3, <1>4, <1>5, <1>6, <1>7, <1>8, <1>9

\* Whether there was a database at first is never changed.
LEMMA ExistedStays == [Next]_vars => existed' = existed
BY DEF Next, vars, CheckDb, Lock, LockTimeout, Parse, TouchDb, ReadFile, CutFile,
       FlushPart, WriteFile, Kill

\* At first nobody runs.
LEMMA IndInit == Init => IndInv
BY DEF Init, IndInv, LockInv, StoreInv, Active

\* Every step keeps the invariant.
LEMMA IndStep == TypeOK /\ TypeOK' /\ IndInv /\ [Next]_vars => IndInv'
<1> SUFFICES ASSUME TypeOK, TypeOK', IndInv, [Next]_vars, existed', ~ IsMask
             PROVE  LockInv' /\ StoreInv'
  BY DEF IndInv
<1>0. existed
  BY ExistedStays
<1>1. LockInv /\ StoreInv
  BY <1>0 DEF IndInv
<1>2. LockInv'
  BY <1>1, LockStep
<1>3. ASSUME NEW m \in Mergers, ReadFile(m) PROVE StoreInv'
  BY <1>1, <1>2, <1>3, StoreRead
<1>4. ASSUME NEW m \in Mergers, CutFile(m) \/ FlushPart(m) \/ WriteFile(m),
             target[m] = "db"
      PROVE  StoreInv'
  BY <1>1, <1>2, <1>4, StoreCut, StoreFlush, StoreWrite
<1>5. ASSUME NEW m \in Mergers,
             \/ CheckDb(m) \/ Lock(m) \/ LockTimeout(m) \/ Parse(m) \/ TouchDb(m)
             \/ (CutFile(m) \/ FlushPart(m) \/ WriteFile(m)) /\ target[m] = "origin"
             \/ Kill(m)
      PROVE  StoreInv'
  BY <1>1, <1>2, <1>5, QuietSteps
<1>6. CASE UNCHANGED vars
  BY <1>1, <1>2, <1>6, StoreQuiet DEF vars
<1>7. \A m \in Mergers : target[m] \in {"db", "origin"}
  BY DEF TypeOK, Files
<1> QED
  BY <1>2, <1>3, <1>4, <1>5, <1>6, <1>7 DEF Next

\* The invariant holds in every reachable state.
THEOREM Inductive == Spec => [](TypeOK /\ IndInv)
BY TypeInit, TypeStep, IndInit, IndStep, PTL DEF Spec

\* No push into an existing segbits database is lost, however many others run
\* at the same time, wait in vain, are refused or are killed - unless a push
\* was killed while it rewrote the database.
THEOREM NoPushLost == Spec => []MergedStays
<1>1. TypeOK /\ IndInv => MergedStays
  BY StoreElse DEF IndInv, StoreInv, MergedStays
<1> QED
  BY <1>1, Inductive, PTL

(***************************************************************************)
(* The origin file is never behind the database.                           *)
(***************************************************************************)
\* The part of OriginInv about one push.
OriginOf(m) ==
  /\ (target[m] = "origin" /\ pc[m] \in {"rewrite", "cut"}) =>
       file["db"] \subseteq acc[m] /\ New[m] \subseteq acc[m]
  /\ (target[m] = "db" /\ pc[m] \in {"read", "rewrite", "cut"}) => New[m] \subseteq file["origin"]
  /\ (target[m] = "db" /\ pc[m] \in {"rewrite", "cut"}) => acc[m] \subseteq file["origin"]

\* Only the push m is past the lock, so only its part has to be shown.
LEMMA OriginAlone ==
  ASSUME TypeOK, TypeOK', LockInv, OriginInv, NEW m \in Mergers, Active(m),
         \A n \in Mergers \ {m} : pc'[n] = pc[n] /\ target'[n] = target[n],
         pc'[m] \notin {"start", "wait", "parse", "touch"} \/ target'[m] = "origin",
         "origin" \notin torn' => OriginOf(m)',
         ("origin" \notin torn' /\ ~ (pc'[m] = "cut" /\ target'[m] = "origin")) =>
           file'["db"] \subseteq file'["origin"]
  PROVE  OriginInv'
<1>1. \A n \in Mergers \ {m} : pc'[n] \notin {"read", "rewrite", "cut"}
  BY DEF LockInv, Active
<1>2. \A n \in Mergers : pc'[n] \in {"start", "wait", "parse", "touch"} => target'[n] = "origin"
  BY DEF OriginInv
<1>3. "origin" \notin torn' => \A n \in Mergers : OriginOf(n)'
  BY <1>1 DEF OriginOf
<1>4. ("origin" \notin torn' /\ ~ Rewriting("origin")') => file'["db"] \subseteq file'["origin"]
  BY DEF Rewriting
<1> QED
  BY <1>2, <1>3, <1>4 DEF OriginInv, OriginOf

\* Steps before the files are touched keep OriginInv.
LEMMA OriginQuiet ==
  ASSUME TypeOK, TypeOK', OriginInv, file' = file, acc' = acc, torn' = torn, target' = target,
         NEW m \in Mergers, NEW status, pc' = [pc EXCEPT ![m] = status],
         pc[m] \in {"start", "wait", "parse", "touch"}, status \notin {"rewrite", "cut"}
  PROVE  OriginInv'
<1>1. target[m] = "origin"
  BY DEF OriginInv
<1>2. Rewriting("origin")' = Rewriting("origin")
  BY DEF Rewriting, TypeOK
<1>3. ASSUME NEW n \in Mergers, "origin" \notin torn PROVE OriginOf(n)'
  BY <1>1, <1>3 DEF OriginInv, OriginOf, TypeOK
<1>4. \A n \in Mergers : pc'[n] \in {"start", "wait", "parse", "touch"} => target'[n] = "origin"
  BY <1>1 DEF OriginInv, TypeOK
<1> QED
  BY <1>2, <1>3, <1>4 DEF OriginInv, OriginOf

\* Every step of a push into a database that exists keeps OriginInv.
LEMMA OriginStep ==
  ASSUME TypeOK, TypeOK', ~ IsMask, LockInv, StoreInv, OriginInv, [Next]_vars
  PROVE  OriginInv'
<1> USE DEF TypeOK, Files
<1>0. ASSUME NEW m \in Mergers, "origin" \notin torn PROVE OriginOf(m)
  BY <1>0 DEF OriginInv, OriginOf
<1>1. ASSUME NEW m \in Mergers, \/ CheckDb(m) \/ Lock(m) \/ LockTimeout(m) \/ Parse(m)
                               \/ TouchDb(m)
      PROVE  OriginInv'
  BY <1>1, OriginQuiet DEF CheckDb, Lock, LockTimeout, Parse, TouchDb, Exit
<1>2. ASSUME NEW m \in Mergers, Kill(m) PROVE OriginInv'
  <2>1. /\ target' = target /\ file' = file /\ acc' = acc /\ pc' = [pc EXCEPT ![m] = "killed"]
        /\ torn' = IF pc[m] = "cut" THEN torn \cup {target[m]} ELSE torn
    BY <1>2 DEF Kill, Exit
  <2>2. ("origin" \notin torn' /\ ~ Rewriting("origin")') => ~ Rewriting("origin")
    BY <2>1 DEF Rewriting
  <2>3. \A n \in Mergers : pc'[n] \in {"start", "wait", "parse", "touch"} => target'[n] = "origin"
    BY <2>1 DEF OriginInv
  <2>4. ASSUME NEW n \in Mergers, "origin" \notin torn' PROVE OriginOf(n)'
    BY <1>0, <2>1, <2>4 DEF OriginOf
  <2> QED
    BY <2>1, <2>2, <2>3, <2>4 DEF OriginInv, OriginOf
<1>3. ASSUME NEW m \in Mergers, ReadFile(m) PROVE OriginInv'
  <2>1. /\ pc[m] = "read" /\ Active(m) /\ file' = file /\ target' = target /\ torn' = torn
        /\ \A n \in Mergers \ {m} : pc'[n] = pc[n]
        /\ \/ pc'[m] = "failed"
           \/ pc'[m] = "rewrite" /\ acc'[m] = file[target[m]] \cup New[m]
    BY <1>3 DEF ReadFile, Exit, Active
  <2>2. ~ Rewriting("origin")
    BY <2>1 DEF LockInv, Active, Rewriting
  <2>3. "origin" \notin torn => file["db"] \subseteq file["origin"]
    BY <2>2 DEF OriginInv
  <2>4. "origin" \notin torn' => OriginOf(m)'
    BY <1>0, <2>1, <2>3 DEF OriginOf
  <2> QED
    BY <2>1, <2>3, <2>4, OriginAlone
<1>4. ASSUME NEW m \in Mergers, CutFile(m) PROVE OriginInv'
  <2>1. /\ pc[m] = "rewrite" /\ Active(m) /\ file' = [file EXCEPT ![target[m]] = {}]
        /\ target' = target /\ torn' = torn /\ acc' = acc /\ pc' = [pc EXCEPT ![m] = "cut"]
    BY <1>4 DEF CutFile, Active
  <2>2. "origin" \notin torn' => OriginOf(m)'
    BY <1>0, <2>1 DEF OriginOf
  <2> QED
    BY <2>1, <2>2, OriginAlone
<1>5. ASSUME NEW m \in Mergers, FlushPart(m) PROVE OriginInv'
  <2>1. /\ pc[m] = "cut" /\ Active(m) /\ pc' = pc /\ target' = target /\ torn' = torn
        /\ acc' = acc /\ file'[target[m]] \subseteq acc[m]
        /\ \A f \in Files \ {target[m]} : file'[f] = file[f]
    BY <1>5 DEF FlushPart, Leaves, LockInv, Active
  <2>2. "origin" \notin torn' => OriginOf(m)'
    BY <1>0, <2>1 DEF OriginOf
  <2>3. ("origin" \notin torn' /\ target[m] = "db") => file'["db"] \subseteq file'["origin"]
    BY <1>0, <2>1 DEF OriginOf
  <2> QED
    BY <2>1, <2>2, <2>3, OriginAlone
<1>6. ASSUME NEW m \in Mergers, WriteFile(m) PROVE OriginInv'
  <2>1. /\ pc[m] = "cut" /\ Active(m) /\ torn' = torn /\ acc' = acc
        /\ file' = [file EXCEPT ![target[m]] = acc[m]]
        /\ \A n \in Mergers \ {m} : pc'[n] = pc[n] /\ target'[n] = target[n]
        /\ \/ target[m] = "origin" /\ target'[m] = "db" /\ pc'[m] = "read"
           \/ target[m] = "db" /\ target'[m] = "db" /\ pc'[m] = "done"
    BY <1>6 DEF WriteFile, Exit, Leaves, LockInv, Active
  <2>2. "origin" \notin torn' => OriginOf(m)'
    BY <1>0, <2>1 DEF OriginOf
  <2>3. "origin" \notin torn' => file'["db"] \subseteq file'["origin"]
    BY <1>0, <2>1 DEF OriginOf
  <2> QED
    BY <2>1, <2>2, <2>3, OriginAlone
<1>7. CASE UNCHANGED vars
  BY <1>7 DEF vars, OriginInv, Rewriting
<1> QED
  BY <1>1, <1>2, <1>3, <1>4, <1>5, <1>6, <1>7 DEF Next

\* Whatever pushes into an existing database run and are killed or refused, an
\* entry of the database is in the origin file, unless a push was killed while
\* it rewrote that.
THEOREM OriginIsAhead == Spec => []OriginCoversDb
<1> DEFINE Inv == (existed /\ ~ IsMask) => OriginInv
<1>1. Init => Inv
  BY DEF Init, OriginInv, Files
<1>2. TypeOK /\ TypeOK' /\ IndInv /\ Inv /\ [Next]_vars => Inv'
  BY OriginStep, ExistedStays DEF IndInv
<1>3. TypeOK /\ Inv => OriginCoversDb
  BY DEF OriginInv, OriginCoversDb
<1> QED
  BY <1>1, <1>2, <1>3, Inductive, PTL DEF Spec

(***************************************************************************)
(* The entries of a file do not contradict each other.                     *)
(***************************************************************************)
\* What a write leaves in a file that nobody else has open is no more than
\* what the push was to write.
LEMMA LeavesPart ==
  ASSUME TypeOK, StrictInv, NEW m \in Mergers, pc[m] = "cut", <<m, target[m]>> \notin overlap,
         NEW part \in SUBSET acc[m], NEW text \in Leaves(m, part)
  PROVE  ~ Rejected(text)
BY DEF Leaves, StrictInv, Rejected

\* A step that changes one file, and no push begins to write, keeps StrictInv
\* if the new text of the file is strict.
LEMMA StrictFile ==
  ASSUME TypeOK, StrictInv, acc' = acc, overlap \subseteq overlap',
         NEW f \in Files, NEW text, file' = [file EXCEPT ![f] = text],
         (\A m \in Mergers : <<m, f>> \notin overlap') => ~ Rejected(text),
         \A m \in Mergers : pc'[m] \in {"rewrite", "cut"} => pc[m] \in {"rewrite", "cut"}
  PROVE  StrictInv'
<1>1. ASSUME NEW m \in Mergers, pc'[m] \in {"rewrite", "cut"} PROVE ~ Rejected(acc'[m])
  BY <1>1 DEF StrictInv
<1>2. ASSUME NEW g \in Files, \A m \in Mergers : <<m, g>> \notin overlap' PROVE ~ Rejected(file'[g])
  BY <1>2 DEF StrictInv, TypeOK
<1> QED
  BY <1>1, <1>2 DEF StrictInv, Rejected

\* A step that changes no file, and no push begins to write, keeps StrictInv.
LEMMA StrictQuiet ==
  ASSUME TypeOK, StrictInv, acc' = acc, overlap' = overlap, file' = file,
         \A m \in Mergers : pc'[m] \in {"rewrite", "cut"} => pc[m] \in {"rewrite", "cut"}
  PROVE  StrictInv'
BY DEF StrictInv, Rejected

\* Every step keeps StrictInv.
LEMMA StrictStep == TypeOK /\ TypeOK' /\ StrictInv /\ [Next]_vars => StrictInv'
<1> SUFFICES ASSUME TypeOK, TypeOK', StrictInv, [Next]_vars PROVE StrictInv'
  OBVIOUS
<1> USE DEF TypeOK
<1>1. ASSUME NEW m \in Mergers, \/ CheckDb(m) \/ Lock(m) \/ LockTimeout(m) \/ Parse(m)
                               \/ TouchDb(m) \/ Kill(m)
      PROVE  StrictInv'
  BY <1>1, StrictQuiet DEF CheckDb, Lock, LockTimeout, Parse, TouchDb, Kill, Exit
<1>2. ASSUME NEW m \in Mergers, ReadFile(m) PROVE StrictInv'
  <2>1. CASE Rejected(file[target[m]] \cup New[m])
    BY <1>2, <2>1, StrictQuiet DEF ReadFile, Exit
  <2>2. CASE ~ Rejected(file[target[m]] \cup New[m])
    <3>1. /\ acc' = [acc EXCEPT ![m] = file[target[m]] \cup New[m]]
          /\ pc' = [pc EXCEPT ![m] = "rewrite"] /\ file' = file /\ overlap' = overlap
      BY <1>2, <2>2 DEF ReadFile
    <3>2. ASSUME NEW n \in Mergers, pc'[n] \in {"rewrite", "cut"} PROVE ~ Rejected(acc'[n])
      BY <2>2, <3>1, <3>2 DEF StrictInv
    <3> QED
      BY <3>1, <3>2 DEF StrictInv, Rejected
  <2> QED
    BY <2>1, <2>2
<1>3. ASSUME NEW m \in Mergers, CutFile(m) PROVE StrictInv'
  <2>1. ~ Rejected({})
    BY DEF Rejected
  <2>2. overlap \subseteq overlap' /\ acc' = acc /\ pc[m] = "rewrite"
        /\ pc' = [pc EXCEPT ![m] = "cut"] /\ file' = [file EXCEPT ![target[m]] = {}]
    BY <1>3 DEF CutFile
  <2> QED
    BY <2>1, <2>2, StrictFile
<1>4. ASSUME NEW m \in Mergers, FlushPart(m) PROVE StrictInv'
  <2>1. PICK part \in SUBSET acc[m] : \E text \in Leaves(m, part) :
          file' = [file EXCEPT ![target[m]] = text]
    BY <1>4 DEF FlushPart
  <2>2. PICK text \in Leaves(m, part) : file' = [file EXCEPT ![target[m]] = text]
    BY <2>1
  <2>3. pc[m] = "cut" /\ pc' = pc /\ acc' = acc /\ overlap' = overlap
    BY <1>4 DEF FlushPart
  <2>4. <<m, target[m]>> \notin overlap => ~ Rejected(text)
    BY <2>2, <2>3, LeavesPart
  <2> QED
    BY <2>2, <2>3, <2>4, StrictFile
<1>5. ASSUME NEW m \in Mergers, WriteFile(m) PROVE StrictInv'
  <2>1. PICK text \in Leaves(m, acc[m]) : file' = [file EXCEPT ![target[m]] = text]
    BY <1>5 DEF WriteFile
  <2>2. /\ pc[m] = "cut" /\ acc' = acc /\ overlap' = overlap
        /\ pc' \in {[pc EXCEPT ![m] = "read"], [pc EXCEPT ![m] = "done"]}
    BY <1>5 DEF WriteFile, Exit
  <2>3. <<m, target[m]>> \notin overlap => ~ Rejected(text)
    BY <2>1, <2>2, LeavesPart
  <2> QED
    BY <2>1, <2>2, <2>3, StrictFile
<1>6. CASE UNCHANGED vars
  BY <1>6, StrictQuiet DEF vars
<1> QED
  BY <1>1, <1>2, <1>3, <1>4, <1>5, <1>6 DEF Next

\* However many pushes run, with or without a database to lock, and wherever
\* they are refused or killed, no tag of a file has two bit sets and no bit set
\* two tags, unless two pushes had the file open for writing at once.
THEOREM Strict == Spec => []DbIsStrict
<1>1. Init => StrictInv
  BY MergeDbAssumption DEF Init, StrictInv, Rejected
<1>2. StrictInv => DbIsStrict
  BY DEF StrictInv, DbIsStrict, Rejected
<1> QED
  BY <1>1, <1>2, TypeInit, TypeStep, StrictStep, PTL DEF Spec

(***************************************************************************)
(* Refinement.                                                             *)
(***************************************************************************)
\* mergedb.sh implements the growing set of entries: a push takes effect as a
\* whole at one moment, or not at all, and only a kill in the middle of the
\* rewriting of the database takes entries away.
THEOREM Refinement ==
  ASSUME ~ IsMask
  PROVE  Spec => ImplementsStore
<1> DEFINE store == IF existed THEN Store ELSE InitialDb
           merged == IF existed THEN Merged ELSE {}
<1>1. Init => Abstract!Init
  BY DEF Init, Abstract!Init, Store, Merged, Rewriting, Files
<1>3. ASSUME [Next]_vars, ~ existed
      PROVE  UNCHANGED <<store, merged>>
  BY <1>3, ExistedStays
<1>2. ASSUME TypeOK, TypeOK', IndInv, IndInv', [Next]_vars, existed
      PROVE  [Abstract!Next]_<<store, merged>>
  <2>0. existed'
    BY <1>2, ExistedStays
  <2>1. LockInv /\ LockInv' /\ StoreInv
    BY <1>2, <2>0 DEF IndInv
  <2>2. ASSUME NEW m \in Mergers, CutFile(m), target[m] = "db"
        PROVE  Abstract!Merge(m)
    <3>1. Store' = Store \cup New[m]
      BY <1>2, <2>1, <2>2, StoreCut
    <3>2. pc[m] = "rewrite" /\ pc' = [pc EXCEPT ![m] = "cut"] /\ target' = target
      BY <2>2 DEF CutFile
    <3>3. m \notin Merged /\ Merged' = Merged \cup {m}
      BY <1>2, <2>2, <3>2 DEF Merged, TypeOK
    <3>4. Store = file["db"]
      <4>1. ~ Rewriting("db")
        BY <2>1, <3>2 DEF Rewriting, LockInv, Active
      <4> QED
        BY <4>1, StoreElse
    <3>5. ~ Rejected(Store \cup New[m])
      BY <2>1, <2>2, <3>2, <3>4 DEF StoreInv
    <3> QED
      BY <1>2, <2>0, <3>1, <3>3, <3>5 DEF Abstract!Merge, Abstract!Conflict, Rejected
  <2>3. ASSUME NEW m \in Mergers, WriteFile(m), target[m] = "db"
        PROVE  UNCHANGED <<Store, Merged>>
    <3>1. Store' = Store
      BY <1>2, <2>1, <2>3, StoreWrite
    <3>2. Merged' = Merged
      BY <1>2, <2>3 DEF WriteFile, Exit, Merged, TypeOK
    <3> QED
      BY <3>1, <3>2
  <2>8. ASSUME NEW m \in Mergers, FlushPart(m), target[m] = "db"
        PROVE  UNCHANGED <<Store, Merged>>
    <3>1. Store' = Store
      BY <1>2, <2>1, <2>8, StoreFlush
    <3>2. Merged' = Merged
      BY <2>8 DEF FlushPart, Merged
    <3> QED
      BY <3>1, <3>2
  <2>4. ASSUME NEW m \in Mergers, ReadFile(m)
        PROVE  UNCHANGED <<Store, Merged>>
    <3>1. /\ pc[m] = "read" /\ file' = file /\ target' = target
          /\ pc' \in {[pc EXCEPT ![m] = "failed"], [pc EXCEPT ![m] = "rewrite"]}
      BY <2>4 DEF ReadFile, Exit
    <3>2. ~ Rewriting("db") /\ ~ Rewriting("db")'
      BY <1>2, <2>1, <3>1 DEF Rewriting, LockInv, Active, TypeOK
    <3>3. Merged' = Merged
      BY <1>2, <3>1 DEF Merged, TypeOK
    <3> QED
      BY <3>1, <3>2, <3>3 DEF Store
  <2>5. ASSUME NEW m \in Mergers,
               \/ CheckDb(m) \/ Lock(m) \/ LockTimeout(m) \/ Parse(m) \/ TouchDb(m)
               \/ (CutFile(m) \/ FlushPart(m) \/ WriteFile(m)) /\ target[m] = "origin"
        PROVE  UNCHANGED <<Store, Merged>>
    <3>1. /\ file'["db"] = file["db"] /\ acc' = acc
          /\ \A n \in Mergers :
               /\ (pc[n] = "cut" /\ target[n] = "db")
                    <=> (pc'[n] = "cut" /\ target'[n] = "db")
               /\ pc[n] = "done" <=> pc'[n] = "done"
      BY <1>2, <2>5 DEF CheckDb, Lock, LockTimeout, Parse, TouchDb, CutFile, FlushPart,
                        WriteFile, Exit, TypeOK, Files
    <3>2. Store' = Store
      BY <1>2, <2>1, <3>1, StoreKept
    <3> QED
      BY <3>1, <3>2 DEF Merged
  <2>6. CASE UNCHANGED vars
    BY <2>6 DEF vars, Store, Merged, Rewriting
  <2>7. \A m \in Mergers : target[m] \in {"db", "origin"}
    BY <1>2 DEF TypeOK, Files
  <2>9. ASSUME NEW m \in Mergers, Kill(m)
        PROVE  Abstract!Crash(m) \/ UNCHANGED <<Store, Merged>>
    <3>1. /\ file' = file /\ acc' = acc /\ target' = target
          /\ pc' = [pc EXCEPT ![m] = "killed"]
          /\ Active(m) \/ pc[m] = "wait"
      BY <2>9 DEF Kill, Exit
    <3>2. CASE pc[m] = "cut" /\ target[m] = "db"
      <4>1. Store = acc[m]
        BY <1>2, <2>1, <3>2, StoreWhileCut
      <4>2. \A n \in Mergers : Active(n) => n = m
        BY <2>1, <3>2 DEF LockInv, Active
      <4>3. ~ Rewriting("db")'
        BY <1>2, <3>1, <4>2 DEF Rewriting, Active, TypeOK
      <4>4. Store' = file["db"]
        BY <3>1, <4>3 DEF Store
      <4>5. Store' \subseteq Store
        BY <2>1, <3>2, <4>1, <4>4 DEF StoreInv
      <4>6. m \in Merged /\ Merged' = Merged \ {m}
        BY <1>2, <3>1, <3>2 DEF Merged, TypeOK
      <4> QED
        BY <1>2, <2>0, <4>5, <4>6 DEF Abstract!Crash
    <3>3. CASE ~ (pc[m] = "cut" /\ target[m] = "db")
      <4>1. \A n \in Mergers :
               /\ (pc[n] = "cut" /\ target[n] = "db")
                    <=> (pc'[n] = "cut" /\ target'[n] = "db")
               /\ pc[n] = "done" <=> pc'[n] = "done"
        BY <1>2, <3>1, <3>3 DEF TypeOK, Active
      <4>2. Store' = Store
        BY <1>2, <2>1, <3>1, <4>1, StoreKept
      <4> QED
        BY <4>1, <4>2 DEF Merged
    <3> QED
      BY <3>2, <3>3
  <2> QED
    BY <1>2, <2>0, <2>2, <2>3, <2>4, <2>5, <2>6, <2>7, <2>8, <2>9 DEF Next, Abstract!Next
<1>4. TypeOK /\ TypeOK' /\ IndInv /\ IndInv' /\ [Next]_vars => [Abstract!Next]_<<store, merged>>
  BY <1>2, <1>3
<1> QED
  BY <1>1, <1>4, Inductive, PTL DEF Spec, ImplementsStore, Abstract!Spec
=============================================================================
