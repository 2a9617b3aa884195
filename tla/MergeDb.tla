------------------------------ MODULE MergeDb -------------------------------
(***************************************************************************)
(* utils/mergedb.sh: a fuzzer's push of new entries into one database file *)
(* of the segbits database.  make -j runs several pushes at once.  Each    *)
(*                                                                         *)
(*   tests whether segbits_$1.db exists and only then takes a lock,        *)
(*   checks the database and the new entries with parsedb.py,              *)
(*   merges the entries into segbits_$1.origin_info.db with mergedb.py,    *)
(*   merges them with the database into a temporary file, which parsedb.py *)
(*   checks and copies over the database.                                  *)
(*                                                                         *)
(* A mask_* push works on mask_*.db instead, without origins and without   *)
(* mergedb.py.  An entry is a pair <<tag, bits>>; the rewriting of tile    *)
(* prefixes (the case statement) is taken to be done already in New, and   *)
(* the origin names are left out of the origin file.                       *)
(***************************************************************************)
EXTENDS Naturals

CONSTANTS Mergers,    \* processes running mergedb.sh for the same $1
          New,        \* New[m]: what is in the file $2 of merger m
          InitialDb,  \* entries of the database at first, if there is one
          IsMask,     \* $1 is mask_*
          Firsts,     \* bound: the mergers that run if there is no database
          MayDie,     \* TRUE: a merger can be killed between two steps
          Nobody      \* the lock has no holder

Files == {"db", "origin"}
Entries == InitialDb \cup UNION {New[m] : m \in Mergers}

\* Faulty form of Rejected: only a bit set given twice is an error.
RejectedBits(S) == \E x, y \in S : x # y /\ x[2] = y[2]

\* The strict assertions of mergedb.py and parsedb.py: two entries share the
\* tag or the bits.  The lines of a mask, <<bit, bit>>, never do.
Rejected(S) == \E x, y \in S : x # y /\ (x[1] = y[1] \/ x[2] = y[2])

ASSUME MergeDbAssumption ==
  /\ Nobody \notin Mergers /\ Firsts \subseteq Mergers
  /\ IsMask \in BOOLEAN /\ MayDie \in BOOLEAN
  /\ ~ Rejected(InitialDb)

VARIABLES existed, \* the database file was there before the first push
          exists,  \* it is there now
          file,    \* file[f]: entries of the database and of the origin file
          holder,  \* holder of the flock on /tmp/segbits_$1.db.lock
          pc,      \* where each merger is
          target,  \* the file a merger reads and rewrites next
          acc,     \* the merged entries a merger is about to write
          torn,    \* files whose rewriting was cut off by a kill
          overlap  \* <<m, f>>: m rewrote f while another merger did

vars == <<existed, exists, file, holder, pc, target, acc, torn, overlap>>

Active(m) == pc[m] \in {"parse", "touch", "read", "rewrite", "cut"}

Init ==
  /\ existed \in BOOLEAN
  /\ exists = existed
  /\ file = [f \in Files |-> IF existed THEN InitialDb ELSE {}]
  /\ holder = Nobody
  /\ pc = [m \in Mergers |-> IF existed \/ m \in Firsts THEN "start" ELSE "failed"]
  /\ target = [m \in Mergers |-> IF IsMask THEN "db" ELSE "origin"]
  /\ acc = [m \in Mergers |-> {}]
  /\ torn = {}
  /\ overlap = {}

\* The script ends, and the kernel closes its descriptor of the lock file.
Exit(m, status) ==
  /\ pc' = [pc EXCEPT ![m] = status]
  /\ holder' = IF holder = m THEN Nobody ELSE holder
-----------------------------------------------------------------------------
(* Faulty forms of steps below, each as a plausible bug would change it.     *)

\* flock --shared.
LockShared(m) ==
  /\ pc[m] = "wait"
  /\ holder' = m
  /\ pc' = [pc EXCEPT ![m] = "parse"]
  /\ UNCHANGED <<existed, exists, file, target, acc, torn, overlap>>

\* The database is merged before its origin file.
TouchDbFirst(m) ==
  /\ pc[m] = "touch"
  /\ exists' = TRUE
  /\ target' = [target EXCEPT ![m] = "db"]
  /\ pc' = [pc EXCEPT ![m] = "read"]
  /\ UNCHANGED <<existed, file, holder, acc, torn, overlap>>
-----------------------------------------------------------------------------
\* "if [ -f $db ]": a lock is taken only if segbits_$1.db exists.  For mask_*
\* that file never exists; db is set to mask_*.db only further down.
CheckDb(m) ==
  /\ pc[m] = "start"
  /\ pc' = [pc EXCEPT ![m] = IF exists /\ ~ IsMask THEN "wait" ELSE "parse"]
  /\ UNCHANGED <<existed, exists, file, holder, target, acc, torn, overlap>>

\* flock --timeout 30 is granted.
Lock(m) ==
  /\ pc[m] = "wait"
  /\ holder = Nobody
  /\ holder' = m
  /\ pc' = [pc EXCEPT ![m] = "parse"]
  /\ UNCHANGED <<existed, exists, file, target, acc, torn, overlap>>

\* flock gives up after its 30 s, and set -e ends the script.
LockTimeout(m) ==
  /\ pc[m] = "wait"
  /\ holder # Nobody
  /\ Exit(m, "failed")
  /\ UNCHANGED <<existed, exists, file, target, acc, torn, overlap>>

\* parsedb.py --strict on the database, if it exists, and on the new file.
Parse(m) ==
  /\ pc[m] = "parse"
  /\ IF Rejected(New[m]) \/ (~ IsMask /\ Rejected(file["db"]))
     THEN Exit(m, "failed")
     ELSE pc' = [pc EXCEPT ![m] = "touch"] /\ UNCHANGED holder
  /\ UNCHANGED <<existed, exists, file, target, acc, torn, overlap>>

\* touch "$db".
TouchDb(m) ==
  /\ pc[m] = "touch"
  /\ exists' = TRUE
  /\ pc' = [pc EXCEPT ![m] = "read"]
  /\ UNCHANGED <<existed, file, holder, target, acc, torn, overlap>>

\* mergedb.py (sort -u for a mask): read the file and add the new entries.
\* Two entries that contradict each other end the script.
ReadFile(m) ==
  /\ pc[m] = "read"
  /\ IF Rejected(file[target[m]] \cup New[m])
     THEN Exit(m, "failed") /\ UNCHANGED acc
     ELSE /\ acc' = [acc EXCEPT ![m] = file[target[m]] \cup New[m]]
          /\ pc' = [pc EXCEPT ![m] = "rewrite"]
          /\ UNCHANGED holder
  /\ UNCHANGED <<existed, exists, file, target, torn, overlap>>

\* The mergers that have m's file open for writing too.
Rivals(m) == {n \in Mergers \ {m} : pc[n] = "cut" /\ target[n] = target[m]}

\* open(fout, "w") empties the file ...
CutFile(m) ==
  /\ pc[m] = "rewrite"
  /\ file' = [file EXCEPT ![target[m]] = {}]
  /\ overlap' = IF Rivals(m) = {} THEN overlap
                ELSE overlap \cup ((Rivals(m) \cup {m}) \X {target[m]})
  /\ pc' = [pc EXCEPT ![m] = "cut"]
  /\ UNCHANGED <<existed, exists, holder, target, acc, torn>>

\* What a write of the lines S can leave in the file: these lines, or any mix
\* with those of a merger that wrote to the file at the same time.
Leaves(m, S) == IF <<m, target[m]>> \in overlap
                THEN SUBSET (file[target[m]] \cup S) ELSE {S}

\* ... a full buffer puts some of the lines in it ...
FlushPart(m) ==
  /\ pc[m] = "cut"
  /\ \E part \in SUBSET acc[m] : \E text \in Leaves(m, part) :
       file' = [file EXCEPT ![target[m]] = text]
  /\ UNCHANGED <<existed, exists, holder, pc, target, acc, torn, overlap>>

\* ... and closing it has put the merged entries in it.  The origin file comes
\* first; after the database the script ends.
WriteFile(m) ==
  /\ pc[m] = "cut"
  /\ \E text \in Leaves(m, acc[m]) : file' = [file EXCEPT ![target[m]] = text]
  /\ IF target[m] = "origin"
     THEN /\ target' = [target EXCEPT ![m] = "db"]
          /\ pc' = [pc EXCEPT ![m] = "read"]
          /\ UNCHANGED holder
     ELSE Exit(m, "done") /\ UNCHANGED target
  /\ UNCHANGED <<existed, exists, acc, torn, overlap>>

\* The script is killed, or parsedb.py's own flock times out after the file
\* was emptied.
Kill(m) ==
  /\ MayDie
  /\ Active(m) \/ pc[m] = "wait"
  /\ Exit(m, "killed")
  /\ torn' = IF pc[m] = "cut" THEN torn \cup {target[m]} ELSE torn
  /\ UNCHANGED <<existed, exists, file, target, acc, overlap>>
-----------------------------------------------------------------------------
Next ==
  \E m \in Mergers :
    \/ CheckDb(m) \/ Lock(m) \/ LockTimeout(m) \/ Parse(m) \/ TouchDb(m)
    \/ ReadFile(m) \/ CutFile(m) \/ FlushPart(m) \/ WriteFile(m) \/ Kill(m)

Spec == Init /\ [][Next]_vars
-----------------------------------------------------------------------------
\* Type invariant; a script that has ended does not hold the lock.
TypeOK ==
  /\ exists \in BOOLEAN
  /\ file \in [Files -> SUBSET Entries]
  /\ holder \in Mergers \cup {Nobody}
  /\ pc \in [Mergers -> {"start", "wait", "parse", "touch", "read", "rewrite",
                         "cut", "done", "failed", "killed"}]
  /\ target \in [Mergers -> Files]
  /\ acc \in [Mergers -> SUBSET Entries]
  /\ torn \subseteq Files
  /\ overlap \subseteq Mergers \X Files
  /\ holder # Nobody => Active(holder)

\* Somebody is between emptying file f and filling it.
Rewriting(f) == \E m \in Mergers : pc[m] = "cut" /\ target[m] = f

\* No push is lost: once mergedb.sh has ended well, its entries are in the
\* database after whatever other pushes do, unless a later push was killed
\* while it rewrote the database.
MergedStays ==
  (existed /\ ~ IsMask /\ "db" \notin torn /\ ~ Rewriting("db")) =>
    \A m \in Mergers : pc[m] = "done" => New[m] \subseteq file["db"]

\* Whatever the order of the pushes and wherever one fails or is killed, no
\* tag has two bit sets and no bit set two tags, even where the first pushes
\* find no database to lock and one overwrites another's, unless two of them
\* had the file open for writing at once.
DbIsStrict ==
  \A f \in Files :
    (\A m \in Mergers : <<m, f>> \notin overlap) =>
      \A x, y \in file[f] : x[1] = y[1] <=> x[2] = y[2]

\* The origin file, merged first, is never behind the database.
OriginCoversDb ==
  (existed /\ ~ IsMask /\ "origin" \notin torn /\ ~ Rewriting("origin")) =>
    file["db"] \subseteq file["origin"]

\* The comment in mergedb.sh: "if the DB exists acquire a lock".  Two pushes
\* into a database that exists are never both past the lock.
ExistingDbIsLocked ==
  existed => \A m, n \in Mergers : Active(m) /\ Active(n) => m = n
-----------------------------------------------------------------------------
(* The pushes are atomic additions to a growing set of entries.  A push takes *)
(* effect when it empties the database, which it then owns until it is full.  *)
Store == IF Rewriting("db")
         THEN acc[CHOOSE m \in Mergers : pc[m] = "cut" /\ target[m] = "db"]
         ELSE file["db"]

Merged == {m \in Mergers : pc[m] = "done" \/ (pc[m] = "cut" /\ target[m] = "db")}

\* Where there is no database to lock nothing is promised.
Abstract == INSTANCE DbStore WITH store <- IF existed THEN Store ELSE InitialDb,
                                  merged <- IF existed THEN Merged ELSE {}

\* What makes MergedStays inductive: who is past the lock holds it; who is
\* about to empty the database has merged with what is in it now; and what an
\* ended push added is in the database, or about to be again.
LockInv == /\ exists /\ overlap = {}
           /\ \A m \in Mergers : Active(m) => holder = m

StoreInv ==
  /\ \A m \in Mergers :
       /\ (pc[m] = "rewrite" /\ target[m] = "db") =>
            acc[m] = file["db"] \cup New[m] /\ ~ Rejected(acc[m])
       /\ (pc[m] = "cut" /\ target[m] = "db") =>
            New[m] \subseteq acc[m] /\ file["db"] \subseteq acc[m]
  /\ "db" \notin torn =>
       \A m \in Mergers : pc[m] = "done" => New[m] \subseteq Store

\* What makes DbIsStrict inductive: nobody is about to write entries that
\* contradict each other.
StrictInv ==
  /\ \A m \in Mergers : pc[m] \in {"rewrite", "cut"} => ~ Rejected(acc[m])
  /\ \A f \in Files : (\A m \in Mergers : <<m, f>> \notin overlap) => ~ Rejected(file[f])

\* What makes OriginCoversDb inductive: a push that is at the database has put
\* its entries, and what it is about to write, into the origin file before.
OriginInv ==
  /\ \A m \in Mergers : pc[m] \in {"start", "wait", "parse", "touch"} => target[m] = "origin"
  /\ "origin" \notin torn =>
       /\ ~ Rewriting("origin") => file["db"] \subseteq file["origin"]
       /\ \A m \in Mergers :
            /\ (target[m] = "origin" /\ pc[m] \in {"rewrite", "cut"}) =>
                 file["db"] \subseteq acc[m] /\ New[m] \subseteq acc[m]
            /\ (target[m] = "db" /\ pc[m] \in {"read", "rewrite", "cut"}) =>
                 New[m] \subseteq file["origin"]
            /\ (target[m] = "db" /\ pc[m] \in {"rewrite", "cut"}) =>
                 acc[m] \subseteq file["origin"]

IndInv == (existed /\ ~ IsMask) => LockInv /\ StoreInv

\* mergedb.sh implements the growing set where the database exists: a push
\* takes effect as a whole or not at all, and only a kill in the middle of the
\* rewriting of the database can undo it.
ImplementsStore == Abstract!Spec
=============================================================================
