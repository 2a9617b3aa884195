------------------------------ MODULE SafeFile ------------------------------
(***************************************************************************)
(* OpenSafeFile of prjxray/util.py: the context manager with which the     *)
(* fuzzers and the database tools read and write the files they share.     *)
(* Several processes have the same file open; each takes the steps         *)
(*                                                                         *)
(*   open() - flock(LOCK_EX) - body of the with - flock(LOCK_UN) - close() *)
(*                                                                         *)
(* in this order, interleaved with the steps of the others.  open() in     *)
(* mode "w" truncates the file; what the body writes goes to the buffer of *)
(* the Python file object and reaches the file when that buffer is         *)
(* flushed, at the latest in close().                                      *)
(*                                                                         *)
(* A text is a sequence of chunks; chunk <<t, i>> is the i-th chunk of the *)
(* text of t, where t is a writer or Old, the writer of the initial file.  *)
(***************************************************************************)
EXTENDS Naturals, Sequences

CONSTANTS Readers,   \* processes that open the file in mode "r"
          Writers,   \* processes that open it in mode "w" or "w+"
          Old,       \* owner of the initial text
          Nobody,    \* the flock has no holder
          Chunks,    \* Chunks[t]: length of the text of t, in chunks
          Serial     \* TRUE: the callers let one writer in at a time, as
                     \* utils/mergedb.sh does with its own lock file

Procs == Readers \cup Writers
Owners == Writers \cup {Old}

ASSUME SafeFileAssumption ==
  /\ Readers \cap Writers = {}
  /\ Old \notin Writers
  /\ Nobody \notin Procs
  /\ Chunks \in [Owners -> Nat]
  /\ Serial \in BOOLEAN

VARIABLES content,   \* the file
          holder,    \* the process that holds the flock
          pc,        \* where each process is
          offset,    \* chunks a process has read, or its writes have reached
          buffered,  \* chunks a writer has written that are not in the file
          got,       \* what a reader has read
          raised     \* processes whose body raised an exception

vars == <<content, holder, pc, offset, buffered, got, raised>>

\* Bytes the file system fills in when a write starts beyond end of file.
Hole == <<>>
Chunk == (Owners \X Nat) \cup {Hole}

\* The first n chunks of the text of t, and the text.
Prefix(t, n) == [i \in 1..n |-> <<t, i>>]
Text(t) == Prefix(t, Chunks[t])

Active(p) == pc[p] \in {"opened", "locked", "unlocked"}

\* The file after writer w's buffer is written at the offset of its
\* descriptor.
Flushed(w) ==
  LET end == offset[w] + buffered[w]
      size == IF end > Len(content) THEN end ELSE Len(content)
  IN  [i \in 1..size |-> IF i \in (offset[w] + 1)..end THEN <<w, i>>
                         ELSE IF i <= Len(content) THEN content[i] ELSE Hole]

Init ==
  /\ content = Text(Old)
  /\ holder = Nobody
  /\ pc = [p \in Procs |-> "start"]
  /\ offset = [p \in Procs |-> 0]
  /\ buffered = [w \in Writers |-> 0]
  /\ got = [r \in Readers |-> <<>>]
  /\ raised = {}
-----------------------------------------------------------------------------
(* Faulty forms of steps below, each as a plausible bug would change it; a   *)
(* property that still holds with its faulty form would say nothing.         *)

\* flock() without LOCK_EX is granted at once.
LockFileShared(p) ==
  /\ pc[p] = "opened"
  /\ holder' = p
  /\ pc' = [pc EXCEPT ![p] = "locked"]
  /\ UNCHANGED <<content, offset, buffered, got, raised>>

\* The alarm is never set.
LockTimeoutNever(p) ==
  /\ FALSE
  /\ UNCHANGED vars

\* The descriptor is closed beneath the buffer, which is lost.
CloseWriterNoFlush(w) ==
  /\ pc[w] = "unlocked"
  /\ pc' = [pc EXCEPT ![w] = "done"]
  /\ buffered' = [buffered EXCEPT ![w] = 0]
  /\ UNCHANGED <<content, holder, offset, got, raised>>
-----------------------------------------------------------------------------
\* __enter__: self.fd = open(self.name, self.mode).
OpenToRead(r) ==
  /\ pc[r] = "start"
  /\ pc' = [pc EXCEPT ![r] = "opened"]
  /\ UNCHANGED <<content, holder, offset, buffered, got, raised>>

OpenToWrite(w) ==
  /\ pc[w] = "start"
  /\ Serial => \A v \in Writers : ~ Active(v)
  /\ pc' = [pc EXCEPT ![w] = "opened"]
  /\ content' = <<>>
  /\ UNCHANGED <<holder, offset, buffered, got, raised>>

\* lock_file: flock(LOCK_EX) is granted, alarm(0).
LockFile(p) ==
  /\ pc[p] = "opened"
  /\ holder = Nobody
  /\ holder' = p
  /\ pc' = [pc EXCEPT ![p] = "locked"]
  /\ UNCHANGED <<content, offset, buffered, got, raised>>

\* lock_file: the alarm rings while flock() waits, and the process exits.
LockTimeout(p) ==
  /\ pc[p] = "opened"
  /\ holder # Nobody
  /\ pc' = [pc EXCEPT ![p] = "dead"]
  /\ UNCHANGED <<content, holder, offset, buffered, got, raised>>

\* Body: one write() into the buffer, or a full buffer going to the file.
WriteChunk(w) ==
  /\ pc[w] = "locked"
  /\ offset[w] + buffered[w] < Chunks[w]
  /\ buffered' = [buffered EXCEPT ![w] = @ + 1]
  /\ UNCHANGED <<content, holder, pc, offset, got, raised>>

FlushBuffer(w) ==
  /\ pc[w] = "locked"
  /\ buffered[w] > 0
  /\ content' = Flushed(w)
  /\ offset' = [offset EXCEPT ![w] = @ + buffered[w]]
  /\ buffered' = [buffered EXCEPT ![w] = 0]
  /\ UNCHANGED <<holder, pc, got, raised>>

\* Body: one read() that is not at end of file.
ReadChunk(r) ==
  /\ pc[r] = "locked"
  /\ offset[r] < Len(content)
  /\ got' = [got EXCEPT ![r] = Append(@, content[offset[r] + 1])]
  /\ offset' = [offset EXCEPT ![r] = @ + 1]
  /\ UNCHANGED <<content, holder, pc, buffered, raised>>

\* The body has written or read everything.
BodyDone(p) ==
  IF p \in Writers THEN offset[p] + buffered[p] = Chunks[p]
                   ELSE offset[p] >= Len(content)

\* __exit__: unlock_file(), at the end of the body or on an exception in it.
UnlockFile(p) ==
  /\ pc[p] = "locked"
  /\ \/ BodyDone(p) /\ UNCHANGED raised
     \/ ~ BodyDone(p) /\ raised' = raised \cup {p}
  /\ holder' = Nobody
  /\ pc' = [pc EXCEPT ![p] = "unlocked"]
  /\ UNCHANGED <<content, offset, buffered, got>>

\* __exit__: self.fd.close(), which flushes the buffer.
CloseReader(r) ==
  /\ pc[r] = "unlocked"
  /\ pc' = [pc EXCEPT ![r] = "done"]
  /\ UNCHANGED <<content, holder, offset, buffered, got, raised>>

CloseWriter(w) ==
  /\ pc[w] = "unlocked"
  /\ pc' = [pc EXCEPT ![w] = "done"]
  /\ content' = Flushed(w)
  /\ offset' = [offset EXCEPT ![w] = @ + buffered[w]]
  /\ buffered' = [buffered EXCEPT ![w] = 0]
  /\ UNCHANGED <<holder, got, raised>>

\* The process is killed: its buffer is lost and the kernel drops its flock.
Kill(p) ==
  /\ Active(p)
  /\ pc' = [pc EXCEPT ![p] = "dead"]
  /\ holder' = IF holder = p THEN Nobody ELSE holder
  /\ UNCHANGED <<content, offset, buffered, got, raised>>
-----------------------------------------------------------------------------
Next ==
  \/ \E p \in Procs : LockFile(p) \/ LockTimeout(p) \/ UnlockFile(p) \/ Kill(p)
  \/ \E r \in Readers : OpenToRead(r) \/ ReadChunk(r) \/ CloseReader(r)
  \/ \E w \in Writers :
       \/ OpenToWrite(w) \/ WriteChunk(w) \/ FlushBuffer(w) \/ CloseWriter(w)

Spec == Init /\ [][Next]_vars

\* Only the wait for the flock is fair: the kernel grants a free lock or the
\* alarm rings.  A body may take forever and a process need not start.
FairSpec == Spec /\ \A p \in Procs : WF_vars(LockFile(p) \/ LockTimeout(p))
-----------------------------------------------------------------------------
\* Type invariant; a process holds the flock exactly while it is in its body.
TypeOK ==
  /\ content \in Seq(Chunk)
  /\ holder \in Procs \cup {Nobody}
  /\ pc \in [Procs -> {"start", "opened", "locked", "unlocked", "done", "dead"}]
  /\ offset \in [Procs -> Nat]
  /\ buffered \in [Writers -> Nat]
  /\ got \in [Readers -> Seq(Chunk)]
  /\ raised \subseteq Procs
  /\ \A p \in Procs : pc[p] = "locked" <=> holder = p

\* With one writer at a time, a reader never sees two texts mixed: what it has
\* read is a beginning of one writer's text, although files are truncated
\* before they are locked and flushed after they are unlocked.
SerialReadIsPrefix ==
  Serial => \A r \in Readers :
              \E t \in Owners : got[r] = Prefix(t, Len(got[r]))

\* With one writer at a time, when no writer has the file open and none has
\* timed out, raised or been killed, the file is one whole text: that of a
\* writer that is done, if there is one.
SerialFileIsWhole ==
  (Serial /\ \A w \in Writers : pc[w] \in {"start", "done"} /\ w \notin raised)
    => \E t \in Owners :
         /\ content = Text(t)
         /\ (t = Old) => \A w \in Writers : pc[w] = "start"
         /\ (t # Old) => pc[t] = "done"

\* Nobody waits for the flock forever, even if its holder never leaves its
\* body: the lock is granted or the alarm ends the wait.
WaitEnds == \A p \in Procs : pc[p] = "opened" ~> pc[p] # "opened"
-----------------------------------------------------------------------------
(* What makes SerialReadIsPrefix inductive.                                  *)

\* One writer has the file open, and the file is what it has flushed.
OneWriter ==
  \A w \in Writers :
    /\ Active(w) => /\ \A v \in Writers : Active(v) => v = w
                   /\ content = Prefix(w, offset[w])
    /\ pc[w] = "start" => offset[w] = 0 /\ buffered[w] = 0
    /\ pc[w] = "opened" => offset[w] = 0

FileIsPrefix == \E t \in Owners : content = Prefix(t, Len(content))

\* A reader has read the beginning of one text.  While it holds the flock and
\* has read something, the file is still a longer beginning of that text, or
\* was truncated by a writer that waits for the flock.
ReaderInStep ==
  \A r \in Readers :
    /\ pc[r] \in {"start", "opened"} => offset[r] = 0
    /\ \E t \in Owners :
         /\ got[r] = Prefix(t, offset[r])
         /\ (pc[r] = "locked" /\ offset[r] > 0) =>
              \/ content = Prefix(t, Len(content)) /\ Len(content) >= offset[r]
              \/ /\ content = <<>>
                 /\ \A w \in Writers : pc[w] \notin {"locked", "unlocked"}

SerialInv == Serial => OneWriter /\ FileIsPrefix /\ ReaderInStep

(* What makes SerialFileIsWhole inductive, with SerialInv.                   *)

\* A body that ended without an exception has written its whole text, part of
\* which may be in the buffer until close().
BodiesAreWhole ==
  \A w \in Writers :
    /\ (pc[w] \in {"unlocked", "done"} /\ w \notin raised) =>
         offset[w] + buffered[w] = Chunks[w]
    /\ pc[w] = "done" => buffered[w] = 0

\* A file that no writer has open is the old text that none has touched, or
\* what the last writer left behind.
FileHasOwner ==
  (\A w \in Writers : ~ Active(w)) =>
     \/ content = Text(Old) /\ \A w \in Writers : pc[w] = "start"
     \/ \E w \in Writers : /\ pc[w] \in {"done", "dead"}
                          /\ content = Prefix(w, offset[w])

WholeInv == BodiesAreWhole /\ (Serial => FileHasOwner)
-----------------------------------------------------------------------------
\* The docstring of OpenSafeFile: "safe read and writes to a file that can
\* potentially be modified by multiple processes at the same time".  For a
\* read: a with block that ran to its end has read one whole text.
ReadsAreSafe ==
  \A r \in Readers : (pc[r] = "done" /\ r \notin raised)
                       => \E t \in Owners : got[r] = Text(t)
=============================================================================
