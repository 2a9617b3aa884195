--------------------------- MODULE SafeFileProofs ---------------------------
(***************************************************************************)
(* Proofs about OpenSafeFile for any number of readers and writers and     *)
(* texts of any length: the type invariant, and, as long as the callers    *)
(* let one writer in at a time, that a reader never sees two texts mixed   *)
(* and that the file left behind is one whole text.                        *)
(***************************************************************************)
EXTENDS SafeFile, SequenceTheorems, TLAPS

USE SafeFileAssumption DEF Procs, Owners

(***************************************************************************)
(* Beginnings of texts.                                                    *)
(***************************************************************************)
\* A beginning of a text is a sequence of chunks of the length it says.
LEMMA PrefixIsSeq ==
  ASSUME NEW t \in Owners, NEW n \in Nat
  PROVE  Prefix(t, n) \in Seq(Chunk) /\ Len(Prefix(t, n)) = n
BY DEF Prefix, Chunk

\* Reading on from a beginning of a text gives the next longer one.
LEMMA PrefixAppend ==
  ASSUME NEW t \in Owners, NEW n \in Nat
  PROVE  Append(Prefix(t, n), <<t, n + 1>>) = Prefix(t, n + 1)
BY PrefixIsSeq DEF Prefix, Chunk

\* Only the empty beginning belongs to two texts.
LEMMA PrefixOwner ==
  ASSUME NEW t \in Owners, NEW u \in Owners, NEW m \in Nat, NEW n \in Nat,
         m > 0, Prefix(t, m) = Prefix(u, n)
  PROVE  t = u /\ m = n
<1>1. m = n
  BY PrefixIsSeq
<1>2. Prefix(t, m)[1] = <<t, 1>> /\ Prefix(u, n)[1] = <<u, 1>>
  BY <1>1 DEF Prefix
<1> QED
  BY <1>1, <1>2

\* The file stays a sequence of chunks when a buffer is written to it.
LEMMA FlushedIsSeq ==
  ASSUME TypeOK, NEW w \in Writers
  PROVE  Flushed(w) \in Seq(Chunk)
<1> DEFINE end == offset[w] + buffered[w]
           size == IF end > Len(content) THEN end ELSE Len(content)
<1>1. end \in Nat /\ size \in Nat
  BY DEF TypeOK
<1>2. Flushed(w) \in [1..size -> Chunk]
  <2> SUFFICES ASSUME NEW i \in 1..size
               PROVE  (IF i \in (offset[w] + 1)..end THEN <<w, i>>
                       ELSE IF i <= Len(content) THEN content[i] ELSE Hole)
                        \in Chunk
    BY DEF Flushed
  <2> QED
    BY <1>1 DEF TypeOK, Chunk
<1> QED
  BY <1>1, <1>2, SeqDef

\* A writer whose offset is the end of its own beginning extends it.
LEMMA FlushExtends ==
  ASSUME TypeOK, NEW w \in Writers, content = Prefix(w, offset[w])
  PROVE  Flushed(w) = Prefix(w, offset[w] + buffered[w])
<1>1. offset[w] \in Nat /\ buffered[w] \in Nat /\ Len(content) = offset[w]
  BY PrefixIsSeq DEF TypeOK
<1>2. Flushed(w) = [i \in 1..(offset[w] + buffered[w]) |->
                      IF i \in (offset[w] + 1)..(offset[w] + buffered[w])
                      THEN <<w, i>>
                      ELSE IF i <= Len(content) THEN content[i] ELSE Hole]
  BY <1>1 DEF Flushed
<1>3. \A i \in 1..(offset[w] + buffered[w]) :
         (i \notin (offset[w] + 1)..(offset[w] + buffered[w]))
           => i <= Len(content) /\ content[i] = <<w, i>>
  BY <1>1 DEF Prefix
<1> QED
  BY <1>1, <1>2, <1>3 DEF Prefix

(***************************************************************************)
(* Type correctness, with the mutual exclusion of the flock.               *)
(***************************************************************************)
\* The types hold initially.
LEMMA TypeInit == Init => TypeOK
<1> SUFFICES ASSUME Init PROVE TypeOK
  OBVIOUS
<1>1. content \in Seq(Chunk)
  BY PrefixIsSeq DEF Init, Text
<1> QED
  BY <1>1 DEF Init, TypeOK

\* Every step of OpenSafeFile keeps the types, and leaves the flock with a
\* process in its body or with nobody.
LEMMA TypeStep == TypeOK /\ [Next]_vars => TypeOK'
<1> SUFFICES ASSUME TypeOK, [Next]_vars PROVE TypeOK'
  OBVIOUS
<1> USE DEF TypeOK
<1>1. ASSUME NEW p \in Procs, LockFile(p) PROVE TypeOK'
  BY <1>1 DEF LockFile
<1>2. ASSUME NEW p \in Procs, LockTimeout(p) PROVE TypeOK'
  BY <1>2 DEF LockTimeout
<1>3. ASSUME NEW p \in Procs, UnlockFile(p) PROVE TypeOK'
  BY <1>3 DEF UnlockFile
<1>4. ASSUME NEW p \in Procs, Kill(p) PROVE TypeOK'
  BY <1>4 DEF Kill, Active
<1>5. ASSUME NEW r \in Readers, OpenToRead(r) PROVE TypeOK'
  BY <1>5 DEF OpenToRead
<1>6. ASSUME NEW r \in Readers, ReadChunk(r) PROVE TypeOK'
  <2>1. content[offset[r] + 1] \in Chunk
    BY <1>6 DEF ReadChunk
  <2> QED
    BY <1>6, <2>1 DEF ReadChunk
<1>7. ASSUME NEW r \in Readers, CloseReader(r) PROVE TypeOK'
  BY <1>7 DEF CloseReader
<1>8. ASSUME NEW w \in Writers, OpenToWrite(w) PROVE TypeOK'
  BY <1>8 DEF OpenToWrite
<1>9. ASSUME NEW w \in Writers, WriteChunk(w) PROVE TypeOK'
  BY <1>9 DEF WriteChunk
<1>10. ASSUME NEW w \in Writers, FlushBuffer(w) PROVE TypeOK'
  BY <1>10, FlushedIsSeq DEF FlushBuffer
<1>11. ASSUME NEW w \in Writers, CloseWriter(w) PROVE TypeOK'
  BY <1>11, FlushedIsSeq DEF CloseWriter
<1>12. CASE UNCHANGED vars
  BY <1>12 DEF vars
<1> QED
  BY <1>1, <1>2, <1>3, <1>4, <1>5, <1>6, <1>7, <1>8, <1>9, <1>10, <1>11, <1>12
  DEF Next

\* Types, and mutual exclusion of the bodies, in every reachable state.
THEOREM TypeCorrect == Spec => []TypeOK
BY TypeInit, TypeStep, PTL DEF Spec

(***************************************************************************)
(* With one writer at a time, no reader sees two texts mixed.              *)
(***************************************************************************)
\* Nothing is open at first and the file is the old text.
LEMMA SerialInit == Init => SerialInv
<1> SUFFICES ASSUME Init PROVE OneWriter /\ FileIsPrefix /\ ReaderInStep
  BY DEF SerialInv
<1>1. OneWriter
  BY DEF Init, OneWriter, Active
<1>2. FileIsPrefix
  BY PrefixIsSeq DEF Init, FileIsPrefix, Text
<1>3. Old \in Owners /\ Prefix(Old, 0) = <<>>
  BY DEF Prefix
<1>4. ReaderInStep
  BY <1>3 DEF Init, ReaderInStep
<1> QED
  BY <1>1, <1>2, <1>4

\* A step that leaves the file, what was written and what was read alone, and
\* moves processes only as the list below says, keeps the invariant.
LEMMA SerialMoves ==
  ASSUME TypeOK, TypeOK', Serial, OneWriter, FileIsPrefix, ReaderInStep,
         content' = content, offset' = offset, buffered' = buffered, got' = got,
         \A p \in Procs : \/ pc'[p] = pc[p]
                          \/ pc'[p] \in {"done", "dead"}
                          \/ pc[p] = "locked" /\ pc'[p] = "unlocked"
                          \/ p \in Readers /\ pc[p] = "start" /\ pc'[p] = "opened"
                          \/ pc[p] = "opened" /\ pc'[p] = "locked"
  PROVE  OneWriter' /\ FileIsPrefix' /\ ReaderInStep'
<1>1. OneWriter'
  BY DEF TypeOK, OneWriter, Active, Prefix
<1>2. FileIsPrefix'
  BY DEF FileIsPrefix, Prefix
<1>3. ASSUME NEW r \in Readers
      PROVE  /\ (pc[r] \in {"start", "opened"} => offset[r] = 0)'
             /\ (\E t \in Owners :
                   /\ got[r] = Prefix(t, offset[r])
                   /\ (pc[r] = "locked" /\ offset[r] > 0) =>
                       \/ content = Prefix(t, Len(content)) /\ Len(content) >= offset[r]
                       \/ /\ content = <<>>
                          /\ \A w \in Writers : pc[w] \notin {"locked", "unlocked"})'
  <2>1. pc[r] \in {"start", "opened"} => offset[r] = 0
    BY DEF ReaderInStep
  <2>2. pc'[r] \in {"start", "opened"} => offset'[r] = 0
    BY <2>1 DEF TypeOK
  <2>3. PICK t \in Owners :
          /\ got[r] = Prefix(t, offset[r])
          /\ (pc[r] = "locked" /\ offset[r] > 0) =>
               \/ content = Prefix(t, Len(content)) /\ Len(content) >= offset[r]
               \/ /\ content = <<>>
                  /\ \A w \in Writers : pc[w] \notin {"locked", "unlocked"}
    BY DEF ReaderInStep
  <2>4. (pc'[r] = "locked" /\ offset'[r] > 0) =>
           /\ pc[r] = "locked" /\ offset[r] > 0
           /\ holder = r /\ holder' = r
    <3>1. r \in Procs
      OBVIOUS
    <3>2. pc'[r] = "locked" => pc[r] \in {"opened", "locked"}
      BY <3>1
    <3>3. (pc'[r] = "locked" => holder' = r) /\ (pc[r] = "locked" => holder = r)
      BY <3>1 DEF TypeOK
    <3> QED
      BY <2>1, <3>2, <3>3
  <2>5. ASSUME pc'[r] = "locked", holder' = r, holder = r, NEW w \in Writers,
               pc[w] \notin {"locked", "unlocked"}
        PROVE  pc'[w] \notin {"locked", "unlocked"}
    BY <2>5 DEF TypeOK
  <2>6. got'[r] = Prefix(t, offset'[r])
    BY <2>3 DEF Prefix
  <2>7. (pc'[r] = "locked" /\ offset'[r] > 0) =>
           \/ content' = Prefix(t, Len(content')) /\ Len(content') >= offset'[r]
           \/ /\ content' = <<>>
              /\ \A w \in Writers : pc'[w] \notin {"locked", "unlocked"}
    BY <2>3, <2>4, <2>5 DEF Prefix
  <2> QED
    BY <2>2, <2>6, <2>7 DEF Prefix
<1>4. ReaderInStep'
  BY <1>3 DEF ReaderInStep
<1> QED
  BY <1>1, <1>2, <1>4

\* A writer that writes out its buffer extends its own text, and no reader in
\* its body has read another one.
LEMMA SerialFlush ==
  ASSUME TypeOK, TypeOK', Serial, OneWriter, FileIsPrefix, ReaderInStep,
         NEW w \in Writers, FlushBuffer(w) \/ CloseWriter(w)
  PROVE  OneWriter' /\ FileIsPrefix' /\ ReaderInStep'
<1>1. /\ Active(w)
      /\ pc[w] \in {"locked", "unlocked"}
      /\ content' = Flushed(w)
      /\ offset' = [offset EXCEPT ![w] = @ + buffered[w]]
      /\ buffered' = [buffered EXCEPT ![w] = 0]
      /\ got' = got
      /\ pc' = pc \/ pc' = [pc EXCEPT ![w] = "done"]
  BY DEF FlushBuffer, CloseWriter, Active
<1>2. /\ content = Prefix(w, offset[w])
      /\ \A v \in Writers : Active(v) => v = w
  BY <1>1 DEF OneWriter
<1>3. content' = Prefix(w, offset[w] + buffered[w])
  BY <1>1, <1>2, FlushExtends
<1>4. content' = Prefix(w, offset'[w]) /\ offset'[w] \in Nat
  BY <1>1, <1>3 DEF TypeOK
<1>5. Len(content') = offset'[w] /\ Len(content) = offset[w]
  BY <1>2, <1>4, PrefixIsSeq DEF TypeOK
<1>6. OneWriter'
  <2> SUFFICES ASSUME NEW v \in Writers
               PROVE  /\ Active(v)' => /\ \A u \in Writers : Active(u)' => u = v
                                      /\ content' = Prefix(v, offset'[v])
                      /\ pc'[v] = "start" => offset'[v] = 0 /\ buffered'[v] = 0
                      /\ pc'[v] = "opened" => offset'[v] = 0
    BY DEF OneWriter, Prefix
  <2>1. CASE v = w
    BY <1>1, <1>2, <1>4, <2>1 DEF Active, TypeOK
  <2>2. CASE v # w
    BY <1>1, <1>2, <2>2 DEF Active, TypeOK, OneWriter
  <2> QED
    BY <2>1, <2>2
<1>7. FileIsPrefix'
  BY <1>4, <1>5 DEF FileIsPrefix, Prefix
<1>8. ReaderInStep'
  <2> SUFFICES ASSUME NEW r \in Readers
        PROVE  /\ pc'[r] \in {"start", "opened"} => offset'[r] = 0
               /\ \E t \in Owners :
                    /\ got'[r] = Prefix(t, offset'[r])
                    /\ (pc'[r] = "locked" /\ offset'[r] > 0) =>
                         \/ /\ content' = Prefix(t, Len(content'))
                            /\ Len(content') >= offset'[r]
                         \/ /\ content' = <<>>
                            /\ \A v \in Writers :
                                 pc'[v] \notin {"locked", "unlocked"}
    BY DEF ReaderInStep, Prefix
  <2>1. pc'[r] = pc[r] /\ offset'[r] = offset[r] /\ got'[r] = got[r]
    BY <1>1 DEF TypeOK
  <2>2. PICK t \in Owners :
          /\ got[r] = Prefix(t, offset[r])
          /\ (pc[r] = "locked" /\ offset[r] > 0) =>
               \/ content = Prefix(t, Len(content)) /\ Len(content) >= offset[r]
               \/ /\ content = <<>>
                  /\ \A v \in Writers : pc[v] \notin {"locked", "unlocked"}
    BY DEF ReaderInStep
  <2>3. (pc[r] = "locked" /\ offset[r] > 0) =>
           content = Prefix(t, Len(content)) /\ Len(content) >= offset[r]
    BY <1>1, <2>2
  <2>4. (pc[r] = "locked" /\ offset[r] > 0) => t = w /\ Len(content') >= Len(content)
    BY <1>1, <1>2, <1>5, <2>3, PrefixOwner DEF TypeOK
  <2>5. got'[r] = Prefix(t, offset'[r])
    BY <2>1, <2>2
  <2>6. (pc'[r] = "locked" /\ offset'[r] > 0) =>
           content' = Prefix(t, Len(content')) /\ Len(content') >= offset'[r]
    BY <1>4, <1>5, <2>1, <2>3, <2>4 DEF TypeOK
  <2>7. pc'[r] \in {"start", "opened"} => offset'[r] = 0
    BY <2>1 DEF ReaderInStep
  <2> QED
    BY <2>5, <2>6, <2>7
<1> QED
  BY <1>6, <1>7, <1>8

\* A writer that opens the file truncates it; a reader in its body keeps what
\* it has, and the writer waits until that reader has left.
LEMMA SerialOpen ==
  ASSUME TypeOK, TypeOK', Serial, OneWriter, FileIsPrefix, ReaderInStep,
         NEW w \in Writers, OpenToWrite(w)
  PROVE  OneWriter' /\ FileIsPrefix' /\ ReaderInStep'
<1>1. /\ pc[w] = "start"
      /\ \A v \in Writers : ~ Active(v)
      /\ pc' = [pc EXCEPT ![w] = "opened"]
      /\ content' = <<>>
      /\ offset' = offset /\ buffered' = buffered /\ got' = got
  BY DEF OpenToWrite
<1>2. content' = Prefix(w, 0) /\ offset[w] = 0 /\ Len(content') = 0
  BY <1>1 DEF OneWriter, Prefix
<1>3. OneWriter'
  <2> SUFFICES ASSUME NEW v \in Writers
               PROVE  /\ Active(v)' => /\ \A u \in Writers : Active(u)' => u = v
                                      /\ content' = Prefix(v, offset'[v])
                      /\ pc'[v] = "start" => offset'[v] = 0 /\ buffered'[v] = 0
                      /\ pc'[v] = "opened" => offset'[v] = 0
    BY DEF OneWriter, Prefix
  <2> QED
    BY <1>1, <1>2 DEF Active, TypeOK, OneWriter
<1>4. FileIsPrefix'
  BY <1>2 DEF FileIsPrefix, Prefix
<1>5. \A v \in Writers : pc'[v] \notin {"locked", "unlocked"}
  BY <1>1 DEF Active, TypeOK
<1>6. \A r \in Readers : pc'[r] = pc[r]
  BY <1>1 DEF TypeOK
<1>7. ReaderInStep'
  BY <1>1, <1>5, <1>6 DEF ReaderInStep, Prefix
<1> QED
  BY <1>3, <1>4, <1>7

\* A writer that fills its buffer changes nothing a reader can see.
LEMMA SerialWrite ==
  ASSUME TypeOK, Serial, OneWriter, FileIsPrefix, ReaderInStep,
         NEW w \in Writers, WriteChunk(w)
  PROVE  OneWriter' /\ FileIsPrefix' /\ ReaderInStep'
<1>1. /\ pc[w] = "locked"
      /\ buffered' = [buffered EXCEPT ![w] = @ + 1]
      /\ content' = content /\ pc' = pc /\ offset' = offset /\ got' = got
  BY DEF WriteChunk
<1>2. OneWriter'
  BY <1>1 DEF OneWriter, Active, Prefix, TypeOK
<1>3. FileIsPrefix'
  BY <1>1 DEF FileIsPrefix, Prefix
<1>4. ReaderInStep'
  BY <1>1 DEF ReaderInStep, Prefix
<1> QED
  BY <1>2, <1>3, <1>4

\* A reader that reads on reads the next chunk of the same text.
LEMMA SerialRead ==
  ASSUME TypeOK, Serial, OneWriter, FileIsPrefix, ReaderInStep,
         NEW r \in Readers, ReadChunk(r)
  PROVE  OneWriter' /\ FileIsPrefix' /\ ReaderInStep'
<1>1. /\ pc[r] = "locked"
      /\ offset[r] < Len(content)
      /\ got' = [got EXCEPT ![r] = Append(@, content[offset[r] + 1])]
      /\ offset' = [offset EXCEPT ![r] = @ + 1]
      /\ content' = content /\ pc' = pc /\ buffered' = buffered
  BY DEF ReadChunk
<1>2. offset[r] \in Nat /\ Len(content) \in Nat
  BY DEF TypeOK
<1>3. OneWriter'
  <2>1. \A w \in Writers : offset'[w] = offset[w]
    BY <1>1 DEF TypeOK
  <2> QED
    BY <1>1, <2>1 DEF OneWriter, Active, Prefix
<1>4. FileIsPrefix'
  BY <1>1 DEF FileIsPrefix, Prefix
<1>5. PICK t \in Owners : /\ got[r] = Prefix(t, offset[r])
                         /\ content = Prefix(t, Len(content))
  <2>1. CASE offset[r] > 0
    <3>1. content # <<>>
      BY <1>1, <1>2
    <3> QED
      BY <1>1, <2>1, <3>1 DEF ReaderInStep
  <2>2. CASE offset[r] = 0
    <3>1. PICK t \in Owners : content = Prefix(t, Len(content))
      BY DEF FileIsPrefix
    <3>2. PICK u \in Owners : got[r] = Prefix(u, offset[r])
      BY DEF ReaderInStep
    <3>3. Prefix(u, 0) = Prefix(t, 0)
      BY DEF Prefix
    <3> QED
      BY <2>2, <3>1, <3>2, <3>3
  <2> QED
    BY <1>2, <2>1, <2>2
<1>6. content[offset[r] + 1] = <<t, offset[r] + 1>>
  BY <1>1, <1>2, <1>5 DEF Prefix
<1>7. got'[r] = Prefix(t, offset'[r])
  BY <1>1, <1>2, <1>5, <1>6, PrefixAppend DEF TypeOK
<1>8. ReaderInStep'
  <2> SUFFICES ASSUME NEW s \in Readers
        PROVE  /\ pc'[s] \in {"start", "opened"} => offset'[s] = 0
               /\ \E u \in Owners :
                    /\ got'[s] = Prefix(u, offset'[s])
                    /\ (pc'[s] = "locked" /\ offset'[s] > 0) =>
                         \/ /\ content' = Prefix(u, Len(content'))
                            /\ Len(content') >= offset'[s]
                         \/ /\ content' = <<>>
                            /\ \A v \in Writers :
                                 pc'[v] \notin {"locked", "unlocked"}
    BY DEF ReaderInStep, Prefix
  <2>1. CASE s = r
    <3>1. content' = Prefix(t, Len(content')) /\ Len(content') >= offset'[r]
      BY <1>1, <1>2, <1>5 DEF TypeOK
    <3> QED
      BY <1>1, <1>7, <2>1, <3>1
  <2>2. CASE s # r
    <3>1. offset'[s] = offset[s] /\ got'[s] = got[s] /\ pc'[s] = pc[s]
      BY <1>1, <2>2 DEF TypeOK
    <3> QED
      BY <1>1, <3>1 DEF ReaderInStep
  <2> QED
    BY <2>1, <2>2
<1> QED
  BY <1>3, <1>4, <1>8

\* Every step keeps the invariant.
LEMMA SerialStep == TypeOK /\ TypeOK' /\ SerialInv /\ [Next]_vars => SerialInv'
<1> SUFFICES ASSUME TypeOK, TypeOK', SerialInv, [Next]_vars, Serial
             PROVE  OneWriter' /\ FileIsPrefix' /\ ReaderInStep'
  BY DEF SerialInv
<1>0. OneWriter /\ FileIsPrefix /\ ReaderInStep
  BY DEF SerialInv
<1>1. ASSUME NEW p \in Procs,
             LockFile(p) \/ LockTimeout(p) \/ UnlockFile(p) \/ Kill(p)
      PROVE  OneWriter' /\ FileIsPrefix' /\ ReaderInStep'
  <2>1. content' = content /\ offset' = offset /\ buffered' = buffered /\ got' = got
    BY <1>1 DEF LockFile, LockTimeout, UnlockFile, Kill
  <2>2. \A q \in Procs : \/ pc'[q] = pc[q]
                         \/ pc'[q] \in {"done", "dead"}
                         \/ pc[q] = "locked" /\ pc'[q] = "unlocked"
                         \/ pc[q] = "opened" /\ pc'[q] = "locked"
    BY <1>1 DEF LockFile, LockTimeout, UnlockFile, Kill, TypeOK, Active
  <2> QED
    BY <1>0, <2>1, <2>2, SerialMoves
<1>2. ASSUME NEW r \in Readers, OpenToRead(r) \/ CloseReader(r)
      PROVE  OneWriter' /\ FileIsPrefix' /\ ReaderInStep'
  <2>1. content' = content /\ offset' = offset /\ buffered' = buffered /\ got' = got
    BY <1>2 DEF OpenToRead, CloseReader
  <2>2. \A q \in Procs : \/ pc'[q] = pc[q]
                         \/ pc'[q] \in {"done", "dead"}
                         \/ q \in Readers /\ pc[q] = "start" /\ pc'[q] = "opened"
    BY <1>2 DEF OpenToRead, CloseReader, TypeOK
  <2> QED
    BY <1>0, <2>1, <2>2, SerialMoves
<1>3. ASSUME NEW r \in Readers, ReadChunk(r)
      PROVE  OneWriter' /\ FileIsPrefix' /\ ReaderInStep'
  BY <1>0, <1>3, SerialRead
<1>4. ASSUME NEW w \in Writers, OpenToWrite(w)
      PROVE  OneWriter' /\ FileIsPrefix' /\ ReaderInStep'
  BY <1>0, <1>4, SerialOpen
<1>5. ASSUME NEW w \in Writers, WriteChunk(w)
      PROVE  OneWriter' /\ FileIsPrefix' /\ ReaderInStep'
  BY <1>0, <1>5, SerialWrite
<1>6. ASSUME NEW w \in Writers, FlushBuffer(w) \/ CloseWriter(w)
      PROVE  OneWriter' /\ FileIsPrefix' /\ ReaderInStep'
  BY <1>0, <1>6, SerialFlush
<1>7. CASE UNCHANGED vars
  <2>1. content' = content /\ offset' = offset /\ buffered' = buffered
        /\ got' = got /\ pc' = pc
    BY <1>7 DEF vars
  <2> QED
    BY <1>0, <2>1, SerialMoves
<1> QED
  BY <1>1, <1>2, <1>3, <1>4, <1>5, <1>6, <1>7 DEF Next

\* With one writer at a time, whatever a reader has read is a beginning of one
\* text, for any number of readers and writers and texts of any length.
THEOREM SerialReads == Spec => []SerialReadIsPrefix
<1>1. TypeOK /\ SerialInv => SerialReadIsPrefix
  <2> SUFFICES ASSUME TypeOK, Serial, ReaderInStep, NEW r \in Readers
               PROVE  \E t \in Owners : got[r] = Prefix(t, Len(got[r]))
    BY DEF SerialInv, SerialReadIsPrefix
  <2>1. PICK t \in Owners : got[r] = Prefix(t, offset[r])
    BY DEF ReaderInStep
  <2>2. Len(got[r]) = offset[r]
    BY <2>1, PrefixIsSeq DEF TypeOK
  <2> QED
    BY <2>1, <2>2
<1> QED
  BY <1>1, SerialInit, SerialStep, TypeCorrect, PTL DEF Spec

(***************************************************************************)
(* With one writer at a time, the file that is left is one whole text.     *)
(***************************************************************************)
\* Nothing is written at first and the file is the old text.
LEMMA WholeInit == Init => WholeInv
BY DEF Init, WholeInv, BodiesAreWhole, FileHasOwner

\* A body ends without an exception only when all of its text is written, and
\* close() empties the buffer.
LEMMA BodiesStep ==
  TypeOK /\ TypeOK' /\ BodiesAreWhole /\ [Next]_vars => BodiesAreWhole'
<1> SUFFICES ASSUME TypeOK, TypeOK', BodiesAreWhole, [Next]_vars,
                    NEW w \in Writers
             PROVE  /\ (pc'[w] \in {"unlocked", "done"} /\ w \notin raised') =>
                         offset'[w] + buffered'[w] = Chunks[w]
                    /\ pc'[w] = "done" => buffered'[w] = 0
  BY DEF BodiesAreWhole
<1>0. /\ (pc[w] \in {"unlocked", "done"} /\ w \notin raised) =>
           offset[w] + buffered[w] = Chunks[w]
      /\ pc[w] = "done" => buffered[w] = 0
  BY DEF BodiesAreWhole
<1>1. ASSUME NEW p \in Procs, LockFile(p) \/ LockTimeout(p) \/ Kill(p)
      PROVE  /\ offset' = offset /\ buffered' = buffered /\ raised' = raised
             /\ pc'[w] \in {"unlocked", "done"} => pc[w] = pc'[w]
  BY <1>1 DEF LockFile, LockTimeout, Kill, TypeOK
<1>2. ASSUME NEW p \in Procs, UnlockFile(p)
      PROVE  /\ (pc'[w] \in {"unlocked", "done"} /\ w \notin raised') =>
                  offset'[w] + buffered'[w] = Chunks[w]
             /\ pc'[w] = "done" => buffered'[w] = 0
  <2>1. offset' = offset /\ buffered' = buffered /\ raised \subseteq raised'
    BY <1>2 DEF UnlockFile
  <2>2. CASE w = p
    BY <1>2, <2>1, <2>2 DEF UnlockFile, BodyDone, TypeOK
  <2>3. CASE w # p
    <3>1. pc'[w] = pc[w]
      BY <1>2, <2>3 DEF UnlockFile, TypeOK
    <3> QED
      BY <1>0, <2>1, <3>1
  <2> QED
    BY <2>2, <2>3
<1>3. ASSUME NEW r \in Readers, OpenToRead(r) \/ ReadChunk(r) \/ CloseReader(r)
      PROVE  /\ pc'[w] = pc[w] /\ offset'[w] = offset[w]
             /\ buffered' = buffered /\ raised' = raised
  BY <1>3 DEF OpenToRead, ReadChunk, CloseReader, TypeOK
<1>4. ASSUME NEW v \in Writers, OpenToWrite(v) \/ WriteChunk(v) \/ FlushBuffer(v)
      PROVE  /\ raised' = raised
             /\ pc'[w] \in {"unlocked", "done"} =>
                  /\ pc'[w] = pc[w]
                  /\ offset'[w] = offset[w] /\ buffered'[w] = buffered[w]
  BY <1>4 DEF OpenToWrite, WriteChunk, FlushBuffer, TypeOK
<1>5. ASSUME NEW v \in Writers, CloseWriter(v)
      PROVE  /\ (pc'[w] \in {"unlocked", "done"} /\ w \notin raised') =>
                  offset'[w] + buffered'[w] = Chunks[w]
             /\ pc'[w] = "done" => buffered'[w] = 0
  <2>1. CASE w = v
    BY <1>0, <1>5, <2>1 DEF CloseWriter, TypeOK
  <2>2. CASE w # v
    BY <1>0, <1>5, <2>2 DEF CloseWriter, TypeOK
  <2> QED
    BY <2>1, <2>2
<1>6. CASE UNCHANGED vars
  BY <1>0, <1>6 DEF vars
<1> QED
  BY <1>0, <1>1, <1>2, <1>3, <1>4, <1>5, <1>6 DEF Next

\* A step that leaves the file alone, and after which no writer has it open,
\* leaves it to its owner: the writer that left is done or dead.
LEMMA OwnerMoves ==
  ASSUME TypeOK, TypeOK', OneWriter, FileHasOwner, content' = content,
         \A w \in Writers : /\ offset'[w] = offset[w]
                            /\ \/ pc'[w] = pc[w]
                               \/ pc'[w] = "dead" /\ Active(w)
                               \/ pc'[w] \in {"opened", "locked", "unlocked"}
  PROVE  FileHasOwner'
<1> SUFFICES ASSUME \A w \in Writers : ~ Active(w)'
             PROVE  \/ content = Text(Old) /\ \A w \in Writers : pc'[w] = "start"
                    \/ \E w \in Writers : /\ pc'[w] \in {"done", "dead"}
                                         /\ content = Prefix(w, offset[w])
  BY DEF FileHasOwner, Text, Prefix
<1>1. \A w \in Writers : pc'[w] \notin {"opened", "locked", "unlocked"}
  BY DEF Active
<1>2. CASE \E w \in Writers : Active(w)
  <2>1. PICK w \in Writers : Active(w)
    BY <1>2
  <2>2. content = Prefix(w, offset[w]) /\ pc'[w] = "dead"
    BY <1>1, <2>1 DEF OneWriter, Active
  <2> QED
    BY <2>2
<1>3. CASE \A w \in Writers : ~ Active(w)
  BY <1>1, <1>3 DEF FileHasOwner
<1> QED
  BY <1>2, <1>3

\* Every step leaves a file that no writer has open to its owner.
LEMMA OwnerStep ==
  ASSUME TypeOK, TypeOK', OneWriter, OneWriter', FileHasOwner, [Next]_vars
  PROVE  FileHasOwner'
<1>1. ASSUME NEW p \in Procs,
             LockFile(p) \/ LockTimeout(p) \/ UnlockFile(p) \/ Kill(p)
      PROVE  FileHasOwner'
  <2>1. /\ content' = content
        /\ \A w \in Writers : /\ offset'[w] = offset[w]
                              /\ \/ pc'[w] = pc[w]
                                 \/ pc'[w] = "dead" /\ Active(w)
                                 \/ pc'[w] \in {"opened", "locked", "unlocked"}
    BY <1>1 DEF LockFile, LockTimeout, UnlockFile, Kill, Active, TypeOK
  <2> QED
    BY <2>1, OwnerMoves
<1>2. ASSUME NEW r \in Readers, OpenToRead(r) \/ ReadChunk(r) \/ CloseReader(r)
      PROVE  FileHasOwner'
  <2>1. /\ content' = content
        /\ \A w \in Writers : offset'[w] = offset[w] /\ pc'[w] = pc[w]
    BY <1>2 DEF OpenToRead, ReadChunk, CloseReader, TypeOK
  <2> QED
    BY <2>1, OwnerMoves
<1>3. ASSUME NEW w \in Writers,
             OpenToWrite(w) \/ WriteChunk(w) \/ FlushBuffer(w)
      PROVE  FileHasOwner'
  <2>1. pc'[w] \in {"opened", "locked"}
    BY <1>3 DEF OpenToWrite, WriteChunk, FlushBuffer, TypeOK
  <2>2. Active(w)'
    BY <2>1 DEF Active
  <2> QED
    BY <2>2 DEF FileHasOwner
<1>4. ASSUME NEW w \in Writers, CloseWriter(w) PROVE FileHasOwner'
  <2>1. /\ Active(w) /\ pc'[w] = "done" /\ content' = Flushed(w)
        /\ offset'[w] = offset[w] + buffered[w]
    BY <1>4 DEF CloseWriter, Active, TypeOK
  <2>2. content' = Prefix(w, offset'[w])
    BY <2>1, FlushExtends DEF OneWriter
  <2> QED
    BY <2>1, <2>2 DEF FileHasOwner, Prefix
<1>5. CASE UNCHANGED vars
  <2>1. /\ content' = content
        /\ \A w \in Writers : offset'[w] = offset[w] /\ pc'[w] = pc[w]
    BY <1>5 DEF vars
  <2> QED
    BY <2>1, OwnerMoves
<1> QED
  BY <1>1, <1>2, <1>3, <1>4, <1>5 DEF Next

\* With one writer at a time, a file no writer has open is the whole text of a
\* writer that is done, or the old text if none has started, as long as no
\* writer has timed out, raised or been killed.
THEOREM SerialWhole == Spec => []SerialFileIsWhole
<1>1. TypeOK /\ SerialInv /\ WholeInv => SerialFileIsWhole
  <2> SUFFICES ASSUME TypeOK, Serial, BodiesAreWhole, FileHasOwner,
                      \A w \in Writers : pc[w] \in {"start", "done"} /\ w \notin raised
               PROVE  \E t \in Owners :
                        /\ content = Text(t)
                        /\ (t = Old) => \A w \in Writers : pc[w] = "start"
                        /\ (t # Old) => pc[t] = "done"
    BY DEF WholeInv, SerialFileIsWhole
  <2>1. \A w \in Writers : ~ Active(w)
    BY DEF Active
  <2>2. CASE content = Text(Old) /\ \A w \in Writers : pc[w] = "start"
    BY <2>2
  <2>3. ASSUME NEW w \in Writers, pc[w] \in {"done", "dead"},
               content = Prefix(w, offset[w])
        PROVE  content = Text(w) /\ w # Old /\ pc[w] = "done"
    <3>1. pc[w] = "done" /\ w # Old
      BY <2>3
    <3>2. offset[w] = Chunks[w]
      BY <3>1 DEF BodiesAreWhole, TypeOK
    <3> QED
      BY <2>3, <3>1, <3>2 DEF Text
  <2> QED
    BY <2>1, <2>2, <2>3 DEF FileHasOwner
<1>2. /\ TypeOK /\ TypeOK' /\ SerialInv /\ SerialInv' /\ WholeInv /\ [Next]_vars
      => WholeInv'
  BY BodiesStep, OwnerStep DEF SerialInv, WholeInv
<1> QED
  BY <1>1, <1>2, SerialInit, SerialStep, WholeInit, TypeCorrect, PTL DEF Spec
=============================================================================
