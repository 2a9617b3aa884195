---------------------------- MODULE PacketsProofs ---------------------------
(***************************************************************************)
(* Proofs about the words of a bitstream file for streams of any number of *)
(* packets with any data, and headers of any width: nothing that was       *)
(* written is skipped, and the file carries the packets as PacketStream    *)
(* promises, whatever the data words look like and wherever the file is    *)
(* cut.  That the reader comes to an end is left to TLC.                   *)
(***************************************************************************)
EXTENDS Packets, SequenceTheorems, TLAPS

(***************************************************************************)
(* The invariant.                                                          *)
(***************************************************************************)
\* The writer has taken itr.data words of the packet itr.packet, its header
\* the first of them, and is never past a packet's data.
WriterInv ==
  /\ packets \in Streams
  /\ header \in 0..HeaderWords
  /\ itr \in [packet : Nat, state : {"header", "data"}, data : Nat]
  /\ itr.packet \in 1..(Len(packets) + 1)
  /\ itr.state = "header" <=> itr.data = 0
  /\ IF itr.packet <= Len(packets) THEN itr.data <= Len(packets[itr.packet].data)
                                   ELSE itr.data = 0
  /\ closed \in BOOLEAN
  /\ file \in Seq(Words)
  /\ torn \in Nat
  /\ torn > 0 => closed /\ ~ AtEnd

\* The first m words of packet i are in the file behind its first at words.
Begun(i, at, m) ==
  /\ m > 0 => file[at + 1] = Header(packets[i])
  /\ \A j \in 1..(m - 1) : file[at + 1 + j] = packets[i].data[j]

\* The packets passed are in the file one behind the other, and of the last
\* one as much as the writer has taken.
Laid(place) ==
  /\ place \in [1..itr.packet -> Nat]
  /\ place[1] = 0
  /\ Len(file) = place[itr.packet] + itr.data
  /\ \A i \in 1..itr.packet : place[i] <= Len(file)
  /\ \A i \in 1..(itr.packet - 1) :
       /\ place[i + 1] = place[i] + 1 + Len(packets[i].data)
       /\ Begun(i, place[i], 1 + Len(packets[i].data))
  /\ Begun(itr.packet, place[itr.packet], itr.data)

\* The reader stands where a packet begins, and has given away the packets
\* before that place.
Reads(place) ==
  /\ got \in Seq(WordPackets)
  /\ Len(got) + 1 <= itr.packet
  /\ \A i \in 1..Len(got) : got[i] = packets[i]
  /\ first = place[Len(got) + 1] + 1
  /\ second = IF Len(got) = 0 THEN {} ELSE {packets[Len(got)]}

\* A reader that ends has given away every packet the writer passed; before
\* it starts, and when it has no words, it has given away none.
ReaderInv ==
  /\ reader \in {"none", "open", "end", "throws"}
  /\ ~ closed => reader = "none"
  /\ reader = "none" => got = <<>>
  /\ reader = "open" => header = HeaderWords
  /\ reader = "throws" => ~ AtEnd
  /\ reader = "end" /\ header = HeaderWords => Len(got) + 1 = itr.packet

Inv == WriterInv /\ ReaderInv /\ \E place : Laid(place) /\ Reads(place)

(***************************************************************************)
(* Headers.                                                                *)
(***************************************************************************)
\* The type of a packet that was written, and with it how long it may be.
LEMMA PacketKinds ==
  ASSUME NEW s \in Streams, NEW i \in 1..Len(s)
  PROVE  /\ s[i] \in WordPackets
         /\ s[i].type = 0 => s[i] = Packet(0, "NOP", "CRC", <<>>)
         /\ s[i].type = 1 => Len(s[i].data) < Limit1
         /\ s[i].type = 2 => /\ Len(s[i].data) < Limit2
                             /\ i > 1 /\ s[i - 1].address = s[i].address
<1>1. s \in Seq(WordPackets) /\ Writable(s)
  BY PacketsAssumption
<1>2. s[i] \in WordPackets
  BY <1>1
<1>3. s[i].type \in 0..2
  BY <1>2 DEF WordPackets
<1> QED
  BY <1>1, <1>2, <1>3 DEF Writable

\* A number below the limit is not cut.
LEMMA SmallMod ==
  ASSUME NEW n \in Nat, NEW limit \in Nat \ {0}, n < limit
  PROVE  n % limit = n
OBVIOUS

\* The header of a packet that was written is a word, and says its type and
\* the length of its data.
LEMMA HeaderFacts ==
  ASSUME NEW s \in Streams, NEW i \in 1..Len(s)
  PROVE  /\ Header(s[i]) \in Words
         /\ Header(s[i]).type = s[i].type
         /\ Header(s[i]).count = Len(s[i].data)
         /\ s[i].type \in {1, 2} => Header(s[i]).opcode = s[i].opcode
         /\ s[i].type = 1 => Header(s[i]).address = s[i].address
<1> DEFINE p == s[i]
<1>1. p \in WordPackets /\ Len(p.data) \in Nat
  BY PacketKinds DEF WordPackets
<1>2. p.type = 0 \/ p.type = 1 \/ p.type = 2
  BY <1>1 DEF WordPackets
<1>3. p.opcode \in Opcodes /\ p.address \in Registers
  BY <1>1 DEF WordPackets
<1>4. "NOP" \in Opcodes /\ "CRC" \in Registers
  BY DEF Opcodes, Registers
<1>5. CASE p.type = 0
  <2>1. p = Packet(0, "NOP", "CRC", <<>>)
    BY <1>5, PacketKinds
  <2>2. Len(p.data) = 0
    BY <2>1 DEF Packet
  <2>3. Header(p) = [type |-> 0, opcode |-> "NOP", address |-> "CRC", count |-> 0]
    BY <1>5 DEF Header
  <2> QED
    BY <1>4, <1>5, <2>2, <2>3 DEF Words
<1>6. CASE p.type = 1
  <2>1. Len(p.data) % Limit1 = Len(p.data)
    BY <1>1, <1>6, SmallMod, PacketKinds, PacketsAssumption
  <2>2. Header(p) = [type |-> 1, opcode |-> p.opcode, address |-> p.address,
                     count |-> Len(p.data)]
    BY <1>6, <2>1 DEF Header
  <2> QED
    BY <1>1, <1>3, <1>6, <2>2 DEF Words
<1>7. CASE p.type = 2
  <2>1. Len(p.data) % Limit2 = Len(p.data)
    BY <1>1, <1>7, SmallMod, PacketKinds, PacketsAssumption
  <2>2. Header(p) = [type |-> 2, opcode |-> p.opcode, address |-> "CRC",
                     count |-> Len(p.data)]
    BY <1>7, <2>1 DEF Header
  <2> QED
    BY <1>1, <1>3, <1>4, <1>7, <2>2 DEF Words
<1> QED
  BY <1>2, <1>5, <1>6, <1>7

(***************************************************************************)
(* What the reader makes of the words.                                     *)
(***************************************************************************)
\* A part of a sequence that agrees with d at every place is d.
LEMMA PartEqual ==
  ASSUME NEW S, NEW f \in Seq(S), NEW d \in Seq(S), NEW a \in Nat,
         a + Len(d) <= Len(f), \A j \in 1..Len(d) : f[a + j] = d[j]
  PROVE  SubSeq(f, a + 1, a + Len(d)) = d
<1> DEFINE n == Len(d)
           s == SubSeq(f, a + 1, a + n)
<1>1. n \in Nat /\ Len(f) \in Nat /\ a + 1 \in Int /\ a + n \in Int
  OBVIOUS
<1>2. \A j \in (a + 1)..(a + n) : f[j] \in S
  BY <1>1
<1>3. \A j \in 1..n : f[a + j] = d[j]
  OBVIOUS
<1> HIDE DEF n
<1>4. s \in Seq(S)
  BY <1>1, <1>2, SubSeqProperties
<1>5. Len(s) = IF a + 1 <= a + n THEN a + n - (a + 1) + 1 ELSE 0
  BY <1>1, <1>2, SubSeqProperties
<1>6. \A j \in 1..(a + n - (a + 1) + 1) : s[j] = f[a + 1 + j - 1]
  BY <1>1, <1>2, SubSeqProperties
<1>7. Len(s) = n
  BY <1>1, <1>5
<1>8. \A j \in 1..n : s[j] = d[j]
  <2> SUFFICES ASSUME NEW j \in 1..n PROVE s[j] = d[j]
    OBVIOUS
  <2>1. j \in 1..(a + n - (a + 1) + 1) /\ a + 1 + j - 1 = a + j
    BY <1>1
  <2> HIDE DEF s
  <2> QED
    BY <2>1, <1>3, <1>6
<1> HIDE DEF s
<1>9. Len(s) = Len(d) /\ \A j \in 1..Len(s) : s[j] = d[j]
  BY <1>7, <1>8 DEF n
<1>10. s = d
  BY <1>4, <1>9, SeqEqual
<1> QED
  BY <1>10 DEF s, n

\* Before the last packet the writer has begun, the reader is given the
\* packet that was written there, and comes to where the next one begins.
LEMMA ParsesNext ==
  ASSUME WriterInv, NEW place, Laid(place), Reads(place), Len(got) + 1 < itr.packet
  PROVE  Parsed = [first  |-> place[Len(got) + 2] + 1,
                   second |-> {packets[Len(got) + 1]}]
<1> DEFINE i == Len(got) + 1
           p == packets[i]
           n == Len(p.data)
           w == file[first]
<1>1. /\ i \in Nat /\ i \in 1..Len(packets) /\ i \in 1..(itr.packet - 1)
      /\ i \in 1..itr.packet /\ i + 1 \in 1..itr.packet
      /\ i + 1 = Len(got) + 2
  BY DEF WriterInv, Reads
<1>2. p \in WordPackets /\ p.data \in Seq(Words) /\ n \in Nat
  BY <1>1, PacketKinds DEF WriterInv, WordPackets
<1>3. place[i] \in Nat /\ first = place[i] + 1
  BY <1>1 DEF Laid, Reads
<1>4. place[i + 1] = first + n /\ first + n <= Len(file) /\ Len(file) \in Nat
  BY <1>1, <1>2, <1>3 DEF Laid, WriterInv
<1>5. w = Header(p) /\ \A j \in 1..n : file[first + j] = p.data[j]
  <2>1. Begun(i, place[i], 1 + n)
    BY <1>1 DEF Laid
  <2>2. file[place[i] + 1] = Header(p)
    BY <2>1, <1>2 DEF Begun
  <2>3. \A j \in 1..n : file[place[i] + 1 + j] = p.data[j]
    BY <2>1, <1>2 DEF Begun
  <2> HIDE DEF p, n
  <2> QED
    BY <2>2, <2>3, <1>3
<1>6. w.type = p.type /\ w.count = n
  BY <1>1, <1>5, HeaderFacts DEF WriterInv
<1>7. Data(first, n) = p.data
  <2>1. file \in Seq(Words) /\ first \in Nat
    BY <1>3 DEF WriterInv
  <2>2. \A j \in 1..Len(p.data) : file[first + j] = p.data[j]
    BY <1>5
  <2>3. SubSeq(file, first + 1, first + Len(p.data)) = p.data
    BY <2>1, <2>2, <1>2, <1>4, PartEqual
  <2> QED
    BY <2>3 DEF Data
<1>8. first <= Len(file) /\ first \in Nat /\ w.count <= Len(file) - first
  BY <1>2, <1>3, <1>4, <1>6
<1>9. p.type = 0 \/ p.type = 1 \/ p.type = 2
  BY <1>2 DEF WordPackets
<1>10. p = [type |-> p.type, opcode |-> p.opcode, address |-> p.address,
            data |-> p.data]
  BY <1>2 DEF WordPackets
<1>11. CASE p.type = 0
  <2>1. p = Packet(0, "NOP", "CRC", <<>>)
    BY <1>1, <1>11, PacketKinds DEF WriterInv
  <2>2. n = 0
    BY <2>1 DEF Packet
  <2>3. Parsed = [first |-> first + 1, second |-> {Packet(0, "NOP", "CRC", <<>>)}]
    BY <1>6, <1>8, <1>11 DEF Parsed
  <2>4. first + 1 = place[Len(got) + 2] + 1
    BY <2>2, <1>1, <1>4, <1>8
  <2> QED
    BY <2>1, <2>3, <2>4
<1>12. CASE p.type = 1
  <2>1. Parsed = [first |-> first + w.count + 1,
                  second |-> {Packet(1, w.opcode, w.address, Data(first, w.count))}]
    BY <1>6, <1>8, <1>12 DEF Parsed
  <2>2. w.opcode = p.opcode /\ w.address = p.address
    BY <1>1, <1>5, <1>12, HeaderFacts DEF WriterInv
  <2>3. Packet(1, w.opcode, w.address, Data(first, w.count)) = p
    BY <2>2, <1>6, <1>7, <1>10, <1>12 DEF Packet
  <2> QED
    BY <2>1, <2>3, <1>1, <1>2, <1>4, <1>6, <1>8
<1>13. CASE p.type = 2
  <2>1. Parsed = [first |-> first + w.count + 1,
                  second |-> {Packet(2, w.opcode, q.address, Data(first, w.count)) :
                                q \in second}]
    BY <1>6, <1>8, <1>13 DEF Parsed
  <2>2. w.opcode = p.opcode
    BY <1>1, <1>5, <1>13, HeaderFacts DEF WriterInv
  <2>3. i > 1 /\ packets[i - 1].address = p.address
    BY <1>1, <1>13, PacketKinds DEF WriterInv
  <2>4. second = {packets[i - 1]}
    BY <2>3, <1>1 DEF Reads
  <2>5. \A q \in second : Packet(2, w.opcode, q.address, Data(first, w.count)) = p
    BY <2>2, <2>3, <2>4, <1>6, <1>7, <1>10, <1>13 DEF Packet
  <2>6. {Packet(2, w.opcode, q.address, Data(first, w.count)) : q \in second} = {p}
    BY <2>4, <2>5
  <2> QED
    BY <2>1, <2>6, <1>1, <1>2, <1>4, <1>6, <1>8
<1> QED
  BY <1>9, <1>11, <1>12, <1>13

\* At the packet the writer was in when the file was cut, or at its end, the
\* words that are left are no packet, and the reader stays where it is.
LEMMA ParsesEnd ==
  ASSUME WriterInv, NEW place, Laid(place), Reads(place), Len(got) + 1 = itr.packet
  PROVE  Parsed.first = first
<1> DEFINE i == itr.packet
           p == packets[i]
           n == Len(p.data)
           w == file[first]
<1>1. i \in 1..itr.packet /\ i \in Nat
  BY DEF WriterInv
<1>2. place[i] \in Nat /\ first = place[i] + 1 /\ Len(file) = place[i] + itr.data
  BY <1>1 DEF Laid, Reads
<1>3. CASE itr.data = 0
  BY <1>2, <1>3 DEF Parsed
<1>4. CASE itr.data # 0
  <2>1. itr.data \in Nat /\ itr.data > 0
    BY <1>4 DEF WriterInv
  <2>2. i \in 1..Len(packets) /\ itr.data <= n
    BY <1>1, <1>4 DEF WriterInv
  <2>3. p \in WordPackets /\ n \in Nat
    BY <2>2, PacketKinds DEF WriterInv, WordPackets
  <2>4. w = Header(p)
    BY <2>1, <1>2 DEF Laid, Begun
  <2>5. w.type = p.type /\ w.count = n
    BY <2>2, <2>4, HeaderFacts DEF WriterInv
  <2>6. ~ (first > Len(file)) /\ ~ (w.count <= Len(file) - first)
    <3>1. n \in Nat /\ itr.data <= n /\ w.count = n
      BY <2>2, <2>3, <2>5
    <3> HIDE DEF i, n, w
    <3> QED
      BY <3>1, <2>1, <1>2
  <2>7. p.type # 0
    <3> SUFFICES ASSUME p.type = 0 PROVE FALSE
      OBVIOUS
    <3>1. p = Packet(0, "NOP", "CRC", <<>>)
      BY <2>2, PacketKinds DEF WriterInv
    <3>2. n = 0
      BY <3>1 DEF Packet
    <3> QED
      BY <3>2, <2>1, <2>2
  <2>8. w.type \in {1, 2}
    BY <2>3, <2>5, <2>7 DEF WordPackets
  <2>9. Parsed = [first |-> first, second |-> {}]
    BY <2>6, <2>8 DEF Parsed
  <2> QED
    BY <2>9
<1> QED
  BY <1>3, <1>4

(***************************************************************************)
(* The invariant is kept.                                                  *)
(***************************************************************************)
LEMMA InitInv == Init => Inv
<1> SUFFICES ASSUME Init PROVE Inv
  OBVIOUS
<1> DEFINE place == [i \in 1..1 |-> 0]
<1>1. packets \in Streams /\ packets \in Seq(WordPackets) /\ Len(packets) \in Nat
  BY PacketsAssumption DEF Init
<1>2. WriterInv
  <2>1. itr = [packet |-> 1, state |-> "header", data |-> 0]
    BY DEF Init
  <2>2. IF itr.packet <= Len(packets) THEN itr.data <= Len(packets[itr.packet].data)
                                      ELSE itr.data = 0
    BY <1>1, <2>1, PacketKinds DEF WordPackets
  <2>3. /\ itr \in [packet : Nat, state : {"header", "data"}, data : Nat]
        /\ itr.packet \in 1..(Len(packets) + 1)
        /\ itr.state = "header" <=> itr.data = 0
    BY <1>1, <2>1
  <2>4. file \in Seq(Words) /\ header \in 0..HeaderWords
    BY PacketsAssumption DEF Init
  <2>5. closed \in BOOLEAN /\ torn = 0
    BY Zenon DEF Init
  <2>6. torn \in Nat /\ ~ (torn > 0)
    BY <2>5
  <2> QED
    BY <1>1, <2>2, <2>3, <2>4, <2>5, <2>6, Zenon DEF WriterInv
<1>3. ReaderInv
  BY DEF Init, ReaderInv
<1>4. Laid(place)
  BY DEF Init, Laid, Begun
<1>5. Reads(place)
  BY DEF Init, Reads
<1> QED
  BY <1>2, <1>3, <1>4, <1>5 DEF Inv

\* The word that the writer comes to is one, and a packet has begun with it.
LEMMA WordFacts ==
  ASSUME WriterInv, itr.packet <= Len(packets)
  PROVE  /\ itr.packet \in 1..Len(packets)
         /\ packets[itr.packet] \in WordPackets
         /\ packets[itr.packet].data \in Seq(Words)
         /\ Len(packets[itr.packet].data) \in Nat
         /\ itr.data \in Nat /\ itr.data <= Len(packets[itr.packet].data)
         /\ Word \in Words
         /\ itr.data = 0 => Word = Header(packets[itr.packet])
         /\ itr.data > 0 => Word = packets[itr.packet].data[itr.data]
<1>1. itr.packet \in 1..Len(packets) /\ itr.data \in Nat
  BY DEF WriterInv
<1>2. /\ packets[itr.packet] \in WordPackets
      /\ packets[itr.packet].data \in Seq(Words)
      /\ Len(packets[itr.packet].data) \in Nat
  BY <1>1, PacketKinds DEF WriterInv, WordPackets
<1>3. itr.data <= Len(packets[itr.packet].data)
  BY DEF WriterInv
<1>4. itr.data = 0 => Word = Header(packets[itr.packet])
  BY DEF WriterInv, Word
<1>5. itr.data > 0 => Word = packets[itr.packet].data[itr.data]
  BY DEF WriterInv, Word
<1>6. Word \in Words
  BY <1>1, <1>2, <1>3, <1>4, <1>5, HeaderFacts DEF WriterInv
<1> QED
  BY <1>1, <1>2, <1>3, <1>4, <1>5, <1>6

\* A word appended to the file comes behind the others.
LEMMA Appended ==
  ASSUME file \in Seq(Words), NEW e \in Words, file' = Append(file, e)
  PROVE  /\ file' \in Seq(Words) /\ Len(file) \in Nat
         /\ Len(file') = Len(file) + 1
         /\ \A k \in 1..Len(file) : file'[k] = file[k]
         /\ file'[Len(file) + 1] = e
BY AppendProperties

\* Words appended to the file leave alone what is before them.
LEMMA BegunStays ==
  ASSUME file \in Seq(Words), NEW e \in Words, file' = Append(file, e),
         packets' = packets, NEW i \in Nat, NEW at \in Nat, NEW m \in Nat,
         at + m <= Len(file), Begun(i, at, m)
  PROVE  Begun(i, at, m)'
<1>1. \A k \in 1..Len(file) : file'[k] = file[k]
  OBVIOUS
<1>2. m > 0 => file'[at + 1] = Header(packets'[i])
  BY <1>1 DEF Begun
<1>3. \A j \in 1..(m - 1) : file'[at + 1 + j] = packets'[i].data[j]
  <2> SUFFICES ASSUME NEW j \in 1..(m - 1)
               PROVE  file'[at + 1 + j] = packets'[i].data[j]
    OBVIOUS
  <2>1. at + 1 + j \in 1..Len(file)
    OBVIOUS
  <2>2. file[at + 1 + j] = packets[i].data[j]
    BY DEF Begun
  <2> QED
    BY <2>1, <2>2, <1>1
<1> QED
  BY <1>2, <1>3 DEF Begun

\* The word put behind the others is the next one of the packet.
LEMMA BegunNext ==
  ASSUME WriterInv, itr.packet <= Len(packets), file' = Append(file, Word),
         packets' = packets, NEW i \in Nat, NEW m \in Nat, NEW at \in Nat,
         i = itr.packet, m = itr.data, Len(file) = at + m, Begun(i, at, m),
         NEW q \in Nat, q = m + 1
  PROVE  Begun(i, at, q)'
<1>1. /\ file \in Seq(Words) /\ Word \in Words
      /\ m = 0 => Word = Header(packets[i])
      /\ m > 0 => Word = packets[i].data[m]
  BY WordFacts DEF WriterInv
<1>2. /\ \A k \in 1..Len(file) : file'[k] = file[k]
      /\ file'[Len(file) + 1] = Word
  BY <1>1, Appended
<1>3. file'[at + 1] = Header(packets[i])
  <2>1. CASE m = 0
    BY <2>1, <1>1, <1>2
  <2>2. CASE m > 0
    <3>1. file[at + 1] = Header(packets[i]) /\ at + 1 \in 1..Len(file)
      BY <2>2 DEF Begun
    <3> QED
      BY <3>1, <1>2
  <2> QED
    BY <2>1, <2>2
<1>4. ASSUME NEW j \in 1..m
      PROVE  file'[at + 1 + j] = packets[i].data[j]
  <2>1. CASE j = m
    <3>1. at + 1 + j = Len(file) + 1 /\ m > 0
      BY <2>1
    <3> QED
      BY <3>1, <2>1, <1>1, <1>2
  <2>2. CASE j # m
    <3>1. j \in 1..(m - 1) /\ at + 1 + j \in 1..Len(file)
      BY <2>2
    <3>2. file[at + 1 + j] = packets[i].data[j]
      BY <3>1 DEF Begun
    <3> QED
      BY <3>1, <3>2, <1>2
  <2> QED
    BY <2>1, <2>2
<1>5. q > 0 => file'[at + 1] = Header(packets'[i])
  BY <1>3
<1>6. \A j \in 1..(q - 1) : file'[at + 1 + j] = packets'[i].data[j]
  <2>1. q - 1 = m
    OBVIOUS
  <2> QED
    BY <2>1, <1>4, Zenon
<1> QED
  BY <1>5, <1>6 DEF Begun

\* A turn of the loop of writeBitstream behind the preamble.
LEMMA WriteBody ==
  ASSUME WriterInv, NEW place, Laid(place), itr.packet <= Len(packets),
         file' = Append(file, Word), Advance, header = HeaderWords,
         UNCHANGED <<packets, header, closed, torn>>, ~ closed
  PROVE  /\ WriterInv'
         /\ \E next : Laid(next)' /\ next[1] = 0
<1>1. PICK i \in Nat, m \in Nat : i = itr.packet /\ m = itr.data
  BY DEF WriterInv
<1> DEFINE p == packets[i]
           n == Len(p.data)
<1>2. /\ i \in 1..Len(packets) /\ p.data \in Seq(Words) /\ n \in Nat /\ m <= n
      /\ Word \in Words
  BY <1>1, WordFacts
<1>3. /\ file' \in Seq(Words) /\ Len(file) \in Nat /\ Len(file') = Len(file) + 1
      /\ \A k \in 1..Len(file) : file'[k] = file[k]
  BY <1>2, Appended DEF WriterInv
<1>4. /\ place \in [1..i -> Nat] /\ place[1] = 0
      /\ Len(file) = place[i] + m
      /\ \A k \in 1..i : place[k] <= Len(file)
      /\ \A k \in 1..(i - 1) :
           /\ place[k + 1] = place[k] + 1 + Len(packets[k].data)
           /\ Begun(k, place[k], 1 + Len(packets[k].data))
      /\ Begun(i, place[i], m)
  BY <1>1 DEF Laid
<1>5. PICK q \in Nat : q = m + 1
  OBVIOUS
<1>6. Begun(i, place[i], q)'
  <2>1. place[i] \in Nat
    BY <1>2, <1>4
  <2>2. packets' = packets
    OBVIOUS
  <2> QED
    BY <2>1, <2>2, <1>1, <1>4, <1>5, BegunNext
<1>7. \A k \in 1..(i - 1) : Begun(k, place[k], 1 + Len(packets[k].data))'
  <2> SUFFICES ASSUME NEW k \in 1..(i - 1)
               PROVE  Begun(k, place[k], 1 + Len(packets[k].data))'
    OBVIOUS
  <2>0. Len(packets[k].data) \in Nat
    <3>1. packets \in Streams /\ k \in 1..Len(packets)
      BY <1>2 DEF WriterInv
    <3> QED
      BY <3>1, PacketKinds DEF WordPackets
  <2>1. PICK l \in Nat : l = 1 + Len(packets[k].data)
    BY <2>0
  <2>2. k \in Nat /\ place[k] \in Nat /\ k + 1 \in 1..i
    <3>1. k \in 1..i /\ k + 1 \in 1..i
      BY <1>1
    <3> QED
      BY <3>1, <1>4
  <2>3. place[k] + l <= Len(file)
    <3>1. place[k + 1] = place[k] + 1 + Len(packets[k].data)
      BY <1>4
    <3>2. place[k + 1] <= Len(file)
      BY <2>2, <1>4
    <3>3. place[k + 1] = place[k] + l
      BY <3>1, <2>0, <2>1, <2>2
    <3> QED
      BY <3>2, <3>3
  <2>4. Begun(k, place[k], l)
    BY <2>1, <1>4
  <2>5. Begun(k, place[k], l)'
    BY <2>2, <2>3, <2>4, <1>2, BegunStays DEF WriterInv
  <2> QED
    BY <2>1, <2>5
<1>8. /\ header' \in 0..HeaderWords /\ closed' \in BOOLEAN /\ torn' \in Nat
      /\ packets' = packets /\ packets' \in Streams
      /\ ~ (torn' > 0)
  BY DEF WriterInv
<1>9. Len(file') = place[i] + q
  <2>1. place[i] \in Nat
    BY <1>2, <1>4
  <2>2. Len(file) = place[i] + m
    BY <1>4
  <2>3. Len(file') = Len(file) + 1
    BY <1>3
  <2> QED
    BY <2>1, <2>2, <2>3, <1>5
<1>10. \A k \in 1..i : place[k] <= Len(file')
  BY <1>3, <1>4
<1>11. \A k \in 1..(i - 1) : place[k + 1] = place[k] + 1 + Len(packets'[k].data)
  BY <1>4, <1>8
<1>12. CASE m < n
  <2>1. itr' = [packet |-> i, state |-> "data", data |-> q]
    BY <1>1, <1>5, <1>12 DEF Advance, WriterInv
  <2>2. itr'.packet = i /\ itr'.data = q /\ q > 0 /\ q <= n
    BY <2>1, <1>2, <1>5, <1>12
  <2>3. WriterInv'
    BY <2>1, <2>2, <1>2, <1>3, <1>8 DEF WriterInv
  <2>4. Laid(place)'
    BY <2>2, <1>4, <1>6, <1>7, <1>9, <1>10, <1>11 DEF Laid
  <2> QED
    BY <2>3, <2>4, <1>4
<1>13. CASE ~ (m < n)
  <2>1. m = n
    BY <1>2, <1>13
  <2>2. itr' = [packet |-> i + 1, state |-> "header", data |-> 0]
    BY <1>1, <1>13 DEF Advance
  <2>3. PICK size \in Nat : size = Len(file')
    BY <1>3
  <2> DEFINE next == [k \in 1..(i + 1) |-> IF k <= i THEN place[k] ELSE size]
  <2>4. WriterInv'
    BY <2>2, <1>2, <1>3, <1>8 DEF WriterInv
  <2>5. Laid(next)'
    <3>1. next \in [1..(i + 1) -> Nat] /\ next[1] = 0 /\ next[i + 1] = size
      BY <1>2, <1>4, <2>3
    <3>2. \A k \in 1..i : next[k] = place[k]
      BY <1>2
    <3>3. \A k \in 1..(i + 1) : next[k] <= Len(file')
      BY <3>1, <3>2, <2>3, <1>2, <1>10
    <3>4. \A k \in 1..i : next[k + 1] = next[k] + 1 + Len(packets'[k].data)
      <4> SUFFICES ASSUME NEW k \in 1..i
                   PROVE  next[k + 1] = next[k] + 1 + Len(packets'[k].data)
        OBVIOUS
      <4>1. CASE k = i
        <5>1. Len(packets'[k].data) = n
          BY <4>1, <1>8
        <5>2. size = place[i] + 1 + n
          BY <2>1, <2>3, <1>2, <1>4, <1>5, <1>9
        <5> HIDE DEF next, n
        <5> QED
          BY <5>1, <5>2, <4>1, <3>1, <3>2
      <4>2. CASE k # i
        <5>1. k \in 1..(i - 1) /\ k + 1 \in 1..i
          BY <4>2, <1>2
        <5> HIDE DEF next
        <5> QED
          BY <5>1, <3>2, <1>11
      <4> QED
        BY <4>1, <4>2
    <3>5. ASSUME NEW k \in 1..i
          PROVE  Begun(k, next[k], 1 + Len(packets[k].data))'
      <4>1. next[k] = place[k]
        BY <3>2
      <4>2. CASE k = i
        <5>1. q = 1 + Len(packets'[k].data)
          BY <4>2, <2>1, <1>5, <1>8
        <5> HIDE DEF next
        <5> QED
          BY <5>1, <4>1, <4>2, <1>6
      <4>3. CASE k # i
        <5>1. k \in 1..(i - 1)
          BY <4>3, <1>2
        <5> HIDE DEF next
        <5> QED
          BY <5>1, <4>1, <1>7
      <4> QED
        BY <4>2, <4>3
    <3>6. Begun(i + 1, next[i + 1], 0)'
      BY DEF Begun
    <3>7. itr'.packet = i + 1 /\ itr'.data = 0 /\ i + 1 - 1 = i
      BY <2>2, <1>2
    <3>8. Len(file') = next[i + 1] + itr'.data
      BY <3>1, <3>7, <2>3
    <3> HIDE DEF next
    <3> QED
      BY <3>1, <3>3, <3>4, <3>5, <3>6, <3>7, <3>8 DEF Laid
  <2> QED
    BY <2>4, <2>5, <1>2, <1>4
<1> QED
  BY <1>12, <1>13

LEMMA WriteInv == Inv /\ WriteWord => Inv'
<1> SUFFICES ASSUME Inv, WriteWord PROVE Inv'
  OBVIOUS
<1>1. WriterInv /\ ReaderInv
  BY DEF Inv
<1>2. PICK place : Laid(place) /\ Reads(place)
  BY DEF Inv
<1>3. /\ ~ closed /\ reader = "none" /\ got = <<>>
      /\ UNCHANGED <<packets, closed, torn, reader, first, second, got>>
  BY <1>1 DEF WriteWord, ReaderInv
<1>4. ReaderInv'
  BY <1>3 DEF ReaderInv
<1>5. first = 1 /\ second = {}
  BY <1>2, <1>3 DEF Laid, Reads
<1>6. ASSUME WriterInv', NEW next, next[1] = 0
      PROVE  Reads(next)'
  <2>1. 1 <= itr'.packet
    BY <1>6 DEF WriterInv
  <2> QED
    BY <2>1, <1>3, <1>5, <1>6 DEF Reads
<1>7. CASE header < HeaderWords
  <2>1. header' = header + 1 /\ UNCHANGED <<itr, file>>
    BY <1>7 DEF WriteWord
  <2>2. header' \in 0..HeaderWords
    BY <2>1, <1>1, <1>7, PacketsAssumption DEF WriterInv
  <2>3. closed' \in BOOLEAN /\ torn' \in Nat /\ ~ (torn' > 0)
    BY <1>1, <1>3 DEF WriterInv
  <2>4. WriterInv'
    BY <2>1, <2>2, <2>3, <1>1, <1>3 DEF WriterInv
  <2>5. Laid(place)'
    BY <2>1, <1>2, <1>3 DEF Laid, Begun
  <2>6. place[1] = 0
    BY <1>2 DEF Laid
  <2> QED
    BY <2>4, <2>5, <2>6, <1>4, <1>6 DEF Inv
<1>8. CASE ~ (header < HeaderWords)
  <2>1. header = HeaderWords
    BY <1>1, <1>8, PacketsAssumption DEF WriterInv
  <2>2. file' = Append(file, Word) /\ Advance /\ UNCHANGED header
    BY <1>8 DEF WriteWord
  <2>3. itr.packet <= Len(packets)
    BY <2>1, <1>1 DEF WriteWord, AtEnd, WriterInv
  <2>4. WriterInv' /\ \E next : Laid(next)' /\ next[1] = 0
    BY <2>1, <2>2, <2>3, <1>1, <1>2, <1>3, WriteBody
  <2>5. PICK next : Laid(next)' /\ next[1] = 0
    BY <2>4
  <2> QED
    BY <2>4, <2>5, <1>4, <1>6 DEF Inv
<1> QED
  BY <1>7, <1>8

\* What was read and written stays as it is while the file is closed or opened.
LEMMA PlacesStay ==
  ASSUME UNCHANGED <<packets, itr, file, first, second, got>>, NEW place,
         Laid(place), Reads(place)
  PROVE  Laid(place)' /\ Reads(place)'
<1>1. Laid(place)'
  BY DEF Laid, Begun
<1>2. Reads(place)'
  BY DEF Reads
<1> QED
  BY <1>1, <1>2

LEMMA CloseInv == Inv /\ CloseFile => Inv'
<1> SUFFICES ASSUME Inv, CloseFile PROVE Inv'
  OBVIOUS
<1>1. WriterInv /\ ReaderInv
  BY DEF Inv
<1>2. UNCHANGED <<packets, header, itr, file, reader, first, second, got>>
  BY DEF CloseFile
<1>3. AtEnd' <=> AtEnd
  BY <1>2 DEF AtEnd
<1>4. closed' = TRUE /\ torn' \in Nat /\ (torn' > 0 => ~ AtEnd)
  BY DEF CloseFile
<1>5. WriterInv'
  BY <1>1, <1>2, <1>3, <1>4 DEF WriterInv
<1>6. ReaderInv'
  BY <1>1, <1>2, <1>3, <1>4 DEF ReaderInv
<1> QED
  BY <1>2, <1>5, <1>6, PlacesStay DEF Inv

LEMMA OpenInv == Inv /\ Open => Inv'
<1> SUFFICES ASSUME Inv, Open PROVE Inv'
  OBVIOUS
<1>1. WriterInv /\ ReaderInv
  BY DEF Inv
<1>2. UNCHANGED <<packets, header, itr, closed, file, torn, first, second, got>>
  BY DEF Open, writer
<1>3. AtEnd' <=> AtEnd
  BY <1>2 DEF AtEnd
<1>4. closed /\ got' = <<>>
  BY <1>1, <1>2 DEF Open, ReaderInv
<1>5. WriterInv'
  BY <1>1, <1>2, <1>3 DEF WriterInv
<1>6. reader' = IF header < HeaderWords THEN "end"
                ELSE IF torn > 0 THEN "throws" ELSE "open"
  BY DEF Open
<1>7. /\ reader' = "open" => header' = HeaderWords
      /\ reader' = "end" => header' < HeaderWords
      /\ reader' = "throws" => ~ AtEnd'
      /\ reader' \in {"open", "end", "throws"}
  BY <1>1, <1>2, <1>3, <1>6, PacketsAssumption DEF WriterInv
<1>8. ReaderInv'
  BY <1>2, <1>4, <1>5, <1>7 DEF ReaderInv, WriterInv
<1> QED
  BY <1>2, <1>5, <1>8, PlacesStay DEF Inv

\* The reader ends where the writer was when the file was closed, and else is
\* given the next packet.
LEMMA Incremented ==
  ASSUME WriterInv, NEW place, Laid(place), Reads(place), Increment
  PROVE  \/ /\ Len(got) + 1 = itr.packet
            /\ reader' = "end" /\ UNCHANGED <<first, second, got>>
         \/ /\ Len(got) + 1 < itr.packet
            /\ got' = Append(got, packets[Len(got) + 1])
            /\ first' = place[Len(got) + 2] + 1
            /\ second' = {packets[Len(got) + 1]}
            /\ reader' = "open"
<1>1. Len(got) \in Nat /\ itr.packet \in Nat /\ Len(got) + 1 <= itr.packet
  BY DEF WriterInv, Reads
<1>2. CASE Len(got) + 1 = itr.packet
  <2>1. Parsed.first = first
    BY <1>2, ParsesEnd
  <2> QED
    BY <2>1, <1>2 DEF Increment
<1>3. CASE Len(got) + 1 < itr.packet
  <2>1. Parsed = [first  |-> place[Len(got) + 2] + 1,
                  second |-> {packets[Len(got) + 1]}]
    BY <1>3, ParsesNext
  <2>2. Parsed.first # first
    <3>1. Len(got) + 1 \in 1..(itr.packet - 1) /\ Len(got) + 1 \in 1..itr.packet
      BY <1>1, <1>3
    <3>2. place[Len(got) + 1 + 1] = place[Len(got) + 1] + 1
                                      + Len(packets[Len(got) + 1].data)
      BY <3>1 DEF Laid
    <3>3. packets \in Streams /\ Len(got) + 1 \in 1..Len(packets)
      BY <1>1, <1>3 DEF WriterInv
    <3>4. Len(packets[Len(got) + 1].data) \in Nat
      BY <3>3, PacketKinds DEF WordPackets
    <3>5. place[Len(got) + 1] \in Nat /\ Len(got) + 1 + 1 = Len(got) + 2
      BY <3>1, <1>1 DEF Laid
    <3>6. first = place[Len(got) + 1] + 1
      BY DEF Reads
    <3> QED
      BY <2>1, <3>2, <3>4, <3>5, <3>6
  <2>3. /\ first' = Parsed.first /\ second' = Parsed.second
        /\ got' = IF second' = {} THEN got
                  ELSE Append(got, CHOOSE p \in second' : TRUE)
        /\ reader' = IF second' = {} /\ first' > Len(file) THEN "end" ELSE "open"
    BY <2>2 DEF Increment
  <2>4. second' = {packets[Len(got) + 1]}
    BY <2>1, <2>3
  <2>5. (CHOOSE p \in second' : TRUE) = packets[Len(got) + 1]
    BY <2>4
  <2> QED
    BY <2>1, <2>3, <2>4, <2>5, <1>3
<1> QED
  BY <1>1, <1>2, <1>3

LEMMA IncrementInv == Inv /\ Increment => Inv'
<1> SUFFICES ASSUME Inv, Increment PROVE Inv'
  OBVIOUS
<1>1. WriterInv /\ ReaderInv
  BY DEF Inv
<1>2. PICK place : Laid(place) /\ Reads(place)
  BY DEF Inv
<1>3. UNCHANGED <<packets, header, itr, closed, file, torn>> /\ reader = "open"
  BY DEF Increment, writer
<1>4. AtEnd' <=> AtEnd
  BY <1>3 DEF AtEnd
<1>5. WriterInv'
  BY <1>1, <1>3, <1>4 DEF WriterInv
<1>6. Laid(place)'
  BY <1>2, <1>3 DEF Laid, Begun
<1>7. closed /\ header = HeaderWords
  BY <1>1, <1>3 DEF ReaderInv
<1>8. CASE /\ Len(got) + 1 = itr.packet
           /\ reader' = "end" /\ UNCHANGED <<first, second, got>>
  <2>1. ReaderInv'
    BY <1>3, <1>7, <1>8 DEF ReaderInv
  <2>2. Reads(place)'
    BY <1>2, <1>3, <1>8 DEF Reads
  <2> QED
    BY <2>1, <2>2, <1>5, <1>6 DEF Inv
<1>9. CASE /\ Len(got) + 1 < itr.packet
           /\ got' = Append(got, packets[Len(got) + 1])
           /\ first' = place[Len(got) + 2] + 1
           /\ second' = {packets[Len(got) + 1]}
           /\ reader' = "open"
  <2>1. ReaderInv'
    BY <1>3, <1>7, <1>9 DEF ReaderInv
  <2>2. packets \in Streams /\ Len(got) + 1 \in 1..Len(packets) /\ Len(got) \in Nat
    BY <1>1, <1>2, <1>9 DEF WriterInv, Reads
  <2>3. got \in Seq(WordPackets) /\ packets[Len(got) + 1] \in WordPackets
    BY <2>2, <1>2, PacketKinds DEF Reads
  <2>4. /\ got' \in Seq(WordPackets) /\ Len(got') = Len(got) + 1
        /\ \A k \in 1..Len(got) : got'[k] = got[k]
        /\ got'[Len(got) + 1] = packets[Len(got) + 1]
    BY <2>3, <1>9, AppendProperties
  <2>5. \A k \in 1..Len(got) : got[k] = packets[k]
    BY <1>2 DEF Reads
  <2>6. \A k \in 1..Len(got') : got'[k] = packets'[k]
    BY <2>2, <2>4, <2>5, <1>3
  <2>7. Len(got') + 1 <= itr'.packet
    BY <2>2, <2>4, <1>1, <1>3, <1>9 DEF WriterInv
  <2>8. first' = place[Len(got') + 1] + 1
    BY <2>2, <2>4, <1>9
  <2>9. second' = IF Len(got') = 0 THEN {} ELSE {packets'[Len(got')]}
    BY <2>2, <2>4, <1>3, <1>9
  <2>10. Reads(place)'
    BY <2>4, <2>6, <2>7, <2>8, <2>9 DEF Reads
  <2> QED
    BY <2>1, <2>10, <1>5, <1>6 DEF Inv
<1> QED
  BY <1>1, <1>2, <1>8, <1>9, Incremented

LEMMA InvStays == Inv /\ [Next]_vars => Inv'
<1> SUFFICES ASSUME Inv, [Next]_vars PROVE Inv'
  OBVIOUS
<1>1. CASE WriteWord
  BY <1>1, WriteInv
<1>2. CASE CloseFile
  BY <1>2, CloseInv
<1>3. CASE Open
  BY <1>3, OpenInv
<1>4. CASE Increment
  BY <1>4, IncrementInv
<1>5. CASE UNCHANGED vars
  <2>1. UNCHANGED <<packets, header, itr, closed, file, torn, reader, first,
                    second, got>>
    BY <1>5 DEF vars, writer
  <2>2. WriterInv'
    BY <2>1 DEF Inv, WriterInv, AtEnd
  <2>3. ReaderInv'
    BY <2>1 DEF Inv, ReaderInv, AtEnd
  <2> QED
    BY <2>1, <2>2, <2>3, PlacesStay DEF Inv
<1> QED
  BY <1>1, <1>2, <1>3, <1>4, <1>5 DEF Next

\* Where the reader ends, nothing is left but a packet that was cut off.
LEMMA EndsAtCut == Inv => NothingSkipped
<1> SUFFICES ASSUME Inv, reader = "end", header = HeaderWords
             PROVE  \/ first = Len(file) + 1
                    \/ /\ ~ AtEnd
                       /\ file[first] = Header(packets[itr.packet])
                       /\ Len(file) - first = itr.data - 1
  BY DEF NothingSkipped
<1>1. WriterInv /\ Len(got) + 1 = itr.packet
  BY DEF Inv, ReaderInv
<1>2. PICK place : Laid(place) /\ Reads(place)
  BY DEF Inv
<1>3. itr.packet \in 1..itr.packet /\ itr.data \in Nat
  BY <1>1 DEF WriterInv
<1>4. /\ place[itr.packet] \in Nat /\ first = place[itr.packet] + 1
      /\ Len(file) = place[itr.packet] + itr.data
      /\ Begun(itr.packet, place[itr.packet], itr.data)
  BY <1>1, <1>2, <1>3 DEF Laid, Reads
<1>5. CASE itr.data = 0
  BY <1>4, <1>5
<1>6. CASE itr.data > 0
  <2>1. file[first] = Header(packets[itr.packet])
    BY <1>4, <1>6 DEF Begun
  <2>2. ~ AtEnd
    BY <1>1, <1>6 DEF WriterInv, AtEnd
  <2>3. Len(file) - first = itr.data - 1
    BY <1>3, <1>4
  <2> QED
    BY <2>1, <2>2, <2>3
<1> QED
  BY <1>3, <1>5, <1>6

\* A reader that ends has passed over no word: what is left of the file is the
\* part of one packet in which the file was cut.
THEOREM SkipsNothing == Spec => []NothingSkipped
<1>1. Init => Inv
  BY InitInv
<1>2. Inv /\ [Next]_vars => Inv'
  BY InvStays
<1>3. Inv => NothingSkipped
  BY EndsAtCut
<1> QED
  BY <1>1, <1>2, <1>3, PTL DEF Spec

(***************************************************************************)
(* The file implements the stream.                                         *)
(***************************************************************************)
\* A reader with nothing more to give has given away all the packets, unless
\* the file was cut.
LEMMA AllGiven ==
  ASSUME Inv, Len(got) + 1 = itr.packet, AtEnd
  PROVE  got = packets
<1>1. PICK place : Laid(place) /\ Reads(place)
  BY DEF Inv
<1>2. WriterInv
  BY DEF Inv
<1>3. packets \in Seq(WordPackets) /\ Len(packets) \in Nat
  BY <1>2, PacketsAssumption DEF WriterInv
<1>4. Len(got) = Len(packets) /\ got \in Seq(WordPackets)
  BY <1>1, <1>2, <1>3 DEF WriterInv, Reads, AtEnd
<1>5. \A i \in 1..Len(got) : got[i] = packets[i]
  BY <1>1 DEF Reads
<1> QED
  BY <1>3, <1>4, <1>5, SeqEqual

LEMMA StreamStep == Inv /\ [Next]_vars => [Stream!Next]_Stream!vars
<1> SUFFICES ASSUME Inv, [Next]_vars PROVE [Stream!Next]_Stream!vars
  OBVIOUS
<1> DEFINE cut == closed /\ ~ AtEnd
           ended == reader \in {"end", "throws"}
<1> USE DEF Stream!Next, Stream!vars
<1>1. WriterInv /\ ReaderInv
  BY DEF Inv
<1>2. CASE WriteWord
  <2>1. UNCHANGED <<packets, closed, reader, got>> /\ ~ closed
    BY <1>2 DEF WriteWord
  <2>2. cut' = cut /\ ended' = ended
    BY <2>1
  <2> QED
    BY <2>1, <2>2
<1>3. CASE CloseFile
  <2>1. /\ UNCHANGED <<packets, header, itr, reader, got>>
        /\ ~ closed /\ closed' = TRUE
    BY <1>3 DEF CloseFile
  <2>2. reader = "none" /\ got = <<>>
    BY <2>1, <1>1 DEF ReaderInv
  <2>3. AtEnd' <=> AtEnd
    BY <2>1 DEF AtEnd
  <2>4. CASE AtEnd
    BY <2>1, <2>3, <2>4
  <2>5. CASE ~ AtEnd
    <3>1. Stream!Cut
      BY <2>1, <2>2, <2>3, <2>5 DEF Stream!Cut
    <3> QED
      BY <3>1
  <2> QED
    BY <2>4, <2>5
<1>4. CASE Open
  <2>1. /\ UNCHANGED <<packets, header, itr, closed, got>>
        /\ closed /\ reader = "none"
        /\ reader' = IF header < HeaderWords THEN "end"
                     ELSE IF torn > 0 THEN "throws" ELSE "open"
    BY <1>4 DEF Open, writer
  <2>2. AtEnd' <=> AtEnd
    BY <2>1 DEF AtEnd
  <2>3. CASE reader' = "open"
    BY <2>1, <2>2, <2>3
  <2>4. CASE reader' # "open"
    <3>1. reader' \in {"end", "throws"} /\ ~ AtEnd
      BY <2>1, <2>4, <1>1 DEF WriterInv, AtEnd
    <3>2. Stream!End
      BY <2>1, <2>2, <3>1 DEF Stream!End
    <3> QED
      BY <3>2
  <2> QED
    BY <2>3, <2>4
<1>5. CASE Increment
  <2>1. UNCHANGED <<packets, header, itr, closed>> /\ reader = "open" /\ closed
    BY <1>1, <1>5 DEF Increment, writer, ReaderInv
  <2>2. AtEnd' <=> AtEnd
    BY <2>1 DEF AtEnd
  <2>3. PICK place : Laid(place) /\ Reads(place)
    BY DEF Inv
  <2>4. CASE /\ Len(got) + 1 = itr.packet
             /\ reader' = "end" /\ UNCHANGED <<first, second, got>>
    <3>1. AtEnd => got = packets
      BY <2>4, AllGiven
    <3>2. Stream!End
      BY <2>1, <2>2, <2>4, <3>1 DEF Stream!End
    <3> QED
      BY <3>2
  <2>5. CASE /\ Len(got) + 1 < itr.packet
             /\ got' = Append(got, packets[Len(got) + 1])
             /\ reader' = "open"
    <3>1. Len(got) < Len(packets)
      BY <2>3, <2>5, <1>1 DEF WriterInv, Reads
    <3>2. Stream!Deliver
      BY <2>1, <2>2, <2>5, <3>1 DEF Stream!Deliver
    <3> QED
      BY <3>2
  <2> QED
    BY <2>3, <2>4, <2>5, <1>1, <1>5, Incremented
<1>6. CASE UNCHANGED vars
  <2>1. UNCHANGED <<packets, header, itr, closed, reader, got>>
    BY <1>6 DEF vars, writer
  <2>2. AtEnd' <=> AtEnd
    BY <2>1 DEF AtEnd
  <2> QED
    BY <2>1, <2>2
<1> QED
  BY <1>2, <1>3, <1>4, <1>5, <1>6 DEF Next

\* The reader is given the packets that were written, unchanged and in their
\* order, and all of them unless the file was cut: what CarriesPackets says of
\* the file, but for the end that the reader comes to.
THEOREM ImplementsStream == Spec => Stream!Safety
<1>1. Init => Stream!Init
  BY DEF Init, Stream!Init
<1>2. Init => Inv
  BY InitInv
<1>3. Inv /\ [Next]_vars => Inv'
  BY InvStays
<1>4. Inv /\ [Next]_vars => [Stream!Next]_Stream!vars
  BY StreamStep
<1> QED
  BY <1>1, <1>2, <1>3, <1>4, PTL DEF Spec, Stream!Safety

=============================================================================
