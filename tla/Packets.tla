------------------------------- MODULE Packets ------------------------------
(***************************************************************************)
(* A bitstream file of the 7-series: the two nested iterators of           *)
(* BitstreamWriter (bitstream_writer.h) that turn packets into words,      *)
(* BitstreamReader (bitstream_reader.h), which finds the sync word and     *)
(* turns the words into packets again, and the headers between them        *)
(* (packet2header, InitWithWords).  Nothing in the file tells a header     *)
(* from a data word but the counts of the headers before it.               *)
(*                                                                         *)
(* A word is the record of the fields a header has; data words are such    *)
(* records too, so that they may look like headers.  The file is the words *)
(* behind the sync word, and the bytes left of a word that was cut.        *)
(***************************************************************************)
EXTENDS Integers, Sequences

CONSTANTS Streams,      \* the sequences of packets that are written
          HeaderWords,  \* words of header_, the last of which is the sync word
          Limit1,       \* 2^11, the width of the count of a type 1 header
          Limit2        \* 2^27, that of a type 2 header

Packet(type, opcode, address, data) ==
  [type |-> type, opcode |-> opcode, address |-> address, data |-> data]

\* The packets that createConfigurationPackage makes, and padding: the counts
\* fit, and a type 2 packet follows one for its register.
Writable(s) ==
  \A i \in DOMAIN s :
    CASE s[i].type = 0 -> s[i] = Packet(0, "NOP", "CRC", <<>>)
      [] s[i].type = 1 -> Len(s[i].data) < Limit1
      [] s[i].type = 2 -> /\ Len(s[i].data) < Limit2
                          /\ i > 1 /\ s[i - 1].address = s[i].address
      [] OTHER -> FALSE

\* ConfigurationPacket::Opcode and Series7ConfigurationRegister.
Opcodes == {"NOP", "Read", "Write"}
Registers == {"CRC", "FAR", "FDRI", "FDRO", "CMD", "CTL0", "MASK", "STAT",
              "LOUT", "COR0", "MFWR", "CBC", "IDCODE", "AXSS", "COR1",
              "WBSTAR", "TIMER", "UNKNOWN", "BOOTSTS", "CTL1", "BSPI"}

\* A word, by the fields of a header (those of a data word may be of no opcode
\* and no register), and a packet of words.
Words == [type : 0..7, opcode : Opcodes \cup {"reserved"},
          address : Registers \cup {"unused"}, count : Nat]
WordPackets ==
  [type : 0..2, opcode : Opcodes, address : Registers, data : Seq(Words)]

ASSUME PacketsAssumption ==
  /\ \A s \in Streams : s \in Seq(WordPackets) /\ Writable(s)
  /\ HeaderWords \in Nat \ {0} /\ Limit1 \in Nat \ {0} /\ Limit2 \in Nat \ {0}

VARIABLES packets,  \* packets_ of the writer
          header,   \* words of header_ the writer has passed: itr_header_
          itr,      \* [packet, state, data]: itr_packets_ and op_itr_packet_
          closed,   \* writeBitstream has returned
          file,     \* the words behind the sync word
          torn,     \* bytes of a last word that was cut
          reader,   \* "none": no reader yet; "open", "end", "throws"
          first,    \* parse_result_.first: the place in file it starts at
          second,   \* parse_result_.second: a packet in a set, or empty
          got       \* the packets the reader was dereferenced to

writer == <<packets, header, itr, closed, file, torn>>
vars == <<writer, reader, first, second, got>>

Init ==
  /\ packets \in Streams
  /\ header = 0
  /\ itr = [packet |-> 1, state |-> "header", data |-> 0]
  /\ closed = FALSE /\ file = <<>> /\ torn = 0
  /\ reader = "none" /\ first = 1 /\ second = {} /\ got = <<>>
-----------------------------------------------------------------------------
\* Faulty form of Header: the count of a type 2 header is cut to that of a
\* type 1 header.
HeaderNarrow(p) ==
  [type |-> p.type, opcode |-> p.opcode,
   address |-> IF p.type = 1 THEN p.address ELSE "CRC",
   count |-> Len(p.data) % Limit1]

\* packet2header: the fields that do not fit are cut off, padding has none,
\* and a type 2 header has no register.
Header(p) ==
  CASE p.type = 1 -> [type |-> 1, opcode |-> p.opcode, address |-> p.address,
                      count |-> Len(p.data) % Limit1]
    [] p.type = 2 -> [type |-> 2, opcode |-> p.opcode, address |-> "CRC",
                      count |-> Len(p.data) % Limit2]
    [] OTHER      -> [type |-> p.type, opcode |-> "NOP", address |-> "CRC",
                      count |-> 0]

\* What the iterator is dereferenced to once it is past header_.
Word == LET p == packets[itr.packet]
        IN  IF itr.state = "header" THEN Header(p) ELSE p.data[itr.data]

\* ++ of the packet's iterator, and of the iterator over the packets when it
\* has come to the packet's end.
Advance ==
  LET p == packets[itr.packet] IN
  itr' = IF itr.data < Len(p.data)
         THEN [itr EXCEPT !.state = "data", !.data = @ + 1]
         ELSE [packet |-> itr.packet + 1, state |-> "header", data |-> 0]

AtEnd == header = HeaderWords /\ itr.packet > Len(packets)

\* One turn of the loop of writeBitstream.
WriteWord ==
  /\ ~ closed /\ ~ AtEnd
  /\ IF header < HeaderWords
     THEN header' = header + 1 /\ UNCHANGED <<itr, file>>
     ELSE file' = Append(file, Word) /\ Advance /\ UNCHANGED header
  /\ UNCHANGED <<packets, closed, torn, reader, first, second, got>>

\* The loop is over, or the stream has failed (the disk is full) or the tool
\* was killed: no put is checked, and what is there is taken for a bitstream.
CloseFile ==
  /\ ~ closed
  /\ closed' = TRUE
  /\ torn' \in IF AtEnd THEN {0} ELSE 0 .. 3
  /\ UNCHANGED <<packets, header, itr, file, reader, first, second, got>>
-----------------------------------------------------------------------------
\* InitWithBytes: without a sync word there is no reader, and the big endian
\* span steps over the end of a file that has not whole words.
Open ==
  /\ closed /\ reader = "none"
  /\ reader' = IF header < HeaderWords THEN "end"
               ELSE IF torn > 0 THEN "throws" ELSE "open"
  /\ UNCHANGED <<writer, first, second, got>>

Data(from, count) == SubSeq(file, from + 1, from + count)

\* InitWithWords on the words from first on, after the packet in second: the
\* words that are left and the packet, if there is one.
Parsed ==
  IF first > Len(file) THEN [first |-> first, second |-> {}]
  ELSE LET w == file[first]
           fits == w.count <= Len(file) - first
       IN CASE w.type = 0 -> [first |-> first + 1,
                              second |-> {Packet(0, "NOP", "CRC", <<>>)}]
            [] w.type \in {1, 2} /\ ~ fits -> [first |-> first, second |-> {}]
            [] w.type = 1 /\ fits ->
                 [first |-> first + w.count + 1,
                  second |-> {Packet(1, w.opcode, w.address, Data(first, w.count))}]
            [] w.type = 2 /\ fits ->
                 [first |-> first + w.count + 1,
                  second |-> {Packet(2, w.opcode, p.address, Data(first, w.count)) :
                                p \in second}]
            [] OTHER -> [first |-> Len(file) + 1, second |-> {}]

\* One turn of the loop in ++ of the reader's iterator: it ends when nothing
\* was consumed or the words are used up without a packet, goes on when words
\* were consumed without a packet, and else the packet is dereferenced.
Increment ==
  /\ reader = "open"
  /\ IF Parsed.first = first
     THEN reader' = "end" /\ UNCHANGED <<first, second, got>>
     ELSE /\ first' = Parsed.first
          /\ second' = Parsed.second
          /\ got' = IF second' = {} THEN got
                    ELSE Append(got, CHOOSE p \in second' : TRUE)
          /\ reader' = IF second' = {} /\ first' > Len(file) THEN "end" ELSE "open"
  /\ UNCHANGED writer

Next == WriteWord \/ CloseFile \/ Open \/ Increment

\* One thread writes or reads and does not stop by itself.
Spec == Init /\ [][Next]_vars /\ WF_vars(Next)
-----------------------------------------------------------------------------
\* The file carries the packets: wherever it is cut, in the preamble, between
\* two packets, in a packet or in a word, the reader gets the packets written
\* before the cut and ends, and no data word is ever taken for a header.
Stream == INSTANCE PacketStream WITH
  sent <- packets, cut <- closed /\ ~ AtEnd, ended <- reader \in {"end", "throws"}

CarriesPackets == Stream!Spec

\* A packet the reader gives away is never cut short: it ends where the
\* writer's packet ended, or before the cut.  What was read accounts for every
\* word of the file up to first, and an end before the last word means that
\* the rest is one packet that was cut off.
NothingSkipped ==
  reader = "end" /\ header = HeaderWords =>
    \/ first = Len(file) + 1
    \/ /\ ~ AtEnd
       /\ file[first] = Header(packets[itr.packet])
       /\ Len(file) - first = itr.data - 1
=============================================================================
