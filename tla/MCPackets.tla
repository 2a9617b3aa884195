----------------------------- MODULE MCPackets ------------------------------
(* Instance of Packets for TLC.                                              *)
EXTENDS Packets

\* Data words that look like padding, like headers of each type with data
\* behind them, and like a header of a type that is none.
MCZero == [type |-> 0, opcode |-> "NOP", address |-> "CRC", count |-> 0]
MCWords == { MCZero,
             [type |-> 1, opcode |-> "Write", address |-> "CMD", count |-> 1],
             [type |-> 2, opcode |-> "Write", address |-> "CRC", count |-> 2],
             [type |-> 5, opcode |-> "NOP", address |-> "CRC", count |-> 0] }

MCPad == Packet(0, "NOP", "CRC", <<>>)
MCNop == Packet(1, "NOP", "CRC", <<>>)
MCFdri == Packet(1, "Write", "FDRI", <<>>)

\* Writes of one word, the largest count of type 1, and the pair of packets
\* that carries the frames, with as many words as type 2 can count.
MCParts == { <<MCPad>>, <<MCNop>>, <<MCFdri>> }
           \cup { <<Packet(1, "Write", "CMD", <<w>>)>> : w \in MCWords }
           \cup { <<MCFdri, Packet(2, "Write", "FDRI", <<w, w>>)>> : w \in MCWords }
           \cup { <<MCFdri, Packet(2, "Write", "FDRI", <<MCZero, w, w>>)>> :
                    w \in MCWords }

MCStreams == {<<>>} \cup { s \o t : s, t \in MCParts }
=============================================================================
