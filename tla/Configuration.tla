--------------------------- MODULE Configuration ----------------------------
(***************************************************************************)
(* Configuration<Series7>, lib/include/prjxray/xilinx/configuration.h and  *)
(* lib/xilinx/configuration.cc: the packets that carry the frames of a     *)
(* part in a bitstream, and InitWithPackets, which follows the             *)
(* configuration registers through the packets and collects the frames.    *)
(*                                                                         *)
(* A packet is a record of its opcode, its register and its data words.    *)
(* The data of FDRI are taken words_per_frame at a time: one element is    *)
(* one frame.  Of MASK and CTL1 only bit 21 is kept, which inhibits the    *)
(* command on a FAR write.                                                 *)
(***************************************************************************)
EXTENDS Frames, Sequences

CONSTANT Idcode  \* of the part

VARIABLES packets,  \* the packets of a bitstream
          pos,      \* the packet InitWithPackets is at
          command,  \* command_register, its name
          far,      \* frame_address_register
          mask,     \* bit 21 of mask_register
          ctl1,     \* bit 21 of ctl1_register
          start_new_write,
          current_frame_address,
          fdri,     \* in the loop over the data of an FDRI packet
          ii,       \* frames of that packet passed so far
          read,     \* frames: the frames collected so far
          result    \* "none", or "some" once the packets are used up

registers == <<command, far, mask, ctl1>>
writing == <<start_new_write, current_frame_address, fdri, ii>>
readerVars == <<packets, pos, registers, writing, read, result>>
-----------------------------------------------------------------------------
\* The register holds any word: the addresses and that of the last packets.
LastAddress == FrameAddress(7, 0, 31, 0, 0)

Packet(address, data) == [opcode |-> "Write", address |-> address, data |-> data]
NopPacket == [opcode |-> "NOP", address |-> "CRC", data |-> <<>>]

\* createConfigurationPackage: the packets of a bitstream, the frames in one
\* FDRI packet of type 2 after an empty one of type 1.  Of several NOP packets
\* in a row one is kept.
ConfigurationPackage(packet_data) ==
  << NopPacket, Packet("TIMER", <<0>>), Packet("WBSTAR", <<0>>),
     Packet("CMD", <<"NOP">>), NopPacket, Packet("CMD", <<"RCRC">>), NopPacket,
     Packet("UNKNOWN", <<0>>), Packet("COR0", <<0>>), Packet("COR1", <<0>>),
     Packet("IDCODE", <<Idcode>>), Packet("CMD", <<"SWITCH">>), NopPacket,
     Packet("MASK", <<0>>), Packet("CTL0", <<0>>), Packet("MASK", <<0>>),
     Packet("CTL1", <<0>>), NopPacket,
     Packet("FAR", <<Zero>>), Packet("CMD", <<"WCFG">>), NopPacket,
     Packet("FDRI", <<>>), Packet("FDRI", packet_data),
     Packet("CMD", <<"RCRC">>), NopPacket, Packet("CMD", <<"GRESTORE">>),
     NopPacket, Packet("CMD", <<"LFRM">>), NopPacket,
     Packet("CMD", <<"START">>), NopPacket, Packet("FAR", <<LastAddress>>),
     Packet("MASK", <<0>>), Packet("CTL0", <<0>>),
     Packet("CMD", <<"RCRC">>), NopPacket, Packet("CMD", <<"DESYNC">>),
     NopPacket >>

\* The next address is on another bus or in another row: two frames of padding
\* go between, in the data and in the part.
RowChanges(p, a) ==
  \E b \in GetNextFrameAddress(p, a) :
    <<b.block_type, b.half, b.row>> # <<a.block_type, a.half, a.row>>

Padding == <<Empty, Empty>>
-----------------------------------------------------------------------------
\* InitWithPackets before the first packet.
ReaderInit ==
  /\ pos = 1
  /\ command = "NULL" /\ far = Zero /\ mask = 0 /\ ctl1 = 0
  /\ start_new_write = FALSE
  /\ current_frame_address = Zero
  /\ fdri = FALSE /\ ii = 0
  /\ read = <<>>
  /\ result = "none"

At(address) ==
  /\ pos <= Len(packets)
  /\ packets[pos].opcode = "Write"
  /\ packets[pos].address = address
  /\ packets[pos].data # <<>>

Word == packets[pos].data[1]

\* A packet that is not a write, that has no data ("continue"; an FDRI packet
\* aside) or that goes to a register InitWithPackets does not follow.
Skip ==
  /\ pos <= Len(packets)
  /\ \/ packets[pos].opcode # "Write"
     \/ packets[pos].data = <<>> /\ packets[pos].address # "FDRI"
     \/ packets[pos].address \notin {"MASK", "CTL1", "CMD", "IDCODE", "FAR", "FDRI"}
  /\ pos' = pos + 1
  /\ UNCHANGED <<packets, registers, writing, read, result>>

WriteMask ==
  /\ At("MASK")
  /\ mask' = Word
  /\ pos' = pos + 1
  /\ UNCHANGED <<packets, command, far, ctl1, writing, read, result>>

WriteCtl1 ==
  /\ At("CTL1")
  /\ ctl1' = IF mask = 1 THEN Word ELSE 0
  /\ pos' = pos + 1
  /\ UNCHANGED <<packets, command, far, mask, writing, read, result>>

\* WCFG sets a flag for the next FDRI packet.
WriteCmd ==
  /\ At("CMD")
  /\ command' = Word
  /\ start_new_write' = (Word = "WCFG" \/ start_new_write)
  /\ pos' = pos + 1
  /\ UNCHANGED <<packets, far, mask, ctl1, current_frame_address, fdri, ii,
                 read, result>>

\* return {} if the bitstream is for another part.
WriteIdcode ==
  /\ At("IDCODE")
  /\ pos' = IF Word = Idcode THEN pos + 1 ELSE Len(packets) + 2
  /\ UNCHANGED <<packets, registers, writing, read, result>>

\* A new address executes the command again, unless bit 21 of CTL1 is set.
WriteFar ==
  /\ At("FAR")
  /\ far' = Word
  /\ start_new_write' = ((ctl1 = 0 /\ command = "WCFG") \/ start_new_write)
  /\ pos' = pos + 1
  /\ UNCHANGED <<packets, command, mask, ctl1, current_frame_address, fdri, ii,
                 read, result>>

\* Faulty form of StartFdri: every packet goes on where the last one ended.
StartFdriGoesOn ==
  /\ pos <= Len(packets)
  /\ packets[pos].opcode = "Write" /\ packets[pos].address = "FDRI"
  /\ ~ fdri
  /\ fdri' = TRUE /\ ii' = 0
  /\ UNCHANGED <<packets, pos, registers, start_new_write, current_frame_address,
                 read, result>>

\* An FDRI packet: the first after the flag was set starts at the address in
\* the register, any other goes on where the one before it ended.
StartFdri ==
  /\ pos <= Len(packets)
  /\ packets[pos].opcode = "Write" /\ packets[pos].address = "FDRI"
  /\ ~ fdri
  /\ current_frame_address' = IF start_new_write THEN far ELSE current_frame_address
  /\ start_new_write' = FALSE
  /\ fdri' = TRUE /\ ii' = 0
  /\ UNCHANGED <<packets, pos, registers, read, result>>

\* Faulty form of FdriFrame: the padding is taken for frames.
FdriFrameNoPadding ==
  /\ fdri
  /\ ii < Len(packets[pos].data)
  /\ read' = [a \in DOMAIN read \cup {current_frame_address} |->
                IF a = current_frame_address THEN packets[pos].data[ii + 1]
                ELSE read[a]]
  /\ IF GetNextFrameAddress(part, current_frame_address) = {}
     THEN /\ fdri' = FALSE /\ pos' = pos + 1
          /\ UNCHANGED <<ii, current_frame_address>>
     ELSE /\ current_frame_address' \in
               GetNextFrameAddress(part, current_frame_address)
          /\ ii' = ii + 1
          /\ UNCHANGED <<fdri, pos>>
  /\ UNCHANGED <<packets, registers, start_new_write, result>>

\* One turn of the loop over the data: collect a frame, go to the next address
\* and pass over the padding, or give up the rest of the packet if there is no
\* next address.
FdriFrame ==
  /\ fdri
  /\ ii < Len(packets[pos].data)
  /\ read' = [a \in DOMAIN read \cup {current_frame_address} |->
                IF a = current_frame_address THEN packets[pos].data[ii + 1]
                ELSE read[a]]
  /\ IF GetNextFrameAddress(part, current_frame_address) = {}
     THEN /\ fdri' = FALSE /\ pos' = pos + 1
          /\ UNCHANGED <<ii, current_frame_address>>
     ELSE /\ current_frame_address' \in
               GetNextFrameAddress(part, current_frame_address)
          /\ ii' = ii + 1 + (IF RowChanges(part, current_frame_address) THEN 2 ELSE 0)
          /\ UNCHANGED <<fdri, pos>>
  /\ UNCHANGED <<packets, registers, start_new_write, result>>

\* The data of the packet are used up.
EndFdri ==
  /\ fdri
  /\ ii >= Len(packets[pos].data)
  /\ fdri' = FALSE /\ pos' = pos + 1
  /\ UNCHANGED <<packets, registers, start_new_write, current_frame_address, ii,
                 read, result>>

\* return Configuration(part, frames).
Return ==
  /\ pos = Len(packets) + 1
  /\ result = "none"
  /\ result' = "some"
  /\ UNCHANGED <<packets, pos, registers, writing, read>>

ReaderNext ==
  \/ Skip \/ WriteMask \/ WriteCtl1 \/ WriteCmd \/ WriteIdcode \/ WriteFar
  \/ StartFdri \/ FdriFrame \/ EndFdri \/ Return

ReaderTypeOK ==
  /\ pos \in Nat /\ ii \in Nat
  /\ mask \in {0, 1} /\ ctl1 \in {0, 1}
  /\ start_new_write \in BOOLEAN /\ fdri \in BOOLEAN
  /\ far \in Addresses \cup {LastAddress}
  /\ current_frame_address \in Addresses \cup {LastAddress}
  /\ DOMAIN read \subseteq Addresses \cup {LastAddress}
  /\ \A a \in DOMAIN read : read[a] \in FrameData
  /\ result \in {"none", "some"}
=============================================================================
