----------------------------- MODULE Frames2Bit -----------------------------
(***************************************************************************)
(* tools/xc7frames2bit.cc, from the frames read from a file to the packets *)
(* of the bitstream, and InitWithPackets, with which bitread and xc7patch  *)
(* read that bitstream back: addMissingFrames completes the frames,        *)
(* createType2ConfigurationPacketData puts them in a row, one after the    *)
(* other, and createConfigurationPackage wraps them up.  No address goes   *)
(* with a frame: where it belongs depends on its place in the row alone.   *)
(***************************************************************************)
EXTENDS Configuration

VARIABLES pc,          \* "fill", "copy" or "read"
          frame,       \* the iterator over frames, empty at its end
          packet_data  \* the data of the FDRI packet so far

tool == <<part, file, frames, current, pc, frame, packet_data>>
allVars == <<tool, readerVars>>

ToolInit ==
  /\ Init
  /\ pc = "fill" /\ frame = {} /\ packet_data = <<>>
  /\ packets = <<>>
  /\ ReaderInit

\* Begin and ++ of the iterator over a map with the keys S.
First(S) == {a \in S : \A b \in S : a = b \/ Before(a, b)}
After(S, a) == First({b \in S : Before(a, b)})

\* addMissingFrames; its end is the start of the copy.
Fill(a) ==
  /\ pc = "fill"
  /\ AddMissingFrame(a)
  /\ UNCHANGED <<pc, frame, packet_data, readerVars>>

StartCopy ==
  /\ pc = "fill"
  /\ current = {}
  /\ pc' = "copy"
  /\ frame' = First(DOMAIN frames)
  /\ UNCHANGED <<part, file, frames, current, packet_data, readerVars>>

\* createType2ConfigurationPacketData: one frame, and padding if the address
\* after it in the part is in another row.
CopyFrame(a) ==
  /\ pc = "copy"
  /\ frame = {a}
  /\ packet_data' = Append(packet_data, frames[a])
                      \o (IF RowChanges(part, a) THEN Padding ELSE <<>>)
  /\ frame' = After(DOMAIN frames, a)
  /\ UNCHANGED <<part, file, frames, current, pc, readerVars>>

\* Padding after the last frame; then the package is made and written.
WritePackage ==
  /\ pc = "copy"
  /\ frame = {}
  /\ packet_data' = packet_data \o Padding
  /\ packets' = ConfigurationPackage(packet_data')
  /\ pc' = "read"
  /\ UNCHANGED <<part, file, frames, current, frame, pos, registers, writing,
                 read, result>>

ReadBack ==
  /\ pc = "read"
  /\ ReaderNext
  /\ UNCHANGED tool

ToolNext ==
  \/ \E a \in current : Fill(a)
  \/ StartCopy
  \/ \E a \in frame : CopyFrame(a)
  \/ WritePackage
  \/ ReadBack

ToolSpec == ToolInit /\ [][ToolNext]_allVars /\ WF_allVars(ToolNext)
-----------------------------------------------------------------------------
\* Type invariant.
ToolTypeOK ==
  /\ TypeOK
  /\ ReaderTypeOK
  /\ pc \in {"fill", "copy", "read"}
  /\ frame \subseteq DOMAIN frames
  /\ \A a, b \in frame : a = b
  /\ packet_data \in Seq(FrameData)

\* The order of the map of frames and the order of the part are one: what the
\* code relies on when it puts the frames in a row without their addresses.
InStep(p, S) == /\ First(S) = {Zero}
                /\ \A a \in S : GetNextFrameAddress(p, a) = After(S, a)

\* They are one as far as the frame at a.
InStepTo(p, S, a) ==
  /\ First(S) = {Zero}
  /\ \A b \in S : Before(b, a) => GetNextFrameAddress(p, b) = After(S, b)

\* Reading the bitstream back gives each frame at its address up to the first
\* one that the part does not have or that lacks, and no frame elsewhere if the
\* two orders are one.
RoundTrip ==
  (result = "some" /\ packet_data # <<>>) =>
    /\ \A a \in DOMAIN frames :
         InStepTo(part, DOMAIN frames, a) => a \in DOMAIN read /\ read[a] = frames[a]
    /\ InStep(part, DOMAIN frames) => DOMAIN read = DOMAIN frames

\* They are for every part without gaps and every file that has only frames of
\* the part.
FilledInStep ==
  (pc # "fill" /\ WellFormed(part) /\ file \subseteq ValidAddresses(part))
    => InStep(part, DOMAIN frames)
=============================================================================
