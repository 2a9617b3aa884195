------------------------------ MODULE Xc7Patch ------------------------------
(***************************************************************************)
(* The tools that take a bitstream apart again.  xc7patch.cc reads one,    *)
(* overwrites some of its frames with those of a frames file and writes a  *)
(* new one; gen_part_base_yaml.cc finds the addresses of a part in one.    *)
(*                                                                         *)
(* The bitstream is the one that xc7frames2bit made, or one made with      *)
(* DEBUGBITSTREAM, that writes one frame at a time and need not have them  *)
(* all.  xc7patch, unlike xc7frames2bit, does not add those that lack: it  *)
(* relies on the frames of the bitstream being all the frames there are.   *)
(***************************************************************************)
EXTENDS Frames2Bit

CONSTANT DeltaAddresses  \* of the frames that frm_file may have

ASSUME DeltaAssumption == DeltaAddresses \subseteq Addresses

VARIABLES stage,        \* "make", "patch" or "failed"
          delta,        \* the addresses of the frames in frm_file
          base,         \* the frames of the bitstream that is patched
          patched,      \* the frames of xc7patch
          patch_frame,  \* its iterator over them, ...
          patch_data    \* ... and the data of its FDRI packet so far

\* xc7patch writes its frames with the code of xc7frames2bit.
P == INSTANCE Frames2Bit WITH
       frames <- patched, frame <- patch_frame, packet_data <- patch_data

writer == <<patched, patch_frame, patch_data>>
patchVars == <<allVars, stage, delta, base, writer>>

PatchInit ==
  /\ ToolInit
  /\ stage = "make" /\ delta = {} /\ base = <<>>
  /\ patched = <<>> /\ patch_frame = {} /\ patch_data = <<>>

\* The data that a frames file has for an address: not those of the base.
NewData(a) == <<a, a>>

\* The packets of a debug bitstream with the frames f in the order of keys:
\* each frame is written to its own address and followed by a write of the
\* address to LOUT, which does nothing.
FramePackets(a, data) ==
  << Packet("FAR", <<a>>), Packet("CMD", <<"WCFG">>), Packet("FDRI", <<data>>),
     Packet("LOUT", <<a>>) >>

Make ==
  /\ stage = "make" /\ pc \in {"fill", "copy", "read"} /\ ToolNext
  /\ UNCHANGED <<stage, delta, base, writer>>

\* A debug bitstream instead, with all frames or with those of the file alone.
LoadDebug ==
  /\ stage = "make" /\ pc = "copy" /\ packet_data = <<>>
  /\ frame = First(DOMAIN frames)
  /\ \E keys \in {DOMAIN frames, file \cup {Zero}} :
       /\ base' = [a \in keys |-> frames[a]]
       /\ packets' = <<Packet("IDCODE", <<Idcode>>)>>
       /\ frame' = First(keys)
  /\ pc' = "debug"
  /\ UNCHANGED <<part, file, frames, current, packet_data, pos, registers, writing, read,
                 result, stage, delta, writer>>

\* One frame after the other.
DebugFrame(a) ==
  /\ pc = "debug" /\ frame = {a}
  /\ packets' = packets \o FramePackets(a, base[a])
  /\ frame' = After(DOMAIN base, a)
  /\ pc' = IF frame' = {} THEN "read" ELSE pc
  /\ UNCHANGED <<part, file, frames, current, packet_data, pos, registers, writing, read,
                 result, stage, delta, base, writer>>

\* Another run of InitWithPackets.
ReaderRestart ==
  /\ pos' = 1
  /\ command' = "NULL" /\ far' = Zero /\ mask' = 0 /\ ctl1' = 0
  /\ start_new_write' = FALSE /\ current_frame_address' = Zero
  /\ fdri' = FALSE /\ ii' = 0
  /\ read' = <<>>
  /\ result' = "none"

\* Faulty form of PatchFrames: a frame the bitstream does not have is added.
PatchFramesInserts ==
  /\ stage = "make" /\ result = "some"
  /\ base' = read
  /\ delta' \in SUBSET DeltaAddresses
  /\ stage' = "patch"
  /\ patched' = [a \in DOMAIN read \cup delta' |->
                   IF a \in delta' THEN NewData(a) ELSE read[a]]
  /\ patch_frame' = First(DOMAIN patched')
  /\ pc' = "copy" /\ packet_data' = <<>> /\ packets' = <<>>
  /\ ReaderRestart
  /\ UNCHANGED <<part, file, frames, current, frame, patch_data>>

\* patch_frames: every frame of the file must be a frame of the bitstream,
\* whose data it replaces.  The first that is not ends the tool with 1.
PatchFrames ==
  /\ stage = "make" /\ result = "some"
  /\ base' = read
  /\ delta' \in SUBSET DeltaAddresses
  /\ IF delta' \subseteq DOMAIN read
     THEN /\ stage' = "patch"
          /\ patched' = [a \in DOMAIN read |->
                           IF a \in delta' THEN NewData(a) ELSE read[a]]
          /\ patch_frame' = First(DOMAIN patched')
          /\ pc' = "copy"
     ELSE /\ stage' = "failed"
          /\ UNCHANGED <<patched, patch_frame, pc>>
  /\ packet_data' = <<>> /\ packets' = <<>>
  /\ ReaderRestart
  /\ UNCHANGED <<part, file, frames, current, frame, patch_data>>

\* createType2ConfigurationPacketData, the package, and whoever reads it.
WritePatched ==
  /\ stage = "patch"
  /\ (\E a \in patch_frame : P!CopyFrame(a)) \/ P!WritePackage \/ P!ReadBack
  /\ UNCHANGED <<frames, frame, packet_data, stage, delta, base>>

PatchNext ==
  \/ Make \/ LoadDebug \/ (\E a \in frame : DebugFrame(a))
  \/ PatchFrames \/ WritePatched

PatchSpec == PatchInit /\ [][PatchNext]_patchVars /\ WF_patchVars(PatchNext)
-----------------------------------------------------------------------------
\* Faulty form of Louts: the write to FDRI is looked for behind the address.
LoutsBefore(s) ==
  {s[i].data[1] : i \in {j \in DOMAIN s :
     /\ s[j].address = "LOUT" /\ Len(s[j].data) = 1
     /\ \E f \in (j + 1) .. Len(s) : s[f].address = "FDRI"}}

\* gen_part_base_yaml without -f: of the packets behind a write to FDRI, the
\* next one-word write to LOUT has the address of the frame.
Louts(s) ==
  {s[i].data[1] : i \in {j \in DOMAIN s :
     /\ s[j].address = "LOUT" /\ Len(s[j].data) = 1
     /\ \E f \in 1 .. (j - 1) : /\ s[f].address = "FDRI"
                                /\ \A k \in (f + 1) .. (j - 1) : s[k].address # "LOUT"}}

Debug == stage = "make" /\ packet_data = <<>> /\ base # <<>>

\* The part found in a debug bitstream is the part whose frames are in it, if
\* they all are; a frame less at the end of a column is a frame less for good.
PartComesBack ==
  (pc = "read" /\ Debug /\ DOMAIN base = ValidAddresses(part)) =>
    PartOf(Louts(packets)) = part

\* Whatever frames a bitstream has, patching it keeps every frame up to the
\* first that lacks, with its data or the new data, at its address; from there
\* on frames move to the addresses of others.
PatchedUpToGap ==
  (stage = "patch" /\ result = "some") =>
    \A a \in DOMAIN base :
      InStepTo(part, DOMAIN base, a) =>
        /\ a \in DOMAIN read
        /\ read[a] = IF a \in delta THEN NewData(a) ELSE base[a]

\* A debug bitstream, too, reads back as it was made: no frame depends on the
\* frames around it.
DebugReadsBack == (Debug /\ result = "some") => read = base

\* xc7patch always ends: with a bitstream that was read back, or with 1.
PatchReturns == <>(stage = "failed" \/ (stage = "patch" /\ result = "some"))
=============================================================================
