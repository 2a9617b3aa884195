------------------------------- MODULE Frames -------------------------------
(***************************************************************************)
(* Frames<Series7>::addMissingFrames, lib/include/prjxray/xilinx/frames.h: *)
(* xc7frames2bit completes the frames it has read from a file with empty   *)
(* frames, walking the part from address 0 with GetNextFrameAddress.       *)
(***************************************************************************)
EXTENDS Part

CONSTANTS PartAddresses,  \* addresses of which a part may be made
          FileAddresses   \* addresses that may be in the frames file

ASSUME FramesAssumption ==
  PartAddresses \subseteq Addresses /\ FileAddresses \subseteq Addresses

VARIABLES part,     \* the part, which nothing changes
          file,     \* addresses of the frames that readFrames found
          frames,   \* frames_data_: the data of each frame
          current   \* current_frame_address, empty when the walk has ended

vars == <<part, file, frames, current>>

Zero == FrameAddress(CLB_IO_CLK, 0, 0, 0, 0)

\* The data of a frame: what the file has for an address, or zero words.
Data(a) == <<a>>
Empty == <<>>
FrameData == {Data(a) : a \in Addresses} \cup {Empty}

Init ==
  /\ \E known \in SUBSET PartAddresses : part = PartOf(known)
  /\ file \in SUBSET FileAddresses
  /\ frames = [a \in file |-> Data(a)]
  /\ current = {Zero}

-----------------------------------------------------------------------------
(* Faulty forms of AddMissingFrame.                                          *)

\* "while (current_frame_address && iter == end)": the walk ends at the first
\* frame of the file.
AddMissingFrameStops(a) ==
  /\ current = {a}
  /\ frames' = IF a \in DOMAIN frames THEN frames
               ELSE [b \in DOMAIN frames \cup {a} |->
                       IF b = a THEN Empty ELSE frames[b]]
  /\ current' = IF a \in DOMAIN frames THEN {} ELSE GetNextFrameAddress(part, a)
  /\ UNCHANGED <<part, file>>
-----------------------------------------------------------------------------
\* One turn of the do loop: insert an empty frame if there is none, go on.
AddMissingFrame(a) ==
  /\ current = {a}
  /\ frames' = IF a \in DOMAIN frames THEN frames
               ELSE [b \in DOMAIN frames \cup {a} |->
                       IF b = a THEN Empty ELSE frames[b]]
  /\ current' = GetNextFrameAddress(part, a)
  /\ UNCHANGED <<part, file>>

Next == \E a \in current : AddMissingFrame(a)

Spec == Init /\ [][Next]_vars /\ WF_vars(Next)
-----------------------------------------------------------------------------
\* Type invariant.
TypeOK ==
  /\ part \in Parts
  /\ DOMAIN frames \subseteq Addresses
  /\ \A a \in DOMAIN frames : frames[a] \in FrameData
  /\ current \subseteq Addresses
  /\ \A a, b \in current : a = b

\* In a part without gaps no frame is missing at the end: what is left to the
\* walk is exactly what lies ahead of it.
NoFrameMissing ==
  WellFormed(part) =>
    \A a \in ValidAddresses(part) :
      \/ a \in DOMAIN frames
      \/ \E b \in current : a = b \/ Before(b, a)

\* Where the walk stands: at its start or at an address of the part.
WalkStandsOnPart ==
  \A a \in current : a = Zero \/ IsValidFrameAddress(part, a)

\* No frame of the file is lost or overwritten, and apart from address 0 a
\* frame is added only where the part has one.
OnlyMissingAdded ==
  /\ \A a \in file : a \in DOMAIN frames /\ frames[a] = Data(a)
  /\ \A a \in DOMAIN frames \ file :
       frames[a] = Empty /\ (a = Zero \/ IsValidFrameAddress(part, a))

\* The walk only goes forward, so it visits no frame twice.
WalkGoesForward ==
  [][\A a \in current, b \in current' : Before(a, b)]_vars

\* The comment on GlobalClockRegion::GetNextFrameAddress, for the addresses
\* the walk passes.
RegionNextIsNext ==
  \A a \in current : IsValidFrameAddress(part, a)
                       => RegionNext(part, a) = NextInRegion(part, a)
=============================================================================
