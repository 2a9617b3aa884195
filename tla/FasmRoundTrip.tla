---------------------------- MODULE FasmRoundTrip -----------------------------
(***************************************************************************)
(* fasm2frames and bit2fasm one after the other: the frames of a FASM file *)
(* come back, through xc7frames2bit and bitread, as the bits that are set. *)
(* That part of the way is the subject of Frames2Bit; here the bits are    *)
(* handed on as they are.                                                  *)
(***************************************************************************)
EXTENDS FasmAssembler, FasmDisassembler

vars == <<asmVars, disVars>>

Init == AsmInit /\ DisInit

Assemble == AsmNext /\ UNCHANGED disVars

\* bits_to_fasm: load_bitdata of the bits of the image.
HandOver == state = "done" /\ pc = "load" /\ Load(image.ones) /\ UNCHANGED asmVars

Disassemble == DisStep /\ UNCHANGED asmVars

Next == Assemble \/ HandOver \/ Disassemble

Spec == Init /\ [][Next]_vars /\ WF_vars(HandOver) /\ WF_vars(Disassemble)
-----------------------------------------------------------------------------
\* The words of a segment are words of a frame.
InFrames(s) == TileBits[s[1]][s[2]].offset + TileBits[s[1]][s[2]].words <= FrameWords

\* A feature that a line has enabled and that sets a bit is found again, no
\* matter which lines it was mixed with and in which order the disassembler
\* takes the frames and tiles; a feature without a set bit need not be found.
EnabledComesBack ==
  (SegbitsFit /\ state = "done" /\ pc = "done") =>
    \A line \in enabled : \A e \in LineFound(line) :
      (InFrames(e[1]) /\ Ones(e[1], e[2]) # {}) => e \in emitted

\* No bit of a bitstream made from FASM is reported as not converted.
NothingUnknown ==
  (SegbitsFit /\ state = "done" /\ pc = "done"
     /\ \A line \in enabled : \A e \in LineFound(line) : InFrames(e[1])) => unknown = {}

\* What fasm2frames has written bit2fasm reads to the end.
RoundTripEnds == state = "done" ~> pc = "done"
=============================================================================
