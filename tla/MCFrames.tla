------------------------------ MODULE MCFrames ------------------------------
(* Instance of Frames for TLC: a part with a gap.                            *)
EXTENDS Frames

\* Block RAM in rows 0 and 2 of a half and not in row 1.
MCGapAddresses ==
  { FrameAddress(CLB_IO_CLK, 0, 0, 0, 0), FrameAddress(CLB_IO_CLK, 0, 1, 0, 0),
    FrameAddress(BLOCK_RAM, 0, 0, 0, 0),  FrameAddress(BLOCK_RAM, 0, 2, 0, 0) }
=============================================================================
