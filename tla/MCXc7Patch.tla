---------------------------- MODULE MCXc7Patch ------------------------------
(* Instance of Xc7Patch for TLC.                                             *)
EXTENDS Xc7Patch

\* Up to two rows, columns and minors, both halves and all block types: most of
\* the parts made of them have gaps.
MCPartAddresses ==
  { FrameAddress(CLB_IO_CLK, 0, 0, 0, 1), FrameAddress(CLB_IO_CLK, 0, 0, 1, 0),
    FrameAddress(CLB_IO_CLK, 0, 1, 0, 0), FrameAddress(CLB_IO_CLK, 1, 0, 0, 0),
    FrameAddress(BLOCK_RAM, 0, 0, 0, 0), FrameAddress(BLOCK_RAM, 1, 0, 0, 1),
    FrameAddress(CFG_CLB, 0, 0, 0, 0) }

\* Frames that the file may have, the last of which no part has.
MCFileAddresses ==
  { FrameAddress(CLB_IO_CLK, 0, 1, 0, 0), FrameAddress(CFG_CLB, 1, 1, 1, 1) }

\* A frame of most parts, and one at the end of some.
MCDeltaAddresses ==
  { FrameAddress(CLB_IO_CLK, 0, 0, 0, 1), FrameAddress(BLOCK_RAM, 0, 0, 0, 0) }
=============================================================================
