SPECIFICATION PatchSpec
CONSTANTS
  NumRows = 2
  NumColumns = 2
  NumMinors = 2
  PartAddresses <- MCPartAddresses
  FileAddresses <- MCFileAddresses
  DeltaAddresses <- MCDeltaAddresses
  Idcode = Idcode
INVARIANT NoFrameMissing
INVARIANT RoundTrip
INVARIANT FilledInStep
INVARIANT PartComesBack
INVARIANT PatchedUpToGap
INVARIANT DebugReadsBack
PROPERTY PatchReturns
CHECK_DEADLOCK FALSE
