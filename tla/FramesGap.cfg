SPECIFICATION Spec
CONSTANTS
  NumRows = 3
  NumColumns = 1
  NumMinors = 1
  PartAddresses <- MCGapAddresses
  FileAddresses = {}
INVARIANT RegionNextIsNext
CHECK_DEADLOCK FALSE
