SPECIFICATION Spec
CONSTANTS
  Streams <- MCStreams
  HeaderWords = 2
  Limit1 = 2
  Limit2 = 4
INVARIANT NothingSkipped
PROPERTY CarriesPackets
CHECK_DEADLOCK FALSE
