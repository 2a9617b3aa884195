SPECIFICATION FairSpec
CONSTANTS
  r1 = r1
  w1 = w1
  w2 = w2
  Readers = {r1}
  Writers = {w1, w2}
  Old = Old
  Nobody = Nobody
  Chunks <- MCChunks
  Serial = TRUE
INVARIANT SerialReadIsPrefix
INVARIANT SerialFileIsWhole
PROPERTY WaitEnds
CHECK_DEADLOCK FALSE
