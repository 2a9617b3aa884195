SPECIFICATION ToolSpec
CONSTANTS
  Tiles <- MCTiles
  TileBits <- MCTileBits
  Segbits <- MCSegbits
  Ppips <- MCPpips
  FrameWords = 3
  Lines <- MCLines
  AllowMissing = FALSE
  Bitstreams <- MCBitstreams
  Rows <- MCRows
  GridOrder <- MCGridOrder
  PrefixY <- MCPrefixY
  Iob33 = {"IOB1", "IOB2", "IOB2package"}
  Hp = {"IOB18"}
  Hclk = {"HCLK"}
  ObufColumn = {"IOB18"}
  GfanColumn = {"INT"}
  Mirror <- MCMirror
  CascadeTile = "INT"
  RoiTiles = {"BRAM"}
  EmitArgs = {TRUE}
  PudcSites <- MCPudcSites
  FileLines <- MCFileLines
  MaxLines = 2
INVARIANT ImageIsUnion
INVARIANT ConflictIsReal
INVARIANT TilesAreWhole
INVARIANT DecodedIsMatch
INVARIANT UnknownIsExact
INVARIANT EnabledComesBack
INVARIANT NothingUnknown
INVARIANT BankStepsDown
INVARIANT AddedAgrees
INVARIANT PudcIsPulled
PROPERTY RoundTripEnds
CHECK_DEADLOCK FALSE
