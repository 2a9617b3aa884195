\* The tilegrid of a device from the law of its family.
SPECIFICATION MCSpec
CONSTANTS
  Devices <- MCDevices
  Grid <- MCGrid
  Part <- MCPart
  Anchors <- MCAnchors
  HclkTypes <- MCHclkTypes
  HalfHeight <- MCHalfHeight
  Family <- MCFamily
  Astray <- MCAstray
  ReferenceLists <- MCReferenceLists
  Tilegrid <- MCTilegridOf
  Order <- MCOrder
  Interfaces <- MCInterfaces
  GtxInterfaces <- MCGtxInterfaces
  Silicon <- MCSilicon
  Solvable <- MCSolvable
  MaxFrames <- MCMaxFrames
  WordCount <- MCWordCount
  RebufAt <- MCRebufAt
  Y9Tiles <- MCY9Tiles
  Y9Offset = 6
  OwnSegbits <- MCOwnSegbits
  Lent <- MCLent
INVARIANT RulesDecide
INVARIANT SettledByVotes
INVARIANT LawRebuilds
INVARIANT PropagatesSilicon
INVARIANT HalvesStayHome
CHECK_DEADLOCK FALSE
