SPECIFICATION Spec
CONSTANTS
  Grid <- MCGrid
  SiteKey <- MCSiteKey
  Ignored <- MCIgnored
  Designs <- MCDesigns
  Batches <- MCBatches
  MatchArgs <- MCMatchArgs
  ZeroDb <- MCZeroDb
  TagGroups <- MCTagGroups
  SliceM <- MCSliceM
  InitialDbs <- MCInitialDbs
  Truth <- MCTruth
  MaxIter = 1
  Pips <- MCPips
  Filtered <- MCFiltered
  CheckArgs <- MCCheckArgs
  Retries = {0, 1}
  MaxCalls = 2
INVARIANT OkIsPushed
INVARIANT SuccessIsReal
INVARIANT OkIsComplete
INVARIANT EntriesCoverTruth
INVARIANT EntriesExplainData
INVARIANT ChoicesExclude
PROPERTY PushAgainAddsNothing
PROPERTY CallsEnd
CHECK_DEADLOCK FALSE
