SPECIFICATION ReindexSpec
CONSTANTS
  Genesis <- MCGenesis
  Blocks <- MCBlocks
  Parent <- MCParent
  Anc <- MCAnc
  Height <- MCHeight
  ChainWork <- MCChainWork
  Creates <- MCCreates
  Spends <- MCSpends
  UtxoAt <- MCUtxoAt
  VdfOutput <- MCVdfOutput
  Checkpoints <- GenesisOnly
  ContextValid <- AllButB3
  DfmpValid <- AllBlocks
  MaxReorgDepth = 2
  BatchSize = 1
  RewindHeights = {}
  UtxoFailureThreshold = 3
  UndoFailureThreshold = 3
  FaultKinds = {}
  MaxFaults = 0
  MaxCrashes = 1
PROPERTIES
  ReindexRecovers
CHECK_DEADLOCK FALSE
