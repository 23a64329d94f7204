SPECIFICATION Spec
CONSTANTS
  Genesis <- MCGenesis
  Blocks <- MCBlocks
  Parent <- MCParent
  Anc <- MCAnc
  Height <- MCHeight
  ChainWork <- MCChainWork
  Creates <- MCCreates
  Spends <- MCSpends
  UtxoAt <- MCUtxoAt
  VdfOutput <- MCVdfOutput
  Checkpoints <- GenesisAndB3
  ContextValid <- AllBlocks
  DfmpValid <- AllBlocks
  MaxReorgDepth = 2
  BatchSize = 1
  RewindHeights = {0}
  UtxoFailureThreshold = 3
  UndoFailureThreshold = 3
  FaultKinds = {}
  MaxFaults = 0
  MaxCrashes = 0
PROPERTIES
  RewindKeepsCheckpoints
CHECK_DEADLOCK FALSE
