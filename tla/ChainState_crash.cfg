SPECIFICATION Spec
CONSTANTS
  Genesis <- MCGenesis
  Blocks <- MCBlocks
  Parent <- MCParent
  Anc <- MCAnc
  Height <- MCHeight
  ChainWork <- MCChainWork
  Creates <- MCCreates
  Spends <- MCSpends
  UtxoAt <- MCUtxoAt
  VdfOutput <- MCVdfOutput
  Checkpoints <- GenesisOnly
  ContextValid <- AllButB3
  DfmpValid <- AllButB2
  MaxReorgDepth = 3
  BatchSize = 1
  RewindHeights = {0}
  UtxoFailureThreshold = 2
  UndoFailureThreshold = 2
  FaultKinds <- AllFaults
  MaxFaults = 1
  MaxCrashes = 2
INVARIANTS
  Consistent
  WriteAhead
  TypeOK
  NoInvalidInChain
  StartupSeesUndone
PROPERTIES
  TipImproves
