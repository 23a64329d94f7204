SPECIFICATION Spec
CONSTANTS
  Genesis <- CSGenesis
  Blocks <- CSBlocks
  Parent <- CSParent
  Anc <- CSAnc
  Height <- CSHeight
  ChainWork <- CSChainWork
  Creates <- NoOutpoints
  Spends <- NoOutpoints
  UtxoAt <- NoOutpoints
  VdfOutput <- CSVdfOutput
  Address <- CSAddress
  Checkpoints <- CSCheckpoints
  Valid <- AllButA2
  HeaderFirst <- HeaderB1
  MaxReorgDepth = 1
  MaxFaults = 0
  MaxCalls = 0
INVARIANT LeafReadmitted
