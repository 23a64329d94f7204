SPECIFICATION Spec
CONSTANTS
  Genesis <- UGenesis
  Blocks <- UBlocks
  Parent <- UParent
  Height <- UHeight
  Anc <- UAnc
  Txs <- UTxs
  Ins <- UIns
  Outs <- UOuts
  MaxCacheSize = 4
  MaxCount = 5
  MaxFaults = 0
  MaxCrashes = 0
INVARIANTS
  GetUTXOIsTrue
CHECK_DEADLOCK FALSE
