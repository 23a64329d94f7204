SPECIFICATION Spec
CONSTANTS
  Genesis <- UGenesis
  Blocks <- UBlocks
  Parent <- UParent
  Height <- UHeight
  Anc <- UAnc
  Txs <- UTxs
  Ins <- UIns
  Outs <- UOuts
  MaxCacheSize = 4
  MaxCount = 5
  MaxFaults = 1
  MaxCrashes = 1
INVARIANTS
  TypeOK
  DatabaseIsChains
  CacheAgrees
  CountAgrees
PROPERTIES
  ImplementsLedger
CHECK_DEADLOCK FALSE
