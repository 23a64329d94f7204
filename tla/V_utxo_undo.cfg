SPECIFICATION Spec
CONSTANTS
  Genesis <- UGenesis
  Blocks <- SBlocks
  Parent <- SParent
  Height <- SHeight
  Anc <- SAnc
  Txs <- STxs
  Ins <- UIns
  Outs <- UOuts
  MaxCacheSize = 4
  MaxCount = 5
  MaxFaults = 0
  MaxCrashes = 0
PROPERTIES
  UndoReverses
CHECK_DEADLOCK FALSE
