SPECIFICATION MonitorSpec
CONSTANTS
  Genesis <- IMGenesis
  Blocks <- IMBlocks
  Parent <- IMParent
  Anc <- IMAnc
  Height <- IMHeight
  ChainWork <- IMChainWork
  Creates <- IMCreates
  Spends <- IMSpends
  UtxoAt <- IMUtxoAt
  VdfOutput <- IMVdfOutput
  Checkpoints <- None
  ContextValid <- IMAllButB2
  DfmpValid <- IMAllBlocks
  MaxReorgDepth = 2
  BatchSize = 1
  RewindHeights = {}
  UtxoFailureThreshold = 1
  UndoFailureThreshold = 1
  FaultKinds = {}
  MaxFaults = 0
  MaxCrashes = 0
  WindowBlocks = 2
  MaxLostRecords = 0
PROPERTIES
  NoFalseAlarm
CHECK_DEADLOCK FALSE
