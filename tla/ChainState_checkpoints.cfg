SPECIFICATION FairSpec
CONSTANTS
  Genesis <- CPGenesis
  Blocks <- CPBlocks
  Parent <- CPParent
  Anc <- CPAnc
  Height <- CPHeight
  ChainWork <- CPChainWork
  Creates <- CPCreates
  Spends <- CPSpends
  UtxoAt <- CPUtxoAt
  VdfOutput <- CPVdfOutput
  Checkpoints <- CPCheckpoints
  ContextValid <- CPAllButB4
  DfmpValid <- CPAllButB2
  MaxReorgDepth = 1
  BatchSize = 1
  RewindHeights = {}
  UtxoFailureThreshold = 2
  UndoFailureThreshold = 2
  FaultKinds = {"apply", "undo", "read"}
  MaxFaults = 2
  MaxCrashes = 0
INVARIANTS
  CheckpointsHeld
PROPERTIES
  ReorgBounded
  ActivationEnds
  RebuildHeals
CHECK_DEADLOCK FALSE
