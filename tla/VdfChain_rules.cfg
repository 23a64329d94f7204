SPECIFICATION Spec
CONSTANTS
  Miks = {1, 2, 3}
  MaxHeight = 6
  ActiveWindow = 4
  MIN_COOLDOWN = 1
  MAX_COOLDOWN = 3
  TargetBlockTime = 1
  ExpiryRetiredHeight = 4
  TimeDecayHeight = 5
  DecaySeconds = 2
  Blocks <- MCBlocks
  GenesisTime = 1
  AssumeValidHeight = 1
  MaxConsecutive = 2
  SoloGateHeight = 5
  BootstrapMiners = 2
  StallRetiredHeight = 4
  StallThreshold = 3
  CapWindow = 5
  CapFloor = 2
  LivenessTimeout = 2
  MaxLeaks = 1
INVARIANTS
  LifetimeIsChains
  VerdictIsChains
  ExcludingIsDisconnecting
  PreflightSuffices
