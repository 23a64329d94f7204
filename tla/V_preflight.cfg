SPECIFICATION Spec
CONSTANTS
  Miks = {1, 2, 3}
  MaxHeight = 5
  ActiveWindow = 3
  MIN_COOLDOWN = 1
  MAX_COOLDOWN = 3
  TargetBlockTime = 1
  ExpiryRetiredHeight = 4
  TimeDecayHeight = 5
  DecaySeconds = 2
  Blocks <- MCBlocks
  GenesisTime = 1
  AssumeValidHeight = 1
  MaxConsecutive = 2
  SoloGateHeight = 4
  BootstrapMiners = 2
  StallRetiredHeight = 4
  StallThreshold = 3
  CapWindow = 4
  CapFloor = 2
  LivenessTimeout = 2
  MaxLeaks = 0
INVARIANT
  PreflightMirrorsConnect
