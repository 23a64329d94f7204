SPECIFICATION FairSpec
CONSTANTS
  Heights <- ThreeBlocks
  Hashes <- ThreeBlocks
  HeightOf <- HeightOfThree
  Peers = {1}
  Prompt = {1}
  NoRequest = NoRequest
  MAX_PER_PEER = 3
  MAX_TOTAL = 3
  InitHeader = 3
  PerPeer = 3
  AsyncLag = 1
  MaxQueue = 1
  QueueStop = 1
  NearTip = 1
  MaxTimeouts = 1
  MaxFutile = 2
  MaxStalls = 1
  MaxDisconnects = 0
  MaxExpiries = 1
  MaxRefusals = 1
INVARIANTS
  TypeOK
  TrackerInv
  PeerLimit
  HeldOnDisk
  CompletedIsHeld
PROPERTY
  CatchesUp
CHECK_DEADLOCK FALSE
