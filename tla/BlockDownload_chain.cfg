SPECIFICATION FairSpec
CONSTANTS
  Heights <- TwoBlocks
  Hashes <- TwoBlocks
  HeightOf <- HeightOfTwo
  Peers = {1, 2}
  Prompt = {1}
  NoRequest = NoRequest
  MAX_PER_PEER = 3
  MAX_TOTAL = 3
  InitHeader = 1
  PerPeer = 1
  AsyncLag = 1
  MaxQueue = 1
  QueueStop = 1
  NearTip = 1
  MaxTimeouts = 1
  MaxFutile = 2
  MaxStalls = 1
  MaxDisconnects = 1
  MaxExpiries = 1
  MaxRefusals = 1
INVARIANTS
  TypeOK
  TrackerInv
  PeerLimit
  HeldOnDisk
  CompletedIsHeld
PROPERTY
  CatchesUp
CHECK_DEADLOCK FALSE
