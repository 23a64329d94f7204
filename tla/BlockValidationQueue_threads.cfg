SPECIFICATION FairSpec
CONSTANTS
    a = a
    b = b
    c = c
    NoBlock = NoBlock
    Blocks <- ThreeBlocks
    ParentOf <- Parents
    HeightOf <- BlockHeights
    Clients = {net, main}
    Worker = worker
    MAX_QUEUE_DEPTH = 1
INVARIANTS TypeOK DepthBounded NoPhantomHeight NoLostPush
PROPERTY QueuedIsTaken
CHECK_DEADLOCK FALSE
