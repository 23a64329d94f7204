SPECIFICATION Spec
CONSTANTS
    Txs <- MCTxs
    Outpoints = {"coin1", "coin2", "out3"}
    Inputs <- MCInputs
    Creator <- MCCreator
    NoTx = 0
    Size <- MCUnitSize
    PaysFee = {1, 3, 4}
    MAX_MEMPOOL_COUNT = 2
    MAX_MEMPOOL_SIZE = 2
    Rate <- MCRate
    Blocks <- MCBlocks
    MaxAccepting = 1
    MaxHeight = 2
    MaxDisconnects = 2
    MaxRestarts = 0
PROPERTIES NeverOrphans
CHECK_DEADLOCK FALSE
