CONSTANTS
    RBufs = {rb}
    WBufs = {wb}
    NBlocks = 8
    BlkLen = 2
    PoolThreshold = 1
    MaxBytes = 3
SPECIFICATION Spec
INVARIANTS OwnBytesInOrder BlocksOwnedOnce AvalCounts RBufComplete
