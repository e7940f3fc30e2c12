\* One goroutine forwards in place: rx frames are transmitted and routed home.
SPECIFICATION Spec
CONSTANTS
    NumFrames = 4
    TxFrames = 1
    FillRingNumDescs = 2
    RxRingNumDescs = 2
    TxRingNumDescs = 2
    CompletionRingNumDescs = 2
    TxReuseRxFrames = TRUE
    Headroom = 1
    MaxCount = 3
INVARIANTS
    IInv
    RegionsKept
    PoolsHoldBases
PROPERTY
    ImplementsOwnership
