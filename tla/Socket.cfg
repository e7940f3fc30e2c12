\* Separate receive and transmit goroutines; the tx ring is smaller than the tx pool.
SPECIFICATION Spec
CONSTANTS
    NumFrames = 5
    TxFrames = 3
    FillRingNumDescs = 1
    RxRingNumDescs = 2
    TxRingNumDescs = 2
    CompletionRingNumDescs = 2
    TxReuseRxFrames = FALSE
    Headroom = 1
    MaxCount = 3
INVARIANTS
    TypeOK
    FramesUnique
    NoFrameLost
    RingsWithinCapacity
    FilledIsExact
    TransmittedIsExact
    AllocatedFits
    CountsCovered
