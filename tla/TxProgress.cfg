\* A pool larger than the tx ring, a completion ring smaller than it.
SPECIFICATION FairSpec
CONSTANTS
    TxFrames = 5
    TxRingNumDescs = 4
    CompletionRingNumDescs = 2
    MaxTxSegs = 3
    MaxCount = 3
    KickBudget = 2
    Bindings <- SingleOrZeroCopy
INVARIANT
    ChainsWhole
PROPERTIES
    SendingProgresses
    KickReturns
    QueuedIsSent
\* The application may stop for good.
CHECK_DEADLOCK FALSE
