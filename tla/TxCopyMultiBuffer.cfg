\* Packets of two frames in copy mode.
SPECIFICATION FairSpec
CONSTANTS
    TxFrames = 5
    TxRingNumDescs = 4
    CompletionRingNumDescs = 2
    MaxTxSegs = 3
    MaxCount = 3
    KickBudget = 2
    Bindings <- CopyMultiBuffer
PROPERTY
    SendingProgresses
\* The application may stop for good.
CHECK_DEADLOCK FALSE
