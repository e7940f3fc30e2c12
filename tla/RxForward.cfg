\* The forwarder that blocks in Poll, bound with need-wakeup.
SPECIFICATION FairSpec
CONSTANTS
    RxFrames = 4
    FillRingNumDescs = 2
    RxRingNumDescs = 2
    TxSlots = 4
    MaxFragments = 3
    PacketMod = 3
    Bindings <- PollingForwarder
PROPERTY
    RxKeepsFlowing
