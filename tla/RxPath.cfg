\* Three loops over two-slot rings; the longest packet spans more than a ring.
SPECIFICATION FairSpec
CONSTANTS
    RxFrames = 4
    FillRingNumDescs = 2
    RxRingNumDescs = 2
    TxSlots = 4
    MaxFragments = 3
    PacketMod = 3
    Bindings <- DocumentedLoops
INVARIANTS
    TypeOK
    PacketsWhole
PROPERTY
    RxKeepsFlowing
