SPECIFICATION Spec
CONSTANTS
    NumDescs = 4
    IndexMod = 8
    Descriptors = {d1, d2}
    MaxBatch = 5
INVARIANTS
    TypeOK
    ReadsOldest
PROPERTY
    ImplementsFifo
