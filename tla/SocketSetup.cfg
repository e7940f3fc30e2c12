SPECIFICATION Spec
CONSTANTS
    RawFrames <- MCRawFrames
    RawTxFrames = {0, 64, 128, 4096}
    RawRings = {0, 3, 64}
    RawFlags <- MCRawFlags
    OptionLists <- MCOptionLists
    Drivers = {"ena", "other"}
INVARIANTS
    AcceptedIsSound
    OptionsHonoured
    FailureLeaksNothing
    CompleteBeforeBind
\* NewSocket returns.
CHECK_DEADLOCK FALSE
