\* Two fleets of one process opening, closing and being forgotten on an interface.
SPECIFICATION FairSpec
CONSTANTS
    Fleets = {f1, f2}
    TotalQueues = 3
    WithQueues = 2
    Mode = "auto"
    AutoTune = TRUE
    TxOnly = {{}, {f2}}
    LinkSupport = {TRUE, FALSE}
    Stable = 3
    MaxBounces <- MCMaxBounces
INVARIANTS
    TypeOK
    UpDelivers
    DropsOnlyAfterFailure
    NothingLeftBehind
    TunedWhileHeld
    LinkUpIsSettled
PROPERTIES
    CallsReturn
\* A fleet that the application forgets stays up for good.
CHECK_DEADLOCK FALSE
