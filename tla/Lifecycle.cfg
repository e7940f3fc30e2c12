SPECIFICATION FairSpec
CONSTANTS
    Goroutines = {g1, g2, g3}
    Samplers = {g1, g2}
    MaxDepth = 2
    IndexMod = 3
    MaxPassed = 4
INVARIANTS
    HeldKeepsResources
    OpsIsExact
PROPERTIES
    CloseFinishes
    StatsReportTrueCount
\* Once closed, every method is inert: goroutines are done.
CHECK_DEADLOCK FALSE
