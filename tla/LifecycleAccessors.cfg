SPECIFICATION Spec
CONSTANTS
    Goroutines = {g1, g2}
    Samplers = {}
    MaxDepth = 1
    IndexMod = 2
    MaxPassed = 0
INVARIANT
    AccessorsSafe
CHECK_DEADLOCK FALSE
