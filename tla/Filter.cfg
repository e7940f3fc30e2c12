\* Nineteen filters over IPv4, IPv6 and ARP packets, tagged and cut short.
SPECIFICATION Spec
CONSTANTS
    Filters <- MCFilters
    Packets <- MCPackets
    WordBits = 2
    MaxLocals = 2
INVARIANTS
    VerdictIsIntended
    ManagementKept
    LoadsInBounds
\* It ends with the verdict, or with an Open that refused its filter.
CHECK_DEADLOCK FALSE
