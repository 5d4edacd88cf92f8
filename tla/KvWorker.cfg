CONSTANTS
    r1 = r1
    r2 = r2
    Requests <- MCRequests
    Keys <- MCKeys
    NoTarget = NoTarget
    NoCrate = NoCrate
    Ttl = 1
    MaxRelease = 2
    MaxFormat = 2
    MaxClock = 2
SPECIFICATION Spec
INVARIANTS OwnCrate NoOlderThanTtl
SYMMETRY Symmetry
CHECK_DEADLOCK FALSE
