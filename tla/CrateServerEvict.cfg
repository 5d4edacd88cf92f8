CONSTANTS
    ConfiguredCapacity = 0
    Keys = {k1, k2}
    MaxRelease = 2
    NoCrate = NoCrate
    Requests = {r1, r2}
    Items = {"new"}
    Contents <- MCContents
    Workers = 1
SPECIFICATION FairSpec
INVARIANTS Provenance PoolBounded
PROPERTIES EveryRequestEnds PoolDrains ImplementsService
CHECK_DEADLOCK FALSE
