CONSTANTS
    ConfiguredCapacity = 2
    Keys = {k1}
    MaxRelease = 3
    NoCrate = NoCrate
    Requests = {r1, r2, r3}
    Items = {"new"}
    Contents <- MCContents
    Workers = 2
SPECIFICATION Spec
SYMMETRY Symmetry
INVARIANTS TypeOK CacheWellFormed FreshAfterMiss QueueSound
PROPERTIES OlderOnlyByOverlap ImplementsService
CHECK_DEADLOCK FALSE
