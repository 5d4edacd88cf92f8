CONSTANTS
    ConfiguredCapacity = 2
    Keys = {k1, k2, k3}
    Crates = {c1, c2}
    NoCrate = NoCrate
    MaxUses = 6
SPECIFICATION Spec
INVARIANTS WellFormed KeepsMostRecent
PROPERTY IsBoundedCache
