CONSTANTS
    Keys = {k1}
    MaxRelease = 2
    NoCrate = NoCrate
    Handlers = {h1, h2, h3}
    MaxBuild = 2
SPECIFICATION Spec
SYMMETRY Symmetry
INVARIANTS FindsLastPut FreshAfterMiss
PROPERTY ImplementsService
