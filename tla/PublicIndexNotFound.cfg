CONSTANTS
    NoName = NoName
    NoId = NoId
    CrateName = "crate"
    Ids <- MCIds
    Names <- MCNames
    Krates <- MCAliased
SPECIFICATION Spec
INVARIANT NotFoundIsPrivate
CHECK_DEADLOCK FALSE
