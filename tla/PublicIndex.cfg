CONSTANTS
    NoName = NoName
    NoId = NoId
    CrateName = "crate"
    Ids <- MCIds
    Names <- MCNames
    Krates <- MCKrates
SPECIFICATION FairSpec
INVARIANTS IndexSound StackSound IndexComplete
PROPERTY Terminates
CHECK_DEADLOCK FALSE
