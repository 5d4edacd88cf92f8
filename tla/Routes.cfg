CONSTANTS
    NoQuery = NoQuery
    None = None
    Letters = {"s", "d", "V", "w", "healthz", "kv"}
    Digits = {"1"}
    AsciiSpace = {" "}
    OtherSpace = {"nbsp"}
    Others <- MCOthers
    MaxNameLength = 3
    OutCap = 9
    Documented <- MCDocumented
    Requests <- MCRequests
SPECIFICATION RoutesSpec
INVARIANTS FrontEndsAgree PagesAreFound WorkersAgree
CHECK_DEADLOCK FALSE
