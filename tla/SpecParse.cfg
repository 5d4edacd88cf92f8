CONSTANTS
    Texts <- MCTexts
    Targets <- MCTargets
    Letters = {"a"}
    Digits = {"1"}
    AsciiSpace = {" "}
    OtherSpace = {"nbsp"}
    Others = {"."}
    MaxNameLength = 2
    OutCap = 6
    None = None
SPECIFICATION ParseSpec
INVARIANTS ParseInvertsWriting AgreeOnAscii
CHECK_DEADLOCK FALSE
