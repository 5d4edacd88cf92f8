CONSTANTS
    Ptrs = {1, 2, 3, 4, 5, 6}
    Null = 0
    MaxRounds = 2
    MaxGrowth = 2
SPECIFICATION Spec
INVARIANTS NoFault EmptyBetweenCalls GuestKeepsNothing
CHECK_DEADLOCK FALSE
