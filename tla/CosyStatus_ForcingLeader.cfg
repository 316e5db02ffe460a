SPECIFICATION Spec
CONSTANTS
    NumVars = 4
    ValueMode = "TRUE_LESS_FALSE"
    Order <- MCOrder
    InverseOf <- SixCycle
    LookupOrder <- SixCycleLookup
INVARIANT ForcingKeepsLeader
CHECK_DEADLOCK FALSE
