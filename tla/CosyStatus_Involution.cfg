SPECIFICATION Spec
CONSTANTS
    NumVars = 4
    ValueMode = "TRUE_LESS_FALSE"
    Order <- MCOrder
    InverseOf <- Involution
    LookupOrder <- InvolutionLookup
INVARIANTS
    TypeOK
    LookupPrefixEqual
    UndoStackMatchesTrail
CHECK_DEADLOCK FALSE
INVARIANT StateComparesImage
