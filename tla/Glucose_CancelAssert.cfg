SPECIFICATION Spec
CONSTANTS
    NumVars = 4
    ValueMode = "TRUE_LESS_FALSE"
    Order <- MCOrder
    Inverses <- MCInverses
    EsbpForcing = TRUE
    MaxEnables = 2
    RootChoices <- MCRoots
    Watched = 1
INVARIANT CancelledIsAssigned
