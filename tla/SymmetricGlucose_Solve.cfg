SPECIFICATION SymmetricSpec
CONSTANTS
    NumVars = 6
    Order <- MCOrder
    Inverses <- MCInverses
    Problems <- MCProblems
    AssumptionLists <- MCAssumptions
    Selectors = {}
    CcminMode = 2
    PhaseSaving = 2
    SizeLBDQueue = 2
    LowerBoundForBlockingRestart = 2
    FirstReduceDB = 2
    IncReduceDB = 1
    SpecialIncReduceDB = 1
    LbLBDFrozenClause = 30
    LbLBDMinimizingClause = 6
    LbSizeMinimizingClause = 30
    GarbageDivisor = 5
    MaxSolves = 1
    LateClauses = 0
INVARIANTS
    ClausesKeepLeaders
    NoConflictIsMissed
PROPERTY ImplementsGlucose
