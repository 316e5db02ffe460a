CONSTANTS
    NumVars = 4
    Problems <- MCProblems
    AssumptionLists <- MCAssumptions
    Selectors <- MCSelectors
    CcminMode = 2
    PhaseSaving = 2
    SizeLBDQueue = 2
    LowerBoundForBlockingRestart = 2
    FirstReduceDB = 2
    IncReduceDB = 1
    SpecialIncReduceDB = 1
    LbLBDFrozenClause = 30
    LbLBDMinimizingClause = 6
    LbSizeMinimizingClause = 30
    GarbageDivisor = 5
    MaxSolves = 2
    LateClauses = 1
SPECIFICATION Spec
INVARIANTS
    ClausesKeepModels
    PropagationIsComplete
    ReasonsImply
    AnswersAreRight
    DimacsIsEquisatisfiable
