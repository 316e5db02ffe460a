CONSTANTS
    NumVars = 5
    Problems <- MCLateUnits
    CheckedProblems = {}
    AssumptionLists <- MCNoAssumptions
    MayFreeze = {}
    Substitutions <- MCSubstitutions
    Selectors = {}
    CcminMode = 2
    PhaseSaving = 0
    LbLBDFrozenClause = 30
    LbLBDMinimizingClause = 6
    LbSizeMinimizingClause = 30
    GarbageDivisor = 5
    UseAsymm = FALSE
    UseElim = TRUE
    Grow = 0
    ClauseLim = 2
    SubsumptionLim <- MCNoLimit
    MaxCalls = 2
    LateClauses = 0
    InterruptsSubsumption = TRUE
CHECK_DEADLOCK FALSE
SPECIFICATION Spec
PROPERTY
    AnswersAreRight
