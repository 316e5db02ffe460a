CONSTANTS
    NumVars = 4
    Problems <- MCProblems
    CheckedProblems = {}
    AssumptionLists <- MCAssumptions
    MayFreeze <- MCMayFreeze
    Substitutions <- MCSubstitutions
    Selectors = {}
    CcminMode = 2
    PhaseSaving = 0
    LbLBDFrozenClause = 30
    LbLBDMinimizingClause = 6
    LbSizeMinimizingClause = 30
    GarbageDivisor = 5
    UseAsymm = TRUE
    UseElim = TRUE
    Grow = 0
    ClauseLim = 2
    SubsumptionLim <- MCNoLimit
    MaxCalls = 2
    LateClauses = 1
    InterruptsSubsumption = FALSE
CHECK_DEADLOCK FALSE
SPECIFICATION Spec
INVARIANTS
    EliminationKeepsModels
    OccurrencesMatch
    WatchesAreReady
PROPERTY
    AnswersAreRight
