CONSTANTS
    NumVars = 4
    Problems <- MCProblems
    AssumptionLists <- MCAssumptions
    CcminMode = 2
    RestartFirst = 2
    ConflictBudget = 3
    LearntDivisor = 8
    GarbageDivisor = 5
    MaxSolves = 2
    LateClauses = 1
SPECIFICATION Spec
INVARIANTS
    ClausesKeepModels
    PropagationIsComplete
    ReferencesAreValid
    AnswersAreRight
