SPECIFICATION Spec
CONSTANTS
    NumVars = 5
    Formulas <- MCFormulas
    MaxAutomorphisms = 2
    Groups <- MCGroups
    OccurenceChoices <- MCOccurences
    Elements = {0, 1, 2, 3, 4}
    W = 2
    SmallRange = 1
    Bitsets = {"a", "b"}
    MaxBits = 5
    MaxListed = 4
    SparseThreshold = 2
    MaxInt = 31
    StartCap = 2
    AllocSizes = {7, 12, 30}
    VecSizes = {3, 10, 30}
INVARIANTS
    TypeOK
    ReadersAgree
    MapsFollowAutomorphism
    GeneratorsAreSymmetries
    TablesMatchGenerators
    OrderIsRight
    RegionsAreApart
PROPERTIES
    BitsetsAnswerTheSet
    OrderEnds
    ImplementsPartition
    ContainersImplement
CHECK_DEADLOCK FALSE
