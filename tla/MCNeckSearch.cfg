CONSTANTS
    None = None
    Inputs <- MCInputs
    MaxReinit = 1
    RefTable <- MCRefTable
    ContribTable <- MCContribTable
    UnitTestData <- MCUnitTestData

SPECIFICATION Spec

INVARIANTS
    TypeOK
    StackFunctionsDistinct
    VisitNextReady

PROPERTIES
    AbsSpec
    CalleeContributionExact
    VisitsMatchUnitTestData
    Termination
    VisitorSeesAll

CHECK_DEADLOCK FALSE
