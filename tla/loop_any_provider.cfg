SPECIFICATION AnyComparison
CONSTANTS
    PowerScale = 2
    BalanceTolerance = 1
    NetAbsoluteTolerance = 1
    NetRelativeDivisor = 100
    ConservationTolerance = 1
    NaN = NaN
    Scenarios <- MixedScenarios
    Limits <- WideLimits
    WireDecisions <- MCWireDecisions
    UnknownActions = {"Boost"}
INVARIANT TypeOK
INVARIANT BooksBalance
INVARIANT NoCounterflow
INVARIANT StepsInOrder
INVARIANT ResultIsComplete
INVARIANT ReferenceDominates
INVARIANT SameAsReference
PROPERTY KeepsLedger
PROPERTY ReferenceKeepsLedger
\* A run ends.
CHECK_DEADLOCK FALSE
