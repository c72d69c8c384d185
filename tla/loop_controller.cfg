SPECIFICATION ClosedLoop
CONSTANTS
    PowerScale = 2
    BalanceTolerance = 1
    NetAbsoluteTolerance = 1
    NetRelativeDivisor = 100
    ConservationTolerance = 1
    NaN = NaN
    Scenarios <- LongScenarios
    Limits <- MCLimits
    WireDecisions <- MCWireDecisions
    UnknownActions = {"Boost"}
INVARIANT NothingLeftUnused
INVARIANT AppliedAsDecided
INVARIANT NeverRefused
PROPERTY WindowRespected
PROPERTY RunEnds
\* A run ends.
CHECK_DEADLOCK FALSE
