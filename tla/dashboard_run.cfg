SPECIFICATION OpenDashboard
CONSTANTS
    PowerScale = 2
    BalanceTolerance = 1
    NetAbsoluteTolerance = 1
    NetRelativeDivisor = 100
    ConservationTolerance = 1
    NaN = NaN
    MatchTolerance = 1
    Scenarios <- MCDashboardScenarios
    Limits <- MCLimits
    OtherLimits <- MCOtherLimits
    NotAsked = NotAsked
    NoLimits = NoLimits
    Unusable = Unusable
    WireDecisions <- MCWireDecisions
    UnknownActions = {"Boost"}
INVARIANT ExplainsTheRule
INVARIANT ReasonsHold
INVARIANT DocumentComplete
\* A run ends.
CHECK_DEADLOCK FALSE
