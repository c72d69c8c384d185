CONSTANTS
    Intervals <- MCIntervals
    Commands <- MCCommands
    WaitTime = 5
    PollInterval = 2
    AttemptTime = 3
    MaxCrashes = 2
    Page = page
    Absent = absent
    Earlier = earlier
    Torn = torn

SPECIFICATION Spec

INVARIANTS
    DecidedOnce
    GivesUpInTime
    ReportComplete

PROPERTY CommandEnds

CHECK_DEADLOCK FALSE
