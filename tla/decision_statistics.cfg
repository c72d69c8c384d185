SPECIFICATION Spec
CONSTANTS
    Recorders = {r1, r2}
    ActionOrder <- MCActionOrder
    NoAction = NoAction
    MaxRequests = 4
    MaxTime = 2
    MaxSnapshots = 2
SYMMETRY RecorderSymmetry
INVARIANT CountsExact
INVARIANT SnapshotBracketed
INVARIANT TimeOnceAnswered
PROPERTY SnapshotsGrow
\* The bounds on requests, time and snapshots are reached.
CHECK_DEADLOCK FALSE
