SPECIFICATION Spec
CONSTANTS
    Threads = {t1, t2}
    NoThread = NoThread
    Owner = Owner
    Rules = {"interval", "net"}
    MessageBytes <- MCMessageBytes
    BufferSize = 4
    MaxRequests = 3
    Libraries = {"current", "older", "missing"}
INVARIANT NoUseAfterDestroy
PROPERTY KeepsLifetime
INVARIANT ReasonIsOwn
INVARIANT NoStaleError
INVARIANT CountsMatchAnswers
PROPERTY RequestsAnswered
PROPERTY ControllerDestroyed
\* The bound on requests is reached, or the server has stopped.
CHECK_DEADLOCK FALSE
