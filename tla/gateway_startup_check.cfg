SPECIFICATION Spec
CONSTANTS
    Threads = {t1, t2}
    NoThread = NoThread
    Owner = Owner
    Rules = {"interval", "net"}
    MessageBytes <- MCMessageBytes
    BufferSize = 4
    MaxRequests = 2
    Libraries = {"current", "older", "missing"}
INVARIANT CheckedAtStartup
\* The bound on requests is reached, or the server has stopped.
CHECK_DEADLOCK FALSE
