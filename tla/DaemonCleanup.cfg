\* One daemon with one request is enough.
CONSTANTS
    Process = {p1}
    Command = {c1}
    MaxHandlers = 1
    None = None
SPECIFICATION Spec
CHECK_DEADLOCK FALSE
INVARIANT CleanupAfterRequests
