CONSTANTS
    MaxCandidates = 2
    MaxBatch = 2
    MaxRemoteRounds = 1
    MaxRemoteCalls = 2
    Failure <- Failures
    IngressCause = {"rejected", "final"}
    Prepared = {"ok", "error"}
SPECIFICATION FairSpec
INVARIANTS ReducerInv EndsAccounted FallbackJustified
PROPERTIES RefinesRouteRecovery Terminates
CHECK_DEADLOCK FALSE
