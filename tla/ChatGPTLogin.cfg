SPECIFICATION FairLoginSpec
CONSTANTS
    Session = {s1, s2}
    SessionTTL = 1
    EvictEvery = 2
    IdleTTL = 1
    MaxCodes = 2
CHECK_DEADLOCK FALSE
INVARIANTS
    CallbackServerInv
    CodeExchangedOnce
PROPERTIES
    NoRevival
    SessionsSettle
    PortReleased
