SPECIFICATION FairLoginSpec
CONSTANTS
    Session = {s1}
    SessionTTL = 3
    EvictEvery = 1
    IdleTTL = 3
    MaxCodes = 1
CHECK_DEADLOCK FALSE
PROPERTIES
    PortReleased
