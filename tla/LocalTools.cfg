CONSTANTS
    a = a  b = b  c = c  k1 = k1  k2 = k2  k3 = k3
    Source <- Sources
    Cursor <- Cursors
    PageTools = {0, 2}
    PageBytes = {0, 2}
    RetainedBytes = {0, 2, 4}
    MaxSources = 2
    MaxPages = 2
    MaxTools = 3
    MaxSourceBytes = 3
    MaxRunBytes = 3
    Mode = {"sse", "generateContent", "websocket", "buffered"}
    MaxItems = 2
    MaxRounds = 2
SPECIFICATION FairRequestSpec
INVARIANTS
    RunInv
    SuccessGatedOnCheckpoint DeliveryInv EffectsStayInside
PROPERTIES OpeningEnds DisconnectEndsDelivery
CHECK_DEADLOCK FALSE
