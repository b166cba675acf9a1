SPECIFICATION Spec
CONSTANTS
    Protocols <- MCProtocols
    Budget <- MCBudget
    Indexes <- MCIndexes
    CallIds <- MCCallIds
    Texts <- MCTexts
    ArgumentChunks <- MCArgumentChunks
    BlockTypes <- MCBlockTypes
    OutputItems <- MCOutputItems
    Terminals <- MCTerminals
    ChunkFragments <- MCChunkFragments
INVARIANTS
    StreamedEqualsBuffered
    AcceptedIsKept
    ReplayRecognised
    DeliveryIndependent
    ReplayDecodes
CHECK_DEADLOCK FALSE
