SPECIFICATION Spec
CONSTANTS
    Exchange = {e1, e2, e3}
    Workspace = {w1, w2}
    Request = {q}
    Response = {a}
    MaxRecords = 2
    TTL = 2
    MaxTime = 2
    MaxTurns = 1
SYMMETRY ExchangeSymmetry
CHECK_DEADLOCK FALSE
INVARIANTS
    StoreInv
    CheckpointFaithful
PROPERTIES
    SelectionSound
    LeavesOnlyWhenDue
