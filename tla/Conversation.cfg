SPECIFICATION Spec
CONSTANTS
    a = a
    b = b
    Scenarios <- MCScenarios
    CallIds <- MCCallIds
SYMMETRY MCSymmetry
INVARIANTS
    HistoryCarried
    ContinuationSendsTheRest
CHECK_DEADLOCK FALSE
