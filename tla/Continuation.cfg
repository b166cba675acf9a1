SPECIFICATION Spec
CONSTANTS
    a = a
    b = b
    Scenarios <- MCScenarios
    CallIds <- MCCallIds
SYMMETRY MCSymmetry
INVARIANTS
    ContinuationIsExact
CHECK_DEADLOCK FALSE
