\* A daemon and the child that a command starts beside it.  No symmetry, for
\* the temporal property.
CONSTANTS
    Process = {p1, p2}
    Command = {c1, c2}
    MaxHandlers = 2
    None = None
SPECIFICATION Spec
CHECK_DEADLOCK FALSE
INVARIANT ConfigExclusive
PROPERTY ShutdownCompletes
