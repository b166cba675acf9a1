\* Shares: two of every name, two bearers and two concurrent Issue commands.
\* Telemetry: three events through a queue of one, and an off and on again.
CONSTANTS
    Workspace = {w1, w2}
    Route = {r1, r2}
    Bearer = {b1, b2}
    Issuer = {i1, i2}
    Whole = Whole
    NoGrant = NoGrant
    Event = {i1, i2, e3}
    QueueBound = 1
    MaxRevision = 2
SPECIFICATION FilesSpec
SYMMETRY Names
CHECK_DEADLOCK FALSE
INVARIANTS
    BindingsInv
    ShareServed
    TelemetryInv
PROPERTY NoRevival
