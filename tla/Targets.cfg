\* The document: two slugs, routes and target ids, versions that run out at two,
\* and a workspace that is deleted and created again.
CONSTANTS
    w1 = w1  g1 = g1  x1 = x1  x2 = x2
    Workspace <- OneWorkspace
    Generation <- OneGeneration
    Exchange <- TwoExchanges
    WorkspaceOf <- ServesW1
    InitialBackoff = 1
    MaximumBackoff = 2
    Hints <- HintValues
    MaxTime = 7
    MaxAdmissions = 4
    Slug = {s1, s2}
    Route = {r1, r2}
    Target = {x1, x2}
    plain = plain
    slashed = slashed
    other = other
    broken = broken
    Draft <- MCDraft
    Settings <- MCSettings
    Finalize <- MCFinalize
    Encoded <- MCEncoded
    Refused = Refused
    MaxVersion = 2
    MaxLives = 2
SPECIFICATION TargetsSpec
SYMMETRY Interchangeable
INVARIANTS LedgerReclaimed LedgerInv VersionIdentifiesSettings
PROPERTIES StaleFailureNeverSuppresses NewerIngressClears
    EscalatesOnlyAfterWindow
