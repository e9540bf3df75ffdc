SPECIFICATION Spec

CONSTANTS
    Procs = {p1, p2, p3}
    Ids = {e1, e2, e3}
    Keys = {k1, k2}
    Hashes = {h1, h2}
    None = None
    Traced = {TRUE}
    MaxCrashes = 1
    CommitFirst = TRUE

SYMMETRY Symmetry

INVARIANTS
    TypeOK
    AtMostOnce
    ClaimantFindsExecution

PROPERTIES
    ImplementsLedger
