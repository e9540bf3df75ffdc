SPECIFICATION Spec

CONSTANTS
    Publishers = {p1, p2}
    Rules = {r1, r2}
    Calls = {c1, c2}
    None = None
    MaxVersion = 2
    MaxLosses = 1
    TTL = 2
    MaxTime = 2
    CommitFirst = TRUE

SYMMETRY Symmetry

INVARIANTS
    StoreTypeOK
    OnlyPublishedRules
    StaleForLessThanTTL
    VersionsAreFinal

PROPERTIES
    NeverUnenforced
    OnlyNewVersions
