SPECIFICATION FairSpec

CONSTANTS
    Procs = {p1, p2}
    Ids = {e1, e2}
    Keys = {k1, k2}
    Hashes = {h1, h2}
    None = None
    Traced = {TRUE, FALSE}
    MaxCrashes = 1
    CommitFirst = FALSE

INVARIANTS
    OneWinner
    DuplicateIsRecorded
    SelectFindsRow
    OneResult

PROPERTIES
    EveryCallReturns
