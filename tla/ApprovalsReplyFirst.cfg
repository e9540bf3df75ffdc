SPECIFICATION FairSpec

CONSTANTS
    Procs = {p1, p2}
    Ids = {a1, a2}
    Bindings = {b1}
    Versions = {v1}
    u1 = u1
    u2 = u2
    Users = {u1, u2}
    Requesters = {u1}
    Approvers <- BothHoldTheRole
    None = None
    TTL = 1
    MaxTime = 0
    MaxCrashes = 1
    CommitFirst = FALSE

INVARIANTS
    SingleUse

PROPERTIES
    EveryCallReturns
