SPECIFICATION Spec

CONSTANTS
    Attempts = {t1, t2}
    keyed = keyed
    other = other
    bare = bare
    bad = bad
    anonymous = anonymous
    Requests = {keyed, other, bare, bad, anonymous}
    k1 = k1
    h1 = h1
    h2 = h2
    Keys = {k1}
    Hashes = {h1, h2}
    None = None
    MaxVersion = 2
    ApprovalIds = {a1, a2}
    u1 = u1
    u2 = u2
    Users = {u1, u2}
    Requesters = {u1}
    Flaw <- FlawOf
    Hash <- HashOf
    Key <- KeyOf
    Effects <- EffectOf
    Approvers <- RoleHolders
    CommitFirst = FALSE

SYMMETRY Symmetry
CHECK_DEADLOCK FALSE

INVARIANTS
    TypeOK
    KeptClaimActsOnce
    KeptConsentsCover
    RevokedDoNothing
    AnswersAreTrue
