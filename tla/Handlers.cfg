SPECIFICATION MCSpec
CONSTANTS
    Parts = {"serve", "payment", "upload", "scope"}
    Handlers = {h1, h2}
    Requests = {q1, q2}
    None = none
    Limit = 2
    MaxRetry = 2
    MaxCalls = 5
    Members = {m1, m2}
    Watched = {m1}
    Programs = {g1, g2}
    Documents = {doc1}
    NoDocument = NoDocument
    MaxGrants = 2
    FileCount = 3
    d1 = d1
    d2 = d2
    r1 = r1
    j1 = j1
    j2 = j2
    p1 = p1
    f1 = f1
    x1 = x1
    o1 = o1
    o2 = o2
    Roles = {o1, o2}
    Records = {d1, d2, r1, j1, j2, p1, f1, x1}
    NoRecord = NoRecord
    Whole = whole
    TableOf <- MCTableOf
    ParentOf <- MCParentOf
    Permissions <- MCPermissions
    Rulable <- MCRulable
    InitOwned <- MCOwned
    MaxChanges = 3
CHECK_DEADLOCK FALSE
INVARIANTS
    QuotaAccounted JobsPaid SubmittedOnce
    ListMatchesOpen ActorsSee
    NothingPublished ServedWhole
    OwnersAgree OfferedIsAccepted
PROPERTIES CallsEnd GrantsOnlyAdd
