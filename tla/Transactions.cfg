SPECIFICATION MCSpec
CONSTANTS
    Parts = {"terms", "services", "consumers", "rules", "categories", "supporters", "reuse", "import"}
    c1 = c1
    c2 = c2
    Txs = {c1, c2}
    Services = {1, 2}
    Tables = {1, 2, 3}
    Terms = {1, 2, 3}
    Logicals = {1, 2}
    Nobody = Nobody
    InitTerms <- MCTerms
    MaxOps = 2
    MaxSwitches = 1
    MaxRows = 2
    Requests = {r1, r2}
    Writers = {m1, root}
    Super = root
    Packages = {p1}
    Depts = {d1, d2}
    Null = null
    MaxRequests = 4
    MaxMemberships = 1
    Calls = {c1, c2}
    Users = {u1, u2}
    Role = role
    Owners = {u1}
    Records = {1}
    Rules = {1, 2}
    InitLinks = {u1, u2}
    Reader = u2
    MaxRuleCalls = 2
    MaxToggles = 1
    Editors = {e1, e2}
    Contents = {k1, k2}
    NoContent = NoContent
    MaxEdits = 5
    Callers = {k1, k2}
    Names = {A, B}
    NoName = NoName
    MaxCategoryCalls = 4
    Staff = {u1, u2, u3}
    Creator = u1
    SuperAdmins = {u3}
    Askers = {c1, c2}
    MaxAsks = 3
    MaxMoves = 1
    Skills = {k1}
    Coworkers = {w1, w2}
    MaxSubmits = 2
    MaxReuseCalls = 6
    Uploaders = {u1}
    Imported = {1, 2}
    Sheets = {1, 2}
    Logical = {l, none}
    NoLogical = none
    Texts = {o, w}
    FirstText = o
    NewCode = "x"
    TermIds = {1, 2, 3, 4}
    Stored <- MCStored
    MaxImports = 1
    MaxForms = 2
SYMMETRY Symm
CONSTRAINT ReadMeetsTwo
CHECK_DEADLOCK FALSE
INVARIANTS
    TypesOK
    TablesHoldTerms HistoryMatches
    LiveDepartment AuthorisedAgainstCurrent TrailReplays
    SnapshotsReplay
    ForwardMatchesReverse DenyHolds RulesHaveSubjects
    NamesUnlessReverted SkillUseKeepsActive
    MatrixAgrees
    SavesStand
PROPERTIES OthersKept ReplacedByInsider
