SPECIFICATION OfficeSpec
CONSTANTS
    Messages = {m1}
    Senders = {s1}
    Couriers = {c1, c2}
    NoMessage = none
    MaxPosts = 2
    MaxMishaps = 1
    MaxSwitches = 2
    MaxRepeats = 1
    Documents = {d1, d2}
    Indexers = {x1, x2}
    Clerks = {k1, k2}
    NoDocument = none
    MaxJobs = 3
    MaxTrouble = 1
    Leads = {l1, l2}
    Fields = {name, email}
    Staff = {p1, p2}
    Turns = {t1}
    NoLead = none
    MaxScore = 1
    MaxOperations = 4
    Agents = {g1, g2}
    Tools = {handoff, retired}
    Registered = {handoff}
    Admins = {i1, i2}
    NoAgent = none
    MaxSettings = 6
    Answerers = {w1, w2}
    Colleagues = {h1, h2}
    ToolNames = {"handoff", "lead"}
    MaxRounds = 2
    MaxCalls = 2
    MaxTurns = 2
    MaxTakeovers = 2
    Limit = 2
    Thinkers = {w1, w2}
    RoundsPerTurn = 2
    MaxPeriods = 1
    MaxPast = 4
    Ceiling = 2
    Requests = {r1, r2, r3}
    Tokens = {t1, t2}
    Browsers = {b1, b2}
    NoToken = none
    Lifetime = 2
    LastSecond = 3
    People = {p1}
    Invites = {v1, v2}
    Visitors = {b1, b2}
    Roles = {admin, member}
    Nobody = none
    Callers = {a1, a2, a3}
    Quota = 1
    Window = 2
    MaxWindows = 2
    MaxCounted = 3
    MaxOutages = 1
    e1 = e1
    e2 = e2
    Templates = {e1, e2}
    PageOf <- Pages
    LastPage = 2
    MaxPages = 2
    Syncs = {y1, y2}
    MaxChanges = 2
    MaxSyncs = 3
    Processes = {o1}
    Queued = {agent}
    Swept = {billing}
    Interval = 4
    Ttl = 12
    Late = 1
    MaxMisses = 2
    MaxLives = 2
INVARIANTS
    OfficeTypeOK
    OneSendPerRow
    RowsHold
    DocumentsAreServed
    LeadsHold
    TurnsHold
    PlanHolds
    SettingsHold
    AccessHolds
    WindowsHold
    WorkersAreSound
PROPERTIES
    VerifiedIsKept
CHECK_DEADLOCK FALSE
