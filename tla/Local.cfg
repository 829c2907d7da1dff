CONSTANTS
    Caller = {a, b}
    None = None
    MaxContents = 4
    MaxOutside = 1
    MaxRestarts = 1
    Updater = {u1, u2}
    Checker = {c1}
    MaxRelease = 2
    MaxInstalls = 2
    Process = {p1, p2}
    LastMigration = 2
    Provider = {x1, x2}
    Agent = {a1, a2}
    Bot = {b1}
    Server = {s1, s2}
    Request = {r1}
    MaxEdits = 2
    MaxConns = 3
    f1 = f1
    f2 = f2
    f3 = f3
    f4 = f4
    Writer = {w1, w2}
    Limit = 2
    MaxIds = 3
    Creator = {k1, k2}
    Names = 2
    MaxActs = 2
    Starter = {p3, p4}
    Device = {d1, d2}
    Address = {x3, x4}
    MaxBusy = 2
    MaxServerKeys = 4
    MaxClientKeys = 2
    Peer = {h1}
    MaxAttempts = 4
    MaxPending = 1
    RateLimit = 2
    RateWindow = 2
    Lifetime = 2
    MaxTime = 3
    MaxHits = 2
    MaxChanges = 1
    Program = {q1, q2}
    MaxWrites = 3
    WebCommand = {n1}
    Search = {n2}
    MaxWebWrites = 2
    MessageLimit = 14
    Reserve = 10
    FenceWidth = 2
    MaxFence = 3
    MarkWidth = 3
    MaxText = 9
SPECIFICATION LocalSpec
INVARIANTS
    LocalInv
    ReplacedWasSeen
    NoLostUpdate
    ExecutableIsVerified
    DaemonRunsTarget
    MigratedOnce
    SettingsInv
    ReferencesHold
    ReloadInv
    CallGoesOn
    SkillsInv
    PairingInv
PROPERTIES
    ScopeKept
SYMMETRY Symmetry
CHECK_DEADLOCK FALSE
