CONSTANTS
    Session = {s1}
    Turn = {t1, t2, t3}
    Local = {}
    MaxRounds = 1
    MaxCalls = 1
    CallIds = {"named"}
    Levels = {"high"}
    Compact = TRUE
    DBErrors = TRUE
    MaxReloads = 1
    MaxCrashes = 1
SPECIFICATION Spec
INVARIANTS
    OneTurnPerSession
    ExchangesWhole
    ExchangesContiguous
    SummaryIsPrefix
PROPERTIES
    ImplementsConversation
SYMMETRY TurnSymmetry
CHECK_DEADLOCK FALSE
