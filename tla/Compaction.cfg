CONSTANTS
    Session = {s1}
    Turn = {t1, t2}
    Local = {}
    MaxRounds = 2
    MaxCalls = 1
    CallIds = {"named", "blank"}
    Levels = {"high"}
    Compact = TRUE
    DBErrors = TRUE
    MaxReloads = 0
    MaxCrashes = 1
    Request = {r1, r2}
SPECIFICATION CompactionSpec
INVARIANTS
    EachMessageOnce
    CompletedCallsSettled
SYMMETRY Symmetry
CHECK_DEADLOCK FALSE
