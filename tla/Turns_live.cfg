CONSTANTS
    Session = {s1}
    Turn = {t1, t2, t3}
    Local = {t3}
    MaxRounds = 1
    MaxCalls = 0
    CallIds = {"named"}
    Levels = {}
    Compact = FALSE
    DBErrors = FALSE
    MaxReloads = 0
    MaxCrashes = 1
SPECIFICATION ParkedSpec
PROPERTIES
    TurnsEnd
    WaiterLeaves
CHECK_DEADLOCK FALSE
