CONSTANTS
    c1 = c1
    c2 = c2
    Chat = {c1, c2}
    Slots = 1
    Asks <- AsksOfFirst
    Strays <- StraysOfFirst
    Request = {r1, r2}
    Key = {k1, k2}
    Operator = {o1, o2}
    MaxPending = 1
    MaxSerial = 2
    Bot = {b1, b2}
    Completion = {q1, q2}
SPECIFICATION RpcSpec
INVARIANTS
    RpcInv
    TerminalIsLast
PROPERTIES
    ImplementsRemoteTurn
    ReceiverHears
    SettledForGood
    NoReturn
    WatchEnds
    DaemonEnds
CHECK_DEADLOCK FALSE
