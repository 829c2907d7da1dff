CONSTANTS
    c1 = c1
    c2 = c2
    Chat = {c1, c2}
    Slots = 1
    Asks <- NoAsks
    Strays <- ThreeStrays
    Request = {r1}
    Key = {k1}
    Operator = {o1}
    MaxPending = 1
    MaxSerial = 1
    Bot = {b1}
    Completion = {q1}
SPECIFICATION RpcSpec
PROPERTIES
    CancelCancels
CHECK_DEADLOCK FALSE
