CONSTANTS
    Request = {r1}
    Key = {k1}
    Operator = {o1, o2}
    MaxPending = 1
    MaxSerial = 2
SPECIFICATION Spec
INVARIANTS
    ApprovedIsRegistered
CHECK_DEADLOCK FALSE
