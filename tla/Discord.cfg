CONSTANTS
    Delivery = {1, 2, 3}
    Message = {m1, m2, m3}
    Stranger = {m3}
    Channel = {c1}
    Agent = {a1, a2}
    Configured = a1
    Command = {k1}
    SeenLimit = 1
    None = None
    admin = admin
    Request = {r1, r2}
    User = {admin, other}
    Owner <- SameOwner
    Press = {1, 2}
    Bot = {b1, b2}
    Code = {d1, d2}
    MaxAdding = 2
SPECIFICATION BotSpec
INVARIANTS
    BotInv
    ConversationsAdvance
    OwnerDecides
    ClosedMeansNotRun
PROPERTIES
    ImplementsTurnQueue
    WaitsEnd
CHECK_DEADLOCK FALSE
