SPECIFICATION Spec
CONSTANTS
    Server = {s1}
    Request = {}
    MaxEdits = 2
    MaxConns = 2
INVARIANTS
    ToolsAreUsable
CHECK_DEADLOCK FALSE
