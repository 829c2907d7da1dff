CONSTANTS
    Work = {1, 2}
    Safe = {}
    Runner = {"openai", "anthropic", "remote"}
    Target = {"openai", "anthropic", "itself"}
    Dangerous = {write}
    CallId = {c1}
    MaxCalls = 2
    MaxAtOnce = 2
    MaxToolRounds = 2
    AllowDangerous = FALSE
    None = None
SPECIFICATION Spec
INVARIANT DelegationReaches
CHECK_DEADLOCK FALSE
