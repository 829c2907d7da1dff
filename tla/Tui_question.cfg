CONSTANTS
    Work = {1, 2}
    Safe = {}
    Runner = {"openai", "remote"}
    Target = {"openai"}
    Dangerous = {write}
    CallId = {c1}
    MaxCalls = 2
    MaxAtOnce = 2
    MaxToolRounds = 2
    AllowDangerous = FALSE
    None = None
SPECIFICATION Spec
INVARIANT QuestionHasTurn
CHECK_DEADLOCK FALSE
