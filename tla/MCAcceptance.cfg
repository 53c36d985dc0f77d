SPECIFICATION FSpec
CONSTANTS
    c1 = c1
    c2 = c2
    v1 = v1
    v2 = v2
    s1 = s1
    None = None
    Client = {c1, c2}
    Change = {v1, v2}
    Sessions = {s1}
    Operation = {1, 2, 3, 4, 5, 6}
    Limit = 6
    Types = {"created", "begun", "declared", "planned", "verifying", "completed"}
    MaxClock = 2
    MaxRuns = 2
    Timeout = 0
    Window = 0
INVARIANTS EveryChainLoads FixedOnce EveryAnswerIsRecorded
PROPERTIES AuthorizedAsDiagnosed
SYMMETRY Symmetry
CHECK_DEADLOCK FALSE
