CONSTANTS
    bind = bind
    change = change
    inspect = inspect
    look = look
    resume = resume
    after = after
    None = None
    Request = {bind, change, inspect, look, resume, after}
    Bind = bind
    Change = change
    Inspect = inspect
    Look = look
    Resume = resume
    After = after
    Workflow = {"read", "flash", "fault"}
    Level = {"attach", "control", "read", "program"}
    Thread <- MCThread
    MaxCalls = 12
SPECIFICATION FairOneShot
INVARIANTS RunsAgainOrTold
PROPERTIES WorkflowEnds
CHECK_DEADLOCK FALSE
