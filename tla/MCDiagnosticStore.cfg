SPECIFICATION Spec
CONSTANTS
    p1 = p1
    p2 = p2
    s1 = s1
    s2 = s2
    o1 = o1
    o2 = o2
    h1 = h1
    h2 = h2
    h3 = h3
    h4 = h4
    h5 = h5
    c1 = c1
    None = None
    Process = {p1, p2}
    Sessions = {s1, s2}
    Operation = {o1, o2, h1, h2, h3, h4, h5}
    Asked = {o1, o2}
    Past <- MCPast
    Change = {c1}
    Types = {"created", "begun", "marked", "completed"}
    Limit = 7
    MaxBehind = 1
INVARIANTS ToldIsRecorded CheckpointsFollow
PROPERTIES ImplementsLog
SYMMETRY Symmetry
CHECK_DEADLOCK FALSE
