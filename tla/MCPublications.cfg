SPECIFICATION MCSpec
CONSTANTS
    p1 = p1
    p2 = p2
    a1 = a1
    a2 = a2
    Process = {p1, p2}
    Deliverer = {p1, p2}
    Creator = {p1, p2}
    Copier = {p1, p2}
    Authorization = {a1, a2}
    Regenerator = {p1, p2}
    g1 = g1
    Permit = {g1}
    Files = 2
    MaxActs = 2
    MaxJobs = 2
    Absent = Absent
    None = None
INVARIANTS FailurePublishesNothing CreationsExclude
PROPERTIES OthersKept WholeOrMarked
SYMMETRY Symmetry
CHECK_DEADLOCK FALSE
