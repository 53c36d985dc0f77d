SPECIFICATION FairHSpec
CONSTANTS
    p1 = p1
    p2 = p2
    s1 = s1
    t1 = t1
    b1 = b1
    b2 = b2
    observe = observe
    modify = modify
    None = None
    Process = {p1, p2}
    Session = {s1}
    Level = {observe, modify}
    Observe = observe
    Modify = modify
    Ticket = {t1}
    Build = {b1, b2}
    MaxLease = 4
    MaxEpoch = 1
PROPERTIES
    EndFreesProbe
CHECK_DEADLOCK FALSE
