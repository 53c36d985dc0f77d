SPECIFICATION HSpec
CONSTANTS
    p1 = p1
    p2 = p2
    p3 = p3
    s1 = s1
    s2 = s2
    t1 = t1
    t2 = t2
    b1 = b1
    b2 = b2
    observe = observe
    modify = modify
    None = None
    Process = {p1, p2, p3}
    Session = {s1, s2}
    Level = {observe, modify}
    Observe = observe
    Modify = modify
    Ticket = {t1, t2}
    Build = {b1, b2}
    MaxLease = 5
    MaxEpoch = 1
SYMMETRY Symmetry
INVARIANTS FilesAgree NeverStuck
PROPERTIES ProvenImage RestoredAtMostOnce RecordKept ImplementsOwnership
CHECK_DEADLOCK FALSE
