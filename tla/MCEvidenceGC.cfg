SPECIFICATION GcSpec
CONSTANTS
    p1 = p1
    p2 = p2
    o1 = o1
    o2 = o2
    e1 = e1
    e2 = e2
    e3 = e3
    k1 = k1
    None = None
    Process = {p1, p2}
    Object = {o1, o2}
    Envelope = {e1, e2, e3}
    RootKey = {k1}
    Artifacts <- MCArtifacts
    Parents <- MCParents
    MaxVersion = 6
    MaxPlans = 2
SYMMETRY Symmetric
INVARIANTS StoreBacked RedeemedOnce
PROPERTIES EvidenceKept
CHECK_DEADLOCK FALSE
