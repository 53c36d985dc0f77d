CONSTANTS
    Request = {r1, r2}
    Level = {"control", "program"}
    Thread <- MCThread
    None = None
    MaxCalls = 9
SYMMETRY Symmetry
SPECIFICATION Spec
INVARIANT SuccessProvesExit
CHECK_DEADLOCK FALSE
