CONSTANTS
    Request = {r1, r2}
    Level = {"read", "control", "program", "attach"}
    Thread <- MCThread
    None = None
    MaxCalls = 9
SYMMETRY Symmetry
SPECIFICATION MCSpec
INVARIANTS ControlActsOnWhatItChecked OkMeansDone
PROPERTIES HardwareQuiet
CHECK_DEADLOCK FALSE
