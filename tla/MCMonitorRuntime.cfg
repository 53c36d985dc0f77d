SPECIFICATION FairRSpec
CONSTANTS
    c1 = c1
    Client = {c1}
    Ring = 1
    AnchorRing = 2
    LiveQueue = 1
    RelayQueue = 1
    MaxEvents = 4
    MaxBinding = 2
INVARIANTS ReplayComplete LossTold ObservationsAccounted
PROPERTIES SourceAnswersCurrent RuntimeStops
CHECK_DEADLOCK FALSE
