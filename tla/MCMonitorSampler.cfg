SPECIFICATION FairSpec
CONSTANTS
    Subscriber = {s1}
    HistoryQueueBatches = 1
    SubscriberQueueBatches = 1
    MaxEpoch = 5
    MaxPublished = 3
INVARIANTS LossesAccounted ClosedStreamsEnd
PROPERTIES OnlyFreshPublished RunsProgress
CHECK_DEADLOCK FALSE
