SPECIFICATION FairWebhookSpec
CONSTANTS
    d1 = d1
    w1 = w1
    w2 = w2
    Deliveries <- OneDelivery
    Workers <- OneWorker
    RetryIntervals <- TwoRetries
    PollLimit = 1
    Budget <- NoTrouble
    Troubles = 0
CHECK_DEADLOCK FALSE
PROPERTIES
    EveryDeliveryResolves
