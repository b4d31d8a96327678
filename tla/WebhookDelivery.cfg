SPECIFICATION FairWebhookSpec
CONSTANTS
    d1 = d1
    w1 = w1
    w2 = w2
    Deliveries <- OneDelivery
    Workers <- TwoWorkers
    RetryIntervals <- TwoRetries
    PollLimit = 1
    Budget <- TwoAdmins
    Troubles = 3
CHECK_DEADLOCK FALSE
INVARIANTS
    WebhookTypeOK
    DeliveredMeansAccepted
    ScheduleKept
PROPERTIES
    RetryIsTaken
    EveryDeliveryTried
