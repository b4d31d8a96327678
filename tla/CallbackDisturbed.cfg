SPECIFICATION FairCallbackSpec
CONSTANTS
    c1 = c1
    u1 = u1
    Calls <- OneCall
    Users <- OneUser
    UserOf <- AllOfU1
    MaxConcurrent <- LimitOne
    InitialBalance <- Balance180
    CreditLimit <- Credit0
    ARate = 1
    BRate = 2
    AdminAmount = 50
    Durations <- OneMinute
    Budget <- SettleFault
    Chances <- RowTrouble
    ChanCap = 1
    InOrder = TRUE
    MergeTries = 2
INVARIANTS
    SettledBeforeReported
    OpenHoldInReach
PROPERTIES
    EveryCallEnds
