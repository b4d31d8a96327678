SPECIFICATION AdmissionSpec
CONSTANTS
    c1 = c1
    c2 = c2
    c3 = c3
    u1 = u1
    Calls <- ThreeCalls
    Users <- OneUser
    UserOf <- OneUserOf
    MaxConcurrent <- LimitTwo
    InitialBalance <- Balance270
    Durations <- LongCalls
    Budget <- EveryFault
    ARate = 1
    BRate = 2
    CreditLimit <- Credit5
    AdminAmount = 50
SYMMETRY CallSymmetry
INVARIANTS
    ConcurrencyLimit
    SlotsCoverHolders
    BalanceMatchesLedger
    SettledOnce
PROPERTIES
    EscrowSpec
