SPECIFICATION AdmissionSpec
CONSTANTS
    c1 = c1
    c2 = c2
    c3 = c3
    u1 = u1
    Calls <- ThreeCalls
    Users <- OneUser
    UserOf <- OneUserOf
    MaxConcurrent <- LimitOne
    InitialBalance <- Balance180
    Durations <- ShortCalls
    Budget <- TopupOnly
    ARate = 1
    BRate = 2
    CreditLimit <- Credit5
    AdminAmount = 50
SYMMETRY CallSymmetry
INVARIANTS
    SlotsExact
    RejectedKeepsNothing
    CreditRespected
