SPECIFICATION FairRoutingSpec
CONSTANTS
    GatewayIds = {1, 2, 3}
    InitialWeights <- TwoGateways
    Weights <- OddWeights
    MaxHealthFailures = 2
    FailureCap = 2
    DriftCap = 6
    Unsteady = {3}
    Admins = {1}
    Budget <- TwoRequests
INVARIANTS
    RoutingTypeOK
    CurrentWeightsBalanced
    ReloadSettles
PROPERTIES
    CandidatesFollowNetwork
    NoStarvation
