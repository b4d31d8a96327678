SPECIFICATION FairShellSpec
CONSTANTS
    alice = alice
    bob = bob
    NoUser = NoUser
    Users <- TwoUsers
    Mounts <- TwoMounts
    SocketIds <- ThreeSockets
    MaxAttempts = 2
INVARIANTS
    ChainSound
    ShownTruthfully
    IdentityShown
PROPERTIES
    GuardResolves
    PortalReturns
