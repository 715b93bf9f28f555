SPECIFICATION FairSpec
CONSTANTS
    Machines <- Two
    TTL = 5
    Settle = 2
    Refresh = 3
    MaxSaid = 1
    MaxQuits = 2
    MaxFails = 1
    Faults <- NoFault
    None = None
INVARIANTS
    SpokenOnce
    NothingSkipped
PROPERTIES
    EveryWordIsRead
