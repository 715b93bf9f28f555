SPECIFICATION RevivalFairSpec
CONSTANTS
    minter = minter
    reviver = reviver
    nothing = nothing
    Clients = {minter, reviver}
    Minter = minter
    MaxRuns = 2
    MaxGen = 2
    Nothing = nothing
    Mishaps = {"fails once connected"}
INVARIANTS
    OneChild
    NothingForgotten
    DeletedStaysDeleted
    AnsweredTruthfully
PROPERTIES
    SameIdentity
    EveryRequestEnds
CHECK_DEADLOCK FALSE
