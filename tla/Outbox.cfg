SPECIFICATION FairSpec
CONSTANTS
    Sessions <- McSessions
    Messages <- McMessages
    To <- McTo
    Deliver <- McDeliver
    Seeds <- McSeeds
    Shown <- McShown
    OutboxLimit = 1
    Faults <- NoFaults
    MaxStarts = 3
INVARIANTS TypedOnce NoFalseAlarm NothingSwallowed
PROPERTY EveryMessageEnds
CHECK_DEADLOCK FALSE
