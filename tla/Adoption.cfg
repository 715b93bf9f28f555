SPECIFICATION FairSpec
CONSTANTS
    MaxGen = 2
    AcceptFails <- Never
    SlowKeeper = FALSE
    NoRecord = NoRecord
INVARIANTS
    NeverBuriedAlive
    ServedByTheDaemon
PROPERTIES
    DeletedStaysDeleted
    DeathIsRecorded
    KeepersLeave
CHECK_DEADLOCK FALSE
