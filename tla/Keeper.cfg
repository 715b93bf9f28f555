CONSTANTS
    None = None
    Connections = {old, new}
    Spawner = old
    MaxOutput = 2
    MaxRequests = 1
SPECIFICATION FairSpec
INVARIANTS
    LeavesOnlyWhenDone
PROPERTIES
    NobodyElseEvicts
    ImplementsTranscript
    ListenerHearsExit
