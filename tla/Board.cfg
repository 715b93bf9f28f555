SPECIFICATION Spec
CONSTANTS
    Boards = 2
    Controllers <- TheHub
    Retain = 1
    Slack = 0
    Batch = 1
    Window = 0
    MaxPosts = 3
    MaxTime = 2
    MaxFails = 0
    Troubles <- Clearing
INVARIANTS
    IdsAreUnique
PROPERTY
    NothingAskedTwice
