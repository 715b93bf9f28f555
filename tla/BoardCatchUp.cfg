SPECIFICATION FairSpec
CONSTANTS
    Boards = 3
    Controllers <- TheHub
    Retain = 2
    Slack = 0
    Batch = 1
    Window = 3
    MaxPosts = 2
    MaxTime = 1
    MaxFails = 1
    Troubles <- NoTrouble
PROPERTY
    EveryoneCatchesUp
