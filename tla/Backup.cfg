SPECIFICATION FairSpec
CONSTANTS
    shell = shell
    agent = agent
    other = other
    old = old
    new = new
    Sessions <- WithShell
    Listings <- EitherOne
    Agents <- OneAgent
    Files <- TwoFiles
    IncludeAnsi = TRUE
    Window = 1
    Keep = 1
    Opening = 1
    FirstLines <- Begun
    MaxLines <- Lengths
    MaxPrinted <- Prints
    MaxMoves = 2
    MaxTroubles = 1
    Faults <- NoFault
    None = None
INVARIANTS
    NothingMissing
    CopiesAreExact
PROPERTIES
    EveryLineIsMirrored
