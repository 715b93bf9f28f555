SPECIFICATION StreamsFairSpec
CONSTANTS
    Streams <- McStreams
    Kind <- McKind
    Upstream <- McUpstream
    Size <- McSize
    Window = 1
    Room = 1
    QueueLimit = 2
    Faults <- NoFaults
    MaxOpen = 2
INVARIANTS CreditConserved UploadsAllOrNothing
PROPERTIES NoPumpWaitsForEver PumpsEnd
CHECK_DEADLOCK FALSE
