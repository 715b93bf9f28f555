SPECIFICATION Spec
CONSTANTS
    Agents <- OneAgent
    Wanted <- ItsCalls
    Controllers <- TheHosts
    Reach <- OneRoute
    Voices <- TheHosts
    Writes <- Gated
    Standing <- MayStand
    QueueLimit = 2
    MaxCalls = 3
    MaxRestarts = 1
    MaxReplies = 0
    DiesUnspent = FALSE
    Nothing = Nothing
INVARIANTS
    OneRunPerYes
    RunsOnce
CHECK_DEADLOCK FALSE
