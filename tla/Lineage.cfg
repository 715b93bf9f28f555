SPECIFICATION LineageSpec
CONSTANTS
    t = t
    MaxSessions = 4
    Threads = {t}
    Faults = {}

    
    
PROPERTIES
    FleetClosed
CHECK_DEADLOCK FALSE
