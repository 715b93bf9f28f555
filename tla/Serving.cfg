SPECIFICATION FairSpec
CONSTANTS
    older = older
    newer = newer
    d1 = d1
    d2 = d2
    d3 = d3
    d4 = d4
    nobody = nobody
    Launchers = {older, newer}
    Build <- MCBuild
    Daemons = {d1, d2, d3}
    Nobody = nobody
    MaxCalls <- MCCalls
    MaxKills = 1
    Faults = {}
INVARIANTS
    StrangersLeftAlone
    RetiredByItsBetters
PROPERTIES
    EveryoneIsServed
CHECK_DEADLOCK FALSE
