SPECIFICATION FairSpec
CONSTANTS
    a = a
    b = b
    main = main
    k1 = k1
    Sessions <- MCSessions
    Callers <- MCCallers
    Loads <- MCLoads
    Limits = {0, 2}
    Warmer = main
    Keys = {k1}
    MaxClients = 2
INVARIANTS TypeOK NoClientLost SlotsAccounted
PROPERTIES SuccessorKept CallsReturn
CHECK_DEADLOCK FALSE
