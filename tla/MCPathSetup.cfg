SPECIFICATION FairSpec
CONSTANTS
    main = main
    d1 = d1
    d2 = d2
    NoWire = NoWire
    Main = main
    Dialers = {d1, d2}
    Threads = 3
    Target = 1048576
    MaxWorkers = 64
    Growth = 4
    Jump = 512
    Fine = 32
    CoarseStep = 131072
    Attempts = 3
    Worlds <- MCWorlds
INVARIANTS TypeOK ProfileFits
PROPERTIES ChoiceValidated SetupEnds
CHECK_DEADLOCK FALSE
