SPECIFICATION FairSpec
CONSTANTS
    uart         = uart
    rtt          = rtt
    nobody       = nobody
    workq        = workq
    Shells      <- MCShells
    Uart         = uart
    Nobody       = nobody
    WorkQueue    = workq
    Registered  <- MCRegistered
    MaxArgs      = 0
    BodyWaits    = TRUE
    MaxCommands  = 2
    MaxEvents    = 1
    MaxBoots     = 2
INVARIANTS
    TypeOK
    LinesWhole
    LinesAtHome
    Routed
PROPERTIES
    EveryCommandEnds
    EventsDrained
CHECK_DEADLOCK FALSE
