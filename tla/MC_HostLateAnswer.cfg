SPECIFICATION Spec
CONSTANTS
    main         = main
    worker       = worker
    Threads     <- MCThreads
    Manager      = main
    callback     = callback
    OnLine       = callback
    Operations   = {"call"}
    NoticesDeath = TRUE
    MaxOps       = 2
    MaxEvents    = 0
    MaxBoots     = 0
    MaxDeaths    = 0
    MaxDamages   = 0
INVARIANTS
    OwnAnswer
CHECK_DEADLOCK FALSE
