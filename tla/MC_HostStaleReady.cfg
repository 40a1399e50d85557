SPECIFICATION Spec
CONSTANTS
    main         = main
    worker       = worker
    Threads     <- MCThreads
    Manager      = main
    callback     = callback
    OnLine       = callback
    Operations   = {"reset"}
    NoticesDeath = TRUE
    MaxOps       = 1
    MaxEvents    = 0
    MaxBoots     = 1
    MaxDeaths    = 0
    MaxDamages   = 0
INVARIANTS
    FreshReady
CHECK_DEADLOCK FALSE
