SPECIFICATION FairSpec
CONSTANTS
    main         = main
    worker       = worker
    Threads     <- MCThreads
    Manager      = main
    callback     = callback
    OnLine       = callback
    Operations   = {"reset"}
    NoticesDeath = FALSE
    MaxOps       = 1
    MaxEvents    = 0
    MaxBoots     = 1
    MaxDeaths    = 1
    MaxDamages   = 0
PROPERTIES
    ResetRecovers
CHECK_DEADLOCK FALSE
