SPECIFICATION Spec
CONSTANTS
    main         = main
    worker       = worker
    Threads     <- MCThreads
    Manager      = main
    callback     = callback
    OnLine       = callback
    Operations   = {"call", "write_line", "expect", "drain", "reset"}
    NoticesDeath = TRUE
    MaxOps       = 3
    MaxEvents    = 2
    MaxBoots     = 1
    MaxDeaths    = 0
    MaxDamages   = 0
CONSTRAINT
    ThirdOrSecond
INVARIANTS
    AnswersPaired
    EventsKept
    NobodySleepsOverMatch
PROPERTIES
    NoFalseTimeout
CHECK_DEADLOCK FALSE
