\* Calls, raw lines, resets and closes of two threads, and calls of a callback
\* on the reader thread, over a device that may reboot and a link that may die
\* or damage a line.
SPECIFICATION FairSpec
CONSTANTS
    main         = main
    worker       = worker
    Threads     <- MCCallback
    Manager      = main
    callback     = callback
    OnLine       = callback
    Operations   = {"call", "write_line", "reset", "close"}
    NoticesDeath = TRUE
    MaxOps       = 2
    MaxEvents    = 0
    MaxBoots     = 1
    MaxDeaths    = 1
    MaxDamages   = 1
INVARIANTS
    TypeOK
    ReaderLives
    CallbackUnanswered
    MalformedNeedsCut
CHECK_DEADLOCK FALSE
PROPERTIES
    EveryOperationEnds
    ResetRecovers
