SPECIFICATION FairSpec
CONSTANTS
    Depth     <- MCDepth
    DropMax   <- MCDropMax
    MaxEvents <- MCMaxEvents
INVARIANTS
    TypeOK
    QueueIsNewest
    GapExact
    DropsHaveCarrier
PROPERTIES
    EventuallyAccounted
    ImplementsChannel
