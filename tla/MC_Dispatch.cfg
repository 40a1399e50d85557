SPECIFICATION Spec
CONSTANTS
    Fields     <- MCFields
    Dropped    = 1
    NameBytes  <- MCNameBytes
    ValueBytes <- MCValueBytes
    FieldsMax  = 2
    ArenaCap   = 5
    MaxReqs    = 2
    MaxCalls   = 3
    MaxEvents  = 2
INVARIANTS
    TypeOK
    WellFramed
    AnswersExact
    EventsIntact
CHECK_DEADLOCK FALSE
