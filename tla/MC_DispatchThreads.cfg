SPECIFICATION ThreadsSpec
CONSTANTS
    Fields     <- MCFields
    Dropped    = 1
    NameBytes  <- MCNameBytes
    ValueBytes <- MCValueBytes
    FieldsMax  = 2
    ArenaCap   = 5
    MaxReqs    = 1
    MaxCalls   = 3
    MaxEvents  = 2
INVARIANTS
    ThreadContextSafe
CHECK_DEADLOCK FALSE
