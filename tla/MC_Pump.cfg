CONSTANTS
  LineBuf = 12
  MaxArgs = 2
  StrArg = 4
  Wide = 6
  Narrow = 4
  Depth = 1
  MaxInits = 2
  Commands <- MC_Commands
  Requests <- MC_Requests
SPECIFICATION FairSpec
INVARIANTS
  TypeOK
  Delivered
  TooLongRefused
  ErrorsNamed
  MinusRefused
  VariableHolds
PROPERTIES
  EveryLineAnswered
CHECK_DEADLOCK FALSE
