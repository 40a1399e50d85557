CONSTANTS
  left = left
  right = right
  first = first
  second = second
  Ports <- MC_Ports
  Tests <- MC_Tests
  Scopes = {"session", "module"}
SPECIFICATION Spec
INVARIANTS
  Isolated
  OldEventsNeedNoReset
  ClosedInTheEnd
CHECK_DEADLOCK FALSE
