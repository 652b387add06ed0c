SPECIFICATION Spec
CONSTANTS
  t1 = t1
  n1 = n1
  Task <- OneTask
  NativeTask <- OneNative
  NativeState = {"WORKING", "COMPLETED"}
  FollowUps = FALSE
  Lossy = TRUE
  MaxEvents = 5
CHECK_DEADLOCK FALSE
INVARIANTS
  ProjectionIsLatest
  AgreesWhenQuiet
PROPERTY TerminalStays
