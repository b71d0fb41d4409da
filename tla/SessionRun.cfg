SPECIFICATION Spec
CONSTANTS
  ContextUnits = 1
  MaxRuns = 2
  Screens <- MCScreens
  Recordings <- MCRecordings
INVARIANTS
  SessionRunInv
  RequestIsPrivate
PROPERTIES
  ContextIsFixed
  RunEnds
CHECK_DEADLOCK FALSE
