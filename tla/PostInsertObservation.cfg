SPECIFICATION FairSpec
CONSTANTS
  MaxSessions = 2
  None = None
  Requests <- MCRequests
  Screens <- MCScreens
INVARIANTS
  ObserverIsActive
  PendingIsHandled
PROPERTIES
  TerminalIsFinal
  PendingEnds
CHECK_DEADLOCK FALSE
