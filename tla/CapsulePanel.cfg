SPECIFICATION Spec
CONSTANTS
  ExitTime = 1
  HideDelay = 2
  ShortLinger = 2
  Margin = 3
  Floor = 4
  AutoTime = 5
  ErrorTime = 6
  StickyTime = 7
  MaxSessions = 3
  MaxInFlight = 2
  Endings <- MCEndings
INVARIANT PanelInv
PROPERTIES NoBeheading OverlayGoesAway ImplementsOverlay
CHECK_DEADLOCK FALSE
