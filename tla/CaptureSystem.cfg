SPECIFICATION SystemFairSpec
CONSTANTS
  m1 = m1
  NoMode = NoMode
  Modes = {m1}
  MaxSessions = 2
  UiCommands = {"cancel"}
  MuteDisturbances = {}
  Captures = {1, 2}
  NoCapture = 0
  StartFaults = {}
INVARIANT
  CaptureInv
PROPERTIES
  SessionSettles
  CapsuleGoesAway
CHECK_DEADLOCK FALSE
