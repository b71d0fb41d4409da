SPECIFICATION SystemSpec
CONSTANTS
  m1 = m1
  NoMode = NoMode
  Modes = {m1}
  MaxSessions = 2
  UiCommands = {"cancel"}
  MuteDisturbances = {}
  Captures = {1, 2}
  NoCapture = 0
  StartFaults = {"late"}
INVARIANT
  AnswerIsComing
CHECK_DEADLOCK FALSE
