SPECIFICATION Spec
CONSTANTS
  m1 = m1
  m2 = m2
  NoMode = NoMode
  Modes = {m1, m2}
  MaxSessions = 3
  UiCommands = {"finish", "cancel"}
  MuteDisturbances = {"readFails", "writeFails", "userToggles"}
SYMMETRY ModesSymmetry
INVARIANTS
  RuntimeInv
  UserMuteRestored
PROPERTIES
  ImplementsLifecycle
  InsertsOnlyNewest
  OutcomeIsFinal
CHECK_DEADLOCK FALSE
