SPECIFICATION ServiceFairSpec
CONSTANTS
  m1 = m1
  m2 = m2
  k1 = k1
  k2 = k2
  NoMode = NoMode
  Modes = {m1, m2}
  Keys = {k1, k2}
  Family <- OwnFlag
  MaxQueue = 2
  ChordLimit = 2
  MaxBegins = 2
INVARIANT
  HotkeyInv
PROPERTIES
  CaptureEndsWithDialog
  LateEndIsIgnored
  DialogLearnsTheEnd
CHECK_DEADLOCK FALSE
