SPECIFICATION AppSpec
CONSTANTS
  Chords <- MCChords
  Terms <- MCTerms
  None = None
  Frames <- MCFrames
  DefaultFrame <- MCDefaultFrame
  Layouts <- MCLayouts
  NoFrame = NoFrame
  Profiles <- MCProfiles
  Fronts <- MCFronts
  Arrangements <- MCArrangements
  Cursors <- MCCursors
  CapsuleSize <- MCCapsuleSize
  MaxOps = 4
INVARIANT
  AppInv
PROPERTIES
  BootKeepsUserData
  FrameComesBack
CHECK_DEADLOCK FALSE
