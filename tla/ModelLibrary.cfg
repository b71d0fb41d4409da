SPECIFICATION Spec
CONSTANTS
  None = None
  c1 = c1
  c2 = c2
  p1 = p1
  p2 = p2
  Configs = {c1, c2}
  Keys = {k1}
  Themes = {t1, t2}
  Pages = {p1, p2}
  Chrome = chrome
  MaxClicks = 3
SYMMETRY LibrarySymmetry
INVARIANTS
  LibraryInv
  ReadyMeansResolved
  ChosenIsKept
  CallsAreAnswered
CHECK_DEADLOCK FALSE
