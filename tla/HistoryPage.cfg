SPECIFICATION FairSpec
CONSTANTS
  m1 = m1
  m2 = m2
  w1 = w1
  w2 = w2
  NoMode = NoMode
  Records <- Four
  Old <- Earlier
  CreatedAt <- Instants
  Completed <- Done
  ModeOf <- Modes
  Says <- Words
  CanonicalModes = {m1}
  DayLength = 4
  YearLength = 10
  Faults = {"delete"}
  InFlight = 2
INVARIANT
  PageInv
PROPERTIES
  OnlyWantedDeletes
  DeletesArrive
CHECK_DEADLOCK FALSE
