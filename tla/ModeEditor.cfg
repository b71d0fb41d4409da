SPECIFICATION EditorSpec
CONSTANTS
  None = None
  BuiltIn = {b1}
  Custom = {m1, m2}
  Existing = {m1}
  Names = {n1, n2}
  Bodies = {t1, t2}
  Chords = {k1}
  NewName = n1
  NewBody = t1
  MaxActs = 4
INVARIANTS
  EditorInv
  EntriesAreKept
PROPERTY
  EditIsSaved
CHECK_DEADLOCK FALSE
