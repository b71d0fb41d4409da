SPECIFICATION Spec
CONSTANTS
  MaxSessions = 2
  Platforms = {"macos", "windows"}
  Apps = {editor, mail}
  NoApp = noApp
  MaxCopies = 2
INVARIANTS
  UserClipboardKept
  PasteFindsText
PROPERTY
  PastesWhereDictated
CHECK_DEADLOCK FALSE
