\* Two requests, one of which may refresh while the other settles, and files are loaded
\* in the end.
SPECIFICATION FairSpec
CONSTANTS
  Tokens = {0, 1, 3}
  Successor <- OneRotation
  Valid = {0}
  Files <- OneFile
  Imports = {}
  Names = {3}
  Edits = {"rename"}
  Workers = {w1, w2}
  Nothing = Nothing
  Unreadable = Unreadable
  DiskErrors = FALSE
  Crashes = FALSE
  Disconnects = FALSE
PROPERTIES
  HotLoaded
CHECK_DEADLOCK FALSE
