\* Two requests, an administrator and an operator around the directory, with
\* crashes; disk operations succeed and clients stay.
SPECIFICATION Spec
CONSTANTS
  Tokens = {0, 1, 2, 3}
  Successor <- OneRotation
  Valid = {0, 2}
  Files <- Duplicates
  Imports = {2}
  Names = {3}
  Edits = {"drop", "rename"}
  Workers = {w1, w2}
  Nothing = Nothing
  Unreadable = Unreadable
  DiskErrors = FALSE
  Crashes = TRUE
  Disconnects = FALSE
SYMMETRY Symmetry
INVARIANTS
  TokenOnDisk
  OneAccountPerToken
PROPERTIES
  MergeKeepsTokens
  DeletedStaysDeleted
CHECK_DEADLOCK FALSE
