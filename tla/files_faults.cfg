\* Everything at once: clients leave, disk operations fail, the process is killed,
\* an old token is imported again and the operator edits the directory.
SPECIFICATION Spec
CONSTANTS
  Tokens = {0, 1}
  Successor <- OneRotation
  Valid = {0}
  Files <- OneFile
  Imports = {0}
  Names = {}
  Edits = {"delete", "break"}
  Workers = {w1, w2}
  Nothing = Nothing
  Unreadable = Unreadable
  DiskErrors = TRUE
  Crashes = TRUE
  Disconnects = TRUE
SYMMETRY Symmetry
INVARIANTS
  UsersKeepAccounts
PROPERTIES
  TokenNeverGoesBack
CHECK_DEADLOCK FALSE
