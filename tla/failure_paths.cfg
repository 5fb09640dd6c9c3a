\* Two accounts, one retry, and every way an error may be reported.
SPECIFICATION Spec
CONSTANTS
  Reports <- SmallReports
  MaxAccounts = 2
  MaxRetries = 1
INVARIANTS
  Collapsed
  RejectionShown
  LastResort
  ReportsAgree
PROPERTIES
  AskedAgain
CHECK_DEADLOCK FALSE
