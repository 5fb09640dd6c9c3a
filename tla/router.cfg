\* Three accounts, three requests at a time, and a cursor that saturates.
SPECIFICATION FairSpec
CONSTANTS
  Accounts = {1, 2, 3}
  Requests = {r1, r2, r3}
  NoAccount = NoAccount
  MaxCursor = 7
INVARIANTS
  RotationIsEven
PROPERTIES
  NotStarved
CHECK_DEADLOCK FALSE
