\* Two accounts, two requests, everything but client disconnects.
SPECIFICATION Spec
CONSTANTS
  Accounts = {a1, a2}
  Requests = {r1, r2}
  NoAccount = NoAccount
  Free = Free
  Admin = Admin
  RetryAfters = {}
  AllowDisconnect = FALSE
  MaxTime = 0
  Failures = {"rate_limited", "risk_controlled"}
  TemporaryCooldown = 1
  RiskCooldown = 2
  BackoffMax = 1
  LevelMax = 0
SYMMETRY Symmetry
INVARIANTS
  InFlightExact
  HoldersHaveRecords
PROPERTIES
  RetirementUndisturbed
CHECK_DEADLOCK FALSE
