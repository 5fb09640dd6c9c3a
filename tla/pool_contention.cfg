\* One account, three requests, every class of failure, time long enough for
\* every block to expire.
SPECIFICATION Spec
CONSTANTS
  Accounts = {a1}
  Requests = {r1, r2, r3}
  NoAccount = NoAccount
  Free = Free
  Admin = Admin
  RetryAfters = {2}
  AllowDisconnect = FALSE
  MaxTime = 2
  Failures = {"access_token_rejected", "auth_invalid", "rate_limited", "quota_exhausted", "risk_controlled", "temporary_failure", "request_rejected", "internal_failure"}
  TemporaryCooldown = 1
  RiskCooldown = 2
  BackoffMax = 2
  LevelMax = 1
SYMMETRY Symmetry
INVARIANTS
  RefreshFlagHasOwner
  DetachedInUse
  ReadyMeansUnblocked
PROPERTIES
  BlockNotCutShort
CHECK_DEADLOCK FALSE
