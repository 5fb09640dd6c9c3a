\* A client that leaves while its request awaits leaves its account occupied.
SPECIFICATION FairSpec
CONSTANTS
  Accounts = {a1}
  Requests = {r1}
  NoAccount = NoAccount
  Free = Free
  Admin = Admin
  RetryAfters = {2}
  AllowDisconnect = TRUE
  MaxTime = 0
  Failures = {"access_token_rejected", "auth_invalid", "rate_limited", "quota_exhausted", "risk_controlled", "temporary_failure", "request_rejected", "internal_failure"}
  TemporaryCooldown = 1
  RiskCooldown = 2
  BackoffMax = 2
  LevelMax = 1
PROPERTIES
  DisconnectReleases
CHECK_DEADLOCK FALSE
