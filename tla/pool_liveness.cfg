\* One account contended by two requests, whose clients may leave: every request
\* whose client stays is answered.
SPECIFICATION FairSpec
CONSTANTS
  Accounts = {a1}
  Requests = {r1, r2}
  NoAccount = NoAccount
  Free = Free
  Admin = Admin
  RetryAfters = {}
  AllowDisconnect = TRUE
  MaxTime = 1
  Failures = {"access_token_rejected", "rate_limited", "request_rejected"}
  TemporaryCooldown = 1
  RiskCooldown = 2
  BackoffMax = 1
  LevelMax = 0
PROPERTIES
  EventuallyAnswered
CHECK_DEADLOCK FALSE
