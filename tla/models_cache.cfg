\* Two clients that may both read a stale list, and the background refresh, over two
\* accounts.
SPECIFICATION FairSpec
CONSTANTS
  Accounts = {a1, a2}
  NoAccount = NoAccount
  Callers = {c1, c2}
  Codex = {}
  Tasks = {t1, t2}
  Nothing = Nothing
  TTL = 1
  MaxTime = 2
  MaxVersion = 1
INVARIANTS
  OneRefresh
  FreshIsRecent
PROPERTIES
  BlamedOnlyForGarbage
  LeasesAccounts
  FetchEnds
  StaleIsReplaced
CHECK_DEADLOCK FALSE
