\* Three accounts, five messages of the client and the upstream together.
SPECIFICATION Spec
CONSTANTS
  Accounts = {a1, a2, a3}
  NoAccount = NoAccount
  MaxMessages = 5
SYMMETRY Symmetry
INVARIANTS
  SettledOnce
  WholeRequest
  OneUpstreamPerTurn
  NoAccountTwice
  NothingHeldBack
  ClientTold
PROPERTIES
  LeasesAccounts
CHECK_DEADLOCK FALSE
