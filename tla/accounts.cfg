SPECIFICATION AccountsFairSpec
CONSTANTS
  Handlers = {h}
  Consumers = {c1, c2}
  Requests = {"verifyEmail", "login", "LOCK", "DELETE"}
  MaxCalls = 2
  MaxMoves = 1
  MaxFailures = 1
CHECK_DEADLOCK FALSE
INVARIANTS UserFollowsAdmin WalletFollowsUser
PROPERTY LockReachesWallet
