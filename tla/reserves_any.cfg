SPECIFICATION Spec
CONSTANTS
  a = a
  b = b
  c = c
  t1 = t1
  t2 = t2
  None = None
  Cron = Cron
  Users = {a, b, c}
  Tx = {t2}
  Handlers = {h1, h2}
  Buyer <- MCBuyer
  Seller <- MCSeller
  Amount <- MCAmount
  Total <- MCTotal
  Opening <- Poor
  Funded <- MCFunded
  MaxCalls = 4
  MaxAborts = 2
CHECK_DEADLOCK FALSE
SYMMETRY Symmetric
INVARIANTS TypeOK LockAppliedOnce LogFollowsTables BooksBalance BalanceWithinRecords
