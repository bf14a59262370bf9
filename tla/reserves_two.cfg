SPECIFICATION FairSpec
CONSTANTS
  a = a
  b = b
  c = c
  t1 = t1
  t2 = t2
  None = None
  Cron = Cron
  Users = {a, b, c}
  Tx = {t1, t2}
  Handlers = {h1}
  Buyer <- MCBuyer
  Seller <- MCSeller
  Amount <- MCAmount
  Total <- MCTotal
  Opening <- Poor
  Funded <- MCFunded
  MaxCalls = 2
  MaxAborts = 1
CHECK_DEADLOCK FALSE
INVARIANTS BooksBalance BalanceWithinRecords
PROPERTIES ImplementsEscrow ExpiredReserveReclaimed
