SPECIFICATION FairSpec
CONSTANTS
  a = a
  b = b
  p1 = p1
  w1 = w1
  t1 = t1
  t2 = t2
  t3 = t3
  None = None
  Users = {a, b}
  Payments = {p1}
  Withdrawals = {w1}
  Transfers = {t1, t2, t3}
  Buyers = {a}
  Owner <- MCOwner
  To <- MCTo
  Opening <- MCOpening
  Funded <- MCFunded
  Handlers = {h1, h2}
  Regimes <- FreeOrOrderly
  MaxCalls = 3
  MaxAborts = 1
CHECK_DEADLOCK FALSE
INVARIANTS WithdrawnOnce ApprovedIsDeducted LedgerAddsUp
PROPERTY RowsGetUnlocked
