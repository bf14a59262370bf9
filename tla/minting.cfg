SPECIFICATION FairSpec
CONSTANTS
  t1 = t1
  t2 = t2
  u1 = u1
  Trips = {t1, t2}
  Users = {u1}
  Handlers = {h1, h2}
  Listener = Listener
  Minter = Minter
  None = None
  Driver <- MCDriver
  Co2 <- MCCo2
  MaxCalls = 2
  MaxFaults = 2
CHECK_DEADLOCK FALSE
INVARIANTS MintedOnce BalanceIsEarned
PROPERTY AnnouncedIsMinted
