SPECIFICATION FairSpec
CONSTANTS
  x = x
  o = o
  u = u
  n = n
  None = None
  Auctions = {x}
  Offers = {o}
  Bidders = {u, n}
  Uuids = {u}
  Handlers = {h1, h2}
  Amounts = {1, 2, 3}
  Quantities = {1, 2}
  Edits <- MCEdits
  Starting <- MCStarting
  Floor <- MCFloor
  Co2 <- MCCo2
  MinIncrement = 1
  MaxCalls = 3
  MaxAborts = 1
CHECK_DEADLOCK FALSE
INVARIANT NotOversold
PROPERTIES ImplementsAuction EndedIsClosed
