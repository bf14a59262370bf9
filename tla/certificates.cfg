SPECIFICATION FairSpec
CONSTANTS
  Purchases = {p1, p2}
  Unreadable = {p2}
  Consumer = Consumer
  Handlers = {h1, h2}
  None = None
  MaxCalls = 3
  MaxFaults = 2
CHECK_DEADLOCK FALSE
INVARIANTS CertifiedOnce DownloadsSucceed
PROPERTY PurchasesAreCertified
