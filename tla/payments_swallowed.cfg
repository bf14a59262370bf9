SPECIFICATION Spec
CONSTANTS
  None = None
  Pays = {p1}
  Events = {e1, e2}
  Handlers = {h1}
  Modes <- AsScheduled
  MaxRetry = 2
  MaxCalls = 2
  MaxFaults = 0
CHECK_DEADLOCK FALSE
INVARIANT PublishedMeansSent
