SPECIFICATION FairSpec
CONSTANTS
  None = None
  Pays = {p1}
  Events = {e1, e2, e3}
  Handlers = {h1, h2}
  Modes <- AllModes
  MaxRetry = 2
  MaxCalls = 3
  MaxFaults = 2
CHECK_DEADLOCK FALSE
INVARIANTS OutcomesAreTrue OnlyFaultsLoseEvents
PROPERTIES EventuallySent ImplementsLifecycle
