SPECIFICATION Spec
CONSTANTS
  Docs = {d1, d2}
  Overrides = {r1}
  Admins = {a1, a2}
  Handlers = {h1, h2}
  MaxCalls = 4
  MaxFaults = 1
CHECK_DEADLOCK FALSE
SYMMETRY Symmetric
INVARIANTS ApprovedHasEvidence AdminKnowsKyc DecisionStands OwnEditsAreSeen
