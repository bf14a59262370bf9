SPECIFICATION Spec
CONSTANTS
  s = s
  b = b
  c = c
  l1 = l1
  l2 = l2
  p1 = p1
  p2 = p2
  p3 = p3
  None = None
  Users = {s, b, c}
  Listings = {l1, l2}
  Purchases = {p1, p2, p3}
  Edits <- MCEdits
  Owner <- MCOwner
  Co2 <- MCCo2
  Buyer <- MCBuyer
  Of <- MCOf
  Amount <- MCAmount
  Credits <- MCCredits
  MaxFaults = 1
CHECK_DEADLOCK FALSE
INVARIANTS CompletedIsDelivered DeliveredIsPaid CreditsAddUp
