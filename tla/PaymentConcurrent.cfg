\* Two requests overlap at will; events in any order.
SPECIFICATION Spec
CONSTANTS
  s1 = s1
  s2 = s2
  Slots = {s1, s2}
  MaxPayments = 1
  MaxAttempts = 1
  MaxEvents = 1
  Operations = {"PENDING", "CONFIRMED", "FULFILLED", "CANCELLED", "card", "poll", "cash", "refund"}
  InitialOrders = {"PENDING"}
  Ordered = FALSE
  Crashes = FALSE
SYMMETRY SlotSymmetry
INVARIANTS
  PaidIsBacked
  FulfilledIsBacked
  AttemptTellsTruth
CHECK_DEADLOCK FALSE
