\* Cancel and reopen an order while its card payment is running.
SPECIFICATION Spec
CONSTANTS
  s1 = s1
  s2 = s2
  Slots = {s1}
  MaxPayments = 1
  MaxAttempts = 1
  MaxEvents = 1
  Operations = {"CONFIRMED", "CANCELLED", "PENDING", "card"}
  InitialOrders = {"PENDING"}
  Ordered = TRUE
  Crashes = FALSE
INVARIANT ChargeHasRecord
CHECK_DEADLOCK FALSE
