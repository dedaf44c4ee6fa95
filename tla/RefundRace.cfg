\* A fulfilment and a refund overlap.
SPECIFICATION Spec
CONSTANTS
  s1 = s1
  s2 = s2
  Slots = {s1, s2}
  MaxPayments = 1
  MaxAttempts = 1
  MaxEvents = 0
  Operations = {"CONFIRMED", "FULFILLED", "card", "refund"}
  InitialOrders = {"PENDING"}
  Ordered = TRUE
  Crashes = FALSE
PROPERTY RefundFreezesOrder
CHECK_DEADLOCK FALSE
