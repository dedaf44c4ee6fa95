\* Requests one after the other; events in any order; every request may crash.
SPECIFICATION Spec
CONSTANTS
  s1 = s1
  s2 = s2
  Slots = {s1}
  MaxPayments = 2
  MaxAttempts = 2
  MaxEvents = 1
  Operations = {"PENDING", "CONFIRMED", "FULFILLED", "CANCELLED", "card", "cash", "refund", "view", "delete", "poll"}
  InitialOrders = {"PENDING", "CONFIRMED", "FULFILLED", "CANCELLED"}
  Ordered = FALSE
  Crashes = TRUE
INVARIANTS
  TypeOK
  RefundedIsBacked
  NeverOverRefunded
  RefundedIsClosed
  PendingHasNoPayment
PROPERTIES
  ImplementsLifecycle
  RefundFreezesOrder
CHECK_DEADLOCK FALSE
