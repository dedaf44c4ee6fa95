\* As PaymentLiveness without crashes, but events arrive in any order.
SPECIFICATION FairSpec
CONSTANTS
  s1 = s1
  s2 = s2
  Slots = {s1}
  MaxPayments = 1
  MaxAttempts = 1
  MaxEvents = 1
  Operations = {"CONFIRMED", "card"}
  InitialOrders = {"PENDING"}
  Ordered = FALSE
  Crashes = FALSE
PROPERTY ChargeIsRecorded
CHECK_DEADLOCK FALSE
