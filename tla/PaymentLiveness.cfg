\* Events of one object in order, crashes, retries: what Stripe did is recorded.
SPECIFICATION FairSpec
CONSTANTS
  s1 = s1
  s2 = s2
  Slots = {s1}
  MaxPayments = 1
  MaxAttempts = 2
  MaxEvents = 1
  Operations = {"CONFIRMED", "card", "poll", "refund"}
  InitialOrders = {"PENDING"}
  Ordered = TRUE
  Crashes = TRUE
PROPERTIES
  ChargeIsRecorded
  RefundIsRecorded
CHECK_DEADLOCK FALSE
