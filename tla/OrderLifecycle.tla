----------------------------- MODULE OrderLifecycle -----------------------------
(***************************************************************************)
(* What orders and payments promise together, one transaction at a time:   *)
(* the status of an order, the status of its payment and the outcome of    *)
(* its refund, as the API shows them.  Requests have no steps here and     *)
(* Stripe has no state; a report from Stripe may say anything the guards   *)
(* do not exclude.  OrderPayment implements this lifecycle as long as its  *)
(* requests do not overlap.                                                *)
(***************************************************************************)
EXTENDS PaymentStatus

VARIABLES
  status,     \* Order.status, or "DELETED"
  payment,    \* Payment.paymentStatus, "ABSENT" without a row
  refunded    \* Payment.refundStatus

vars == <<status, payment, refunded>>

TypeOK ==
  /\ status \in OrderStatus \cup {"DELETED"}
  /\ payment \in PaymentState \cup {"ABSENT"}
  /\ refunded \in RefundStatus

Init == status \in OrderStatus /\ payment = "ABSENT" /\ refunded = "NONE"

NoRefundRuns == refunded \in {"NONE", "FAILED"}
Reported     == {"PENDING", "FAILED", "PAID"}       \* what Stripe's reports can set

Confirm ==
  /\ status = "PENDING" /\ payment = "ABSENT"
  /\ status' = "CONFIRMED" /\ payment' = "UNPAID" /\ UNCHANGED refunded

Fulfil ==
  /\ status = "CONFIRMED" /\ payment = "PAID" /\ refunded = "NONE"
  /\ status' = "FULFILLED" /\ UNCHANGED <<payment, refunded>>

CancelPending ==
  /\ status = "PENDING"
  /\ status' = "CANCELLED" /\ UNCHANGED <<payment, refunded>>

\* A card payment in progress ends as Stripe says, perhaps too late to be cancelled.
CancelConfirmed ==
  /\ status = "CONFIRMED" /\ payment # "PAID" /\ NoRefundRuns
  /\ status' = "CANCELLED" /\ UNCHANGED refunded
  /\ \/ payment = "PENDING" /\ payment' \in Reported
     \/ payment = "ABSENT" /\ payment' = "UNPAID"
     \/ payment # "ABSENT" /\ payment' = payment

Reopen ==
  /\ status = "CANCELLED" /\ payment # "PAID" /\ NoRefundRuns
  /\ status' = "PENDING" /\ payment' = "ABSENT" /\ refunded' = "NONE"

Collect ==
  /\ status = "CONFIRMED" /\ payment # "PAID" /\ NoRefundRuns
  /\ \/ payment' = "PENDING"
     \/ payment # "PENDING" /\ payment' = "PAID"
  /\ UNCHANGED <<status, refunded>>

StripeReportsPayment ==
  /\ payment \in Reported /\ payment' \in Reported
  /\ UNCHANGED <<status, refunded>>

Refundable ==
  status \in {"CONFIRMED", "FULFILLED"} /\ payment = "PAID" /\ NoRefundRuns

RequestRefund ==
  /\ Refundable
  /\ refunded' = "REQUESTED" /\ UNCHANGED <<status, payment>>

\* The completed refund and the cancellation of a confirmed order are one step.
RefundEnds(outcome) ==
  /\ refunded' = outcome /\ UNCHANGED payment
  /\ status' = IF outcome = "REFUNDED" /\ status = "CONFIRMED" THEN "CANCELLED" ELSE status

RefundCash == Refundable /\ RefundEnds("REFUNDED")

StripeReportsRefund ==
  \E outcome \in {"PENDING", "FAILED", "REFUNDED"} :
    refunded # "NONE" /\ RefundEnds(outcome)

\* An order older than payments gets its row when it is first looked at.
Backfill ==
  /\ status \in {"CONFIRMED", "FULFILLED", "CANCELLED"} /\ payment = "ABSENT"
  /\ payment' = IF status = "FULFILLED" THEN "PAID" ELSE "UNPAID"
  /\ UNCHANGED <<status, refunded>>

Delete ==
  /\ status # "DELETED"
  /\ status' = "DELETED" /\ payment' = "ABSENT" /\ refunded' = "NONE"

Next ==
  \/ Confirm \/ Fulfil \/ CancelPending \/ CancelConfirmed \/ Reopen \/ Collect
  \/ StripeReportsPayment \/ RequestRefund \/ RefundCash \/ StripeReportsRefund
  \/ Backfill \/ Delete

Spec == Init /\ [][Next]_vars

\* "PENDING orders do not have a payment row", and no order without one has a refund
\* (docs/domains/order.md).
PendingHasNoPayment ==
  /\ status = "PENDING" => payment = "ABSENT"
  /\ payment = "ABSENT" => refunded = "NONE"

\* A refunded order is closed: cancelled if it was confirmed, fulfilled otherwise, and
\* never open for fulfilment, collection or editing (docs/domains/payment.md).
RefundedIsClosed == refunded = "REFUNDED" => status \in {"CANCELLED", "FULFILLED"}
================================================================================
