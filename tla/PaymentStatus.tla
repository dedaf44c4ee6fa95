----------------------------- MODULE PaymentStatus -----------------------------
(***************************************************************************)
(* The status vocabulary of orders and payments, and the pure functions    *)
(* that translate one vocabulary into another: Stripe's intent and refund  *)
(* states into the persisted columns (payment.service.ts), and the         *)
(* persisted columns into the financial status shown to staff              *)
(* (payment.utils.ts).  Names follow the source.                           *)
(***************************************************************************)

OrderStatus   == {"PENDING", "CONFIRMED", "FULFILLED", "CANCELLED"}
PaymentState  == {"UNPAID", "PENDING", "FAILED", "PAID"}
RefundStatus  == {"NONE", "REQUESTED", "PENDING", "FAILED", "REFUNDED"}
PaymentMethod == {"NONE", "CARD", "CASH"}       \* "NONE" is SQL NULL
AttemptStatus == {"PENDING", "REQUIRES_ACTION", "SUCCEEDED", "FAILED", "CANCELED"}

ACTIVE_REFUND_STATUSES       == {"REQUESTED", "PENDING"}
CARD_ACTIVE_ATTEMPT_STATUSES == {"PENDING", "REQUIRES_ACTION"}

\* Stripe's own states of an intent created with payment_method_types: ['card'],
\* and of a refund.
IntentStatus == {"requires_payment_method", "requires_action", "processing",
                 "succeeded", "canceled"}
StripeRefundStatus == {"pending", "succeeded", "failed"}

(***************************************************************************)
(* mapPaymentIntentState: the three columns it decides, one operator each. *)
(* requires_confirmation is handled with requires_action by the code and   *)
(* cannot occur for intents confirmed from the browser.                    *)
(***************************************************************************)
PaidWhileProcessing(st) ==              \* mutated form: processing counts as paid
  CASE st \in {"succeeded", "processing"}                 -> "PAID"
    [] st \in {"requires_payment_method", "canceled"}     -> "FAILED"
    [] OTHER                                              -> "PENDING"

AttemptVocabulary(st) ==                \* mutated form: the attempt's word for success
  IF st = "succeeded" THEN "SUCCEEDED" ELSE "PENDING"

PaymentStatusOf(st) ==
  CASE st = "succeeded"                                   -> "PAID"
    [] st \in {"requires_payment_method", "canceled"}     -> "FAILED"
    [] OTHER                                              -> "PENDING"

CanceledWhenDeclined(st) ==             \* mutated form: a declined card ends the attempt
  CASE st = "succeeded"                                   -> "SUCCEEDED"
    [] st \in {"requires_payment_method", "canceled"}     -> "CANCELED"
    [] OTHER                                              -> "PENDING"

AttemptStatusOf(st) ==
  CASE st = "succeeded"               -> "SUCCEEDED"
    [] st = "requires_action"         -> "REQUIRES_ACTION"
    [] st = "requires_payment_method" -> "FAILED"
    [] st = "canceled"                -> "CANCELED"
    [] OTHER                          -> "PENDING"

RefundedWhilePending(st) ==             \* mutated form: an accepted refund counts as done
  IF st = "failed" THEN "FAILED" ELSE "REFUNDED"

RefundStatusOf(st) ==
  CASE st = "succeeded" -> "REFUNDED"
    [] st = "failed"    -> "FAILED"
    [] OTHER            -> "PENDING"

(***************************************************************************)
(* deriveFinancialStatus: one status for the UI, the refund outcome first. *)
(* ABSENT stands for "no payment row".                                     *)
(***************************************************************************)
FinancialStatus == {"NO_PAYMENT", "UNPAID", "PAYMENT_PENDING", "PAYMENT_FAILED", "PAID",
                    "REFUND_REQUESTED", "REFUND_PENDING", "REFUND_FAILED", "REFUNDED"}

DeriveFinancialStatus(status, refund) ==
  CASE status = "ABSENT"    -> "NO_PAYMENT"
    [] status # "ABSENT" /\ refund = "REFUNDED"  -> "REFUNDED"
    [] status # "ABSENT" /\ refund = "REQUESTED" -> "REFUND_REQUESTED"
    [] status # "ABSENT" /\ refund = "PENDING"   -> "REFUND_PENDING"
    [] status # "ABSENT" /\ refund = "FAILED"    -> "REFUND_FAILED"
    [] status = "PAID"    /\ refund = "NONE" -> "PAID"
    [] status = "PENDING" /\ refund = "NONE" -> "PAYMENT_PENDING"
    [] status = "FAILED"  /\ refund = "NONE" -> "PAYMENT_FAILED"
    [] OTHER -> "UNPAID"

\* Transitions a staff member may ask for (allowedTransitions in order.service.ts).
AllowedTransitions(from) ==
  CASE from = "PENDING"   -> {"CONFIRMED", "CANCELLED"}
    [] from = "CONFIRMED" -> {"FULFILLED", "CANCELLED"}
    [] from = "CANCELLED" -> {"PENDING"}
    [] OTHER              -> {}
================================================================================
