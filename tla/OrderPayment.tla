------------------------------ MODULE OrderPayment ------------------------------
(***************************************************************************)
(* One order, its payment row, its card attempts and everything that acts  *)
(* on them: OrderService.transitionStatus/deleteOrder, PaymentService, the *)
(* Stripe webhook controller, and Stripe with the customer's browser.      *)
(*                                                                         *)
(* PostgreSQL runs at READ COMMITTED.  A request is therefore a sequence   *)
(* of steps: it reads committed rows, perhaps calls Stripe, then writes    *)
(* and commits.  Row locks last until the commit, so the writes of one     *)
(* transaction take effect at one instant, and what it read before may be  *)
(* stale by then.  A request occupies a slot from its first read to its    *)
(* commit; with one slot requests never overlap (Stripe still moves).      *)
(***************************************************************************)
EXTENDS PaymentStatus, Naturals, Sequences, FiniteSets

CONSTANTS
  Slots,          \* backend requests that may be open at the same time
  MaxPayments,    \* bound: payment rows ever inserted for the order
  MaxAttempts,    \* bound: card attempts ever started
  MaxEvents,      \* bound: non-final events of one intent
  Operations,     \* requests staff issue in this instance
  InitialOrders,  \* status of the order when the behaviour starts
  Ordered,        \* TRUE: events of one Stripe object arrive in emission order
  Crashes         \* TRUE: an open request may die or time out at any step

AllOperations == OrderStatus \cup {"card", "poll", "cash", "refund", "view", "delete"}

ASSUME BoundsAssumption == MaxPayments \in Nat /\ MaxAttempts \in Nat /\ MaxEvents \in Nat
ASSUME OperationsAssumption ==
  Operations \subseteq AllOperations /\ InitialOrders \subseteq OrderStatus
ASSUME RegimeAssumption == Ordered \in BOOLEAN /\ Crashes \in BOOLEAN

PaymentIds == 1..MaxPayments
AttemptIds == 1..MaxAttempts

VARIABLES
  order,          \* Order.status, or "DELETED"
  placed,         \* Order.placedAt is set
  pay,            \* the order's Payment row, or NoPayment
  payments,       \* number of payment ids handed out
  attempt,        \* PaymentAttempt.status per attempt, "NONE" without a row
  received,       \* StripeWebhookReceipt rows: ids of processed events
  intent,         \* Stripe: PaymentIntent.status, "none" before creation
  owner,          \* Stripe: payment id in the intent's metadata
  emitted,        \* Stripe: status snapshots sent as events, in order
  refund,         \* Stripe: the refund made under the key refund:<payment id>
  refundEmitted,  \* Stripe: refund status snapshots sent as events
  req,            \* the open request of each slot
  cash, cashBack, \* history: payments settled in cash, cash handed back
  legacy          \* history: the order was fulfilled before payments existed

database == <<order, placed, pay, payments, attempt>>
stripe   == <<intent, owner, emitted, refund, refundEmitted>>
history  == <<cash, cashBack, legacy>>
vars     == <<database, received, stripe, req, history>>

--------------------------------------------------------------------------------
(* Rows, requests and the type invariant *)

NoPayment == [id |-> 0, status |-> "ABSENT", method |-> "NONE", refund |-> "NONE"]
NoRefund  == [now |-> "none", first |-> "none", att |-> 0]

Idle == [op |-> "idle", at |-> "idle", order |-> "PENDING", pay |-> NoPayment,
         att |-> 0, was |-> "NONE", seen |-> "none", event |-> 0]

PaymentRow == [id: 0..MaxPayments, status: PaymentState \cup {"ABSENT"},
               method: PaymentMethod, refund: RefundStatus]

Request == [op: OrderStatus \cup {"idle", "card", "poll", "cash", "view", "refundCash",
                                  "refundCard", "intentEvent", "refundEvent"},
            at: {"idle", "payment", "attempt", "request", "stripe", "fresh", "failed", "commit"},
            order: OrderStatus, pay: PaymentRow, att: 0..MaxAttempts,
            was: AttemptStatus \cup {"NONE"},
            seen: IntentStatus \cup StripeRefundStatus \cup {"none"}, event: Nat]

EventIds == {"intentEvent", "refundEvent"} \X Nat \X Nat

TypeOK ==
  /\ order \in OrderStatus \cup {"DELETED"}
  /\ placed \in BOOLEAN /\ legacy \in BOOLEAN
  /\ pay \in PaymentRow /\ (pay.id = 0 <=> pay = NoPayment)
  /\ payments \in 0..MaxPayments
  /\ attempt \in [AttemptIds -> AttemptStatus \cup {"NONE"}]
  /\ received \subseteq EventIds
  /\ intent \in [AttemptIds -> IntentStatus \cup {"none"}]
  /\ owner \in [AttemptIds -> 0..MaxPayments]
  /\ emitted \in [AttemptIds -> Seq(IntentStatus)]
  /\ refund \in [PaymentIds -> [now: StripeRefundStatus \cup {"none"},
                                first: StripeRefundStatus \cup {"none"},
                                att: 0..MaxAttempts]]
  /\ refundEmitted \in [PaymentIds -> Seq(StripeRefundStatus)]
  /\ req \in [Slots -> Request]
  /\ cash \subseteq PaymentIds
  /\ cashBack \in [PaymentIds -> Nat]

Init ==
  /\ order \in InitialOrders
  /\ placed \in {b \in BOOLEAN : /\ order = "PENDING" => ~b
                                 /\ order \in {"CONFIRMED", "FULFILLED"} => b}
  /\ pay = NoPayment /\ payments = 0
  /\ attempt = [a \in AttemptIds |-> "NONE"]
  /\ received = {}
  /\ intent = [a \in AttemptIds |-> "none"] /\ owner = [a \in AttemptIds |-> 0]
  /\ emitted = [a \in AttemptIds |-> <<>>]
  /\ refund = [p \in PaymentIds |-> NoRefund]
  /\ refundEmitted = [p \in PaymentIds |-> <<>>]
  /\ req = [s \in Slots |-> Idle]
  /\ cash = {} /\ cashBack = [p \in PaymentIds |-> 0]
  /\ legacy = (order = "FULFILLED")

--------------------------------------------------------------------------------
(* What a request reads and checks *)

Free(s)     == req[s].op = "idle"
Begin(s, r) == req' = [req EXCEPT ![s] = r]
Finish(s)   == req' = [req EXCEPT ![s] = Idle]
At(s, op, at) == req[s].op = op /\ req[s].at = at

\* The payment a handler works with: the row it finds, or the one it inserts for
\* an order older than payments.  Such a row has no id before the commit.
EffectivePayment ==
  IF pay # NoPayment THEN pay
  ELSE IF order = "PENDING" \/ (order = "CANCELLED" /\ ~placed) THEN NoPayment
  ELSE [NoPayment EXCEPT !.status = IF order = "FULFILLED" THEN "PAID" ELSE "UNPAID"]

Exists(p)   == p.status # "ABSENT"
Inserted(p) == p.status # "ABSENT" /\ p.id = 0

\* attempts[0] under orderBy createdAt desc, overall and among given statuses.
LatestAmong(a, statuses) ==
  attempt[a] \in statuses /\ \A b \in AttemptIds : attempt[b] \in statuses => b <= a

Reusable(p, a) ==
  /\ LatestAmong(a, AttemptStatus)
  /\ p.status = "PENDING" /\ attempt[a] \in CARD_ACTIVE_ATTEMPT_STATUSES

NoneReusable(p) == \A a \in AttemptIds : ~Reusable(p, a)

NotFailed(p) == p.status # "FAILED" /\ p.refund = "NONE"   \* mutated form of CanFulfil
PaidOnly(p) == p.status = "PAID"                            \* mutated form of CanFulfil
CanFulfil(p) == p.status = "PAID" /\ p.refund = "NONE"

IgnoresRefund(p) == p.status # "PAID"                       \* mutated form of CanVoid
CanVoid(p) ==
  /\ p.status # "PAID" /\ p.refund # "REFUNDED"
  /\ p.refund \notin ACTIVE_REFUND_STATUSES

AcceptsCollection(p) ==
  p.refund \notin {"REFUNDED"} \cup ACTIVE_REFUND_STATUSES /\ p.status # "PAID"

AcceptsCash(p) ==
  p.refund \notin ACTIVE_REFUND_STATUSES /\ p.status \notin {"PAID", "PENDING"}

RefundsTwice(o, p) ==                               \* mutated form of CanRefund
  o \in {"CONFIRMED", "FULFILLED"} /\ p.status = "PAID"
CanRefund(o, p) ==
  /\ o \in {"CONFIRMED", "FULFILLED"} /\ p.status = "PAID"
  /\ p.refund \notin {"REFUNDED"} \cup ACTIVE_REFUND_STATUSES

--------------------------------------------------------------------------------
(* What a transaction writes *)

\* UPDATE by primary key: the row read must still be there.  A row the transaction
\* inserts needs its order, the unique index on orderId free, and an id.
Writable(p) ==
  IF p.id = 0 THEN order # "DELETED" /\ pay = NoPayment /\ payments < MaxPayments
  ELSE pay.id = p.id

Stored(p) == IF p.id = 0 THEN [p EXCEPT !.id = payments + 1] ELSE pay

Write(p, row) ==
  /\ Writable(p)
  /\ pay' = row
  /\ payments' = IF p.id = 0 THEN payments + 1 ELSE payments

\* The lazily inserted row is part of the transaction even if nothing else is.
InsertIfNew(p) ==
  IF Inserted(p) THEN Write(p, Stored(p)) ELSE UNCHANGED <<pay, payments>>

\* applyPaymentIntentStateTx: p and the attempt status was are as read, st is the
\* snapshot of the intent.  The comparison decides whether to write; the write
\* itself goes to the current rows.  A failure text may differ from the last one.
FailedIsFinal(p, a, was, st) ==                     \* mutated form: no report revises a failure
  IF was = "FAILED" THEN UNCHANGED <<attempt, pay>>
  ELSE /\ attempt' = [attempt EXCEPT ![a] = AttemptStatusOf(st)]
       /\ pay.id = p.id
       /\ pay' = [pay EXCEPT !.method = "CARD", !.status = PaymentStatusOf(st)]

ApplyIntent(p, a, was, st) ==
  \E newText \in {b \in BOOLEAN : b => PaymentStatusOf(st) = "FAILED"} :
    LET attemptChanged == newText \/ was # AttemptStatusOf(st)
        paymentChanged == newText \/ p.status # PaymentStatusOf(st) \/ p.method # "CARD"
    IN  /\ attempt' = IF attemptChanged
                      THEN [attempt EXCEPT ![a] = AttemptStatusOf(st)] ELSE attempt
        /\ IF attemptChanged \/ paymentChanged
           THEN /\ pay.id = p.id
                /\ pay' = [pay EXCEPT !.method = "CARD", !.status = PaymentStatusOf(st)]
           ELSE pay' = pay

\* applyRefundStateTx: the order status o and the payment p are as read.
OnlyWhenRequested(o, p, st) ==                      \* mutated form: a failure is never revised
  /\ IF p.refund = "REQUESTED"
     THEN pay.id = p.id /\ pay' = [pay EXCEPT !.refund = RefundStatusOf(st)]
     ELSE pay' = pay
  /\ order' = IF RefundStatusOf(st) = "REFUNDED" /\ o = "CONFIRMED" THEN "CANCELLED" ELSE order

LeavesOrder(o, p, st) ==                            \* mutated form: the order is not cancelled
  /\ pay.id = p.id /\ pay' = [pay EXCEPT !.refund = RefundStatusOf(st)]
  /\ order' = order

ApplyRefund(o, p, st) ==
  /\ IF \/ p.refund # RefundStatusOf(st) \/ RefundStatusOf(st) = "FAILED"
        \/ p.method = "CASH"               \* a cash refund left no stripeRefundId
     THEN pay.id = p.id /\ pay' = [pay EXCEPT !.refund = RefundStatusOf(st)]
     ELSE pay' = pay
  /\ IF RefundStatusOf(st) = "REFUNDED" /\ o = "CONFIRMED"
     THEN order # "DELETED" /\ order' = "CANCELLED"
     ELSE order' = order

--------------------------------------------------------------------------------
(* OrderService.transitionStatus *)

\* Reads the order with its payment, and checks the transition.  Cancelling from
\* PENDING and confirming do not look at the payment.
ReadTransition(s, to) ==
  /\ Free(s) /\ to \in Operations
  /\ order # "DELETED" /\ to \in AllowedTransitions(order)
  /\ IF to \in {"FULFILLED", "PENDING"} \/ order = "CONFIRMED"
     THEN Begin(s, [Idle EXCEPT !.op = to, !.at = "payment", !.pay = EffectivePayment])
     ELSE Begin(s, [Idle EXCEPT !.op = to, !.at = "commit"])
  /\ UNCHANGED <<database, received, stripe, history>>

\* ensureTransitionPaymentTx reads the payment again: the one of that id, or, where there
\* was none, the one the order has by now, or the one it inserts.
Reread(r) == IF r.pay.id = 0 /\ pay = NoPayment THEN r.pay ELSE pay

Permits(to, p) == IF to = "FULFILLED" THEN CanFulfil(p) ELSE Exists(p) => CanVoid(p)

ReadPayment(s) ==
  /\ req[s].op \in OrderStatus /\ req[s].at = "payment"
  /\ LET r == req[s]
         p == Reread(r)
     IN  /\ r.pay.id \in {0, pay.id} /\ Permits(r.op, p)
         /\ Begin(s, [r EXCEPT !.pay = p, !.at = IF r.op = "FULFILLED" \/ p.id = 0 THEN "commit" ELSE "attempt"])
  /\ UNCHANGED <<database, received, stripe, history>>

\* cancelActiveCardAttemptTx and deletePaymentForReopenTx read it once more, for its attempts.
ReadAttempt(s) ==
  /\ req[s].op \in {"CANCELLED", "PENDING"} /\ req[s].at = "attempt" /\ pay.id = req[s].pay.id
  /\ \/ /\ NoneReusable(pay)
        /\ Begin(s, [req[s] EXCEPT !.at = "commit", !.pay = pay])
     \/ \E a \in AttemptIds :
          /\ Reusable(pay, a)
          /\ Begin(s, [req[s] EXCEPT !.at = "stripe", !.pay = pay, !.att = a, !.was = attempt[a]])
  /\ UNCHANGED <<database, received, stripe, history>>

\* cancelPaymentIntentForSync: cancel the intent, or learn its state when Stripe
\* refuses to (or the call fails) and it is fetched instead.
CancelIntent(s) ==
  /\ req[s].op \in {"CANCELLED", "PENDING"} /\ req[s].at = "stripe"
  /\ LET a == req[s].att IN
     \/ /\ intent[a] \in {"requires_payment_method", "requires_action"}
        /\ intent' = [intent EXCEPT ![a] = "canceled"]
        /\ emitted' = [emitted EXCEPT ![a] = Append(@, "canceled")]
        /\ Begin(s, [req[s] EXCEPT !.at = "commit", !.seen = "canceled"])
     \/ /\ Crashes \/ intent[a] \in {"processing", "succeeded", "canceled"}
        /\ Begin(s, [req[s] EXCEPT !.at = "commit", !.seen = intent[a]])
        /\ UNCHANGED <<intent, emitted>>
  /\ UNCHANGED <<database, received, owner, refund, refundEmitted, history>>

\* createPaymentForConfirmedOrderTx runs after the order row is locked: it sees
\* the row a concurrent confirmation committed.
CreatePaymentForConfirmedOrder ==
  IF pay # NoPayment THEN UNCHANGED <<pay, payments>>
  ELSE /\ payments < MaxPayments
       /\ payments' = payments + 1
       /\ pay' = [NoPayment EXCEPT !.id = payments + 1, !.status = "UNPAID"]

CommitConfirm(s) ==
  /\ At(s, "CONFIRMED", "commit") /\ order # "DELETED"
  /\ order' = "CONFIRMED" /\ placed' = TRUE
  /\ CreatePaymentForConfirmedOrder
  /\ Finish(s)
  /\ UNCHANGED <<attempt, received, stripe, history>>

CommitFulfil(s) ==
  /\ At(s, "FULFILLED", "commit") /\ order # "DELETED"
  /\ order' = "FULFILLED"
  /\ Finish(s)
  /\ UNCHANGED <<placed, pay, payments, attempt, received, stripe, history>>

CommitCancel(s) ==
  /\ At(s, "CANCELLED", "commit") /\ order # "DELETED"
  /\ order' = "CANCELLED"
  /\ LET r == req[s] IN
     IF r.att = 0
     THEN InsertIfNew(r.pay) /\ UNCHANGED attempt
     ELSE ApplyIntent(r.pay, r.att, r.was, r.seen) /\ UNCHANGED payments
  /\ Finish(s)
  /\ UNCHANGED <<placed, received, stripe, history>>

\* deletePaymentForReopenTx: what Stripe answered to the cancellation is not used.
KeepsPayment(p) == UNCHANGED <<pay, attempt>>                           \* mutated form
DeletePaymentForReopen(p) ==
  IF ~Exists(p) THEN UNCHANGED <<pay, attempt>>
  ELSE /\ IF p.id = 0 THEN pay = NoPayment ELSE pay.id = p.id
       /\ pay' = NoPayment
       /\ attempt' = [a \in AttemptIds |-> "NONE"]

CommitReopen(s) ==
  /\ At(s, "PENDING", "commit") /\ order # "DELETED"
  /\ order' = "PENDING" /\ placed' = FALSE
  /\ DeletePaymentForReopen(req[s].pay)
  /\ Finish(s)
  /\ UNCHANGED <<payments, received, stripe, history>>

\* deleteOrder: one DELETE in any status; payment and attempts cascade.
DeleteOrder(s) ==
  /\ Free(s) /\ "delete" \in Operations /\ order # "DELETED"
  /\ order' = "DELETED" /\ pay' = NoPayment
  /\ attempt' = [a \in AttemptIds |-> "NONE"]
  /\ UNCHANGED <<placed, payments, received, stripe, req, history>>

--------------------------------------------------------------------------------
(* PaymentService: collection *)

\* getPaymentByOrderId, and the backfill with which confirmCardPayment and
\* refundPayment start outside a transaction (both then fail: no attempt exists).
ReadLegacy(s) ==
  /\ Free(s) /\ Operations \cap {"view", "poll", "refund"} # {}
  /\ order # "DELETED" /\ Inserted(EffectivePayment)
  /\ Begin(s, [Idle EXCEPT !.op = "view", !.at = "commit", !.pay = EffectivePayment])
  /\ UNCHANGED <<database, received, stripe, history>>

CommitLegacy(s) ==
  /\ At(s, "view", "commit")
  /\ order # "DELETED" /\ InsertIfNew(req[s].pay)
  /\ Finish(s)
  /\ UNCHANGED <<order, placed, attempt, received, stripe, history>>

\* initiateCardPayment.  With a reusable attempt its secret is returned again.
ReadCard(s) ==
  /\ Free(s) /\ "card" \in Operations /\ order = "CONFIRMED"
  /\ AcceptsCollection(EffectivePayment) /\ NoneReusable(EffectivePayment)
  /\ \E a \in AttemptIds : intent[a] = "none"                   \* bound
  /\ Begin(s, [Idle EXCEPT !.op = "card", !.at = "commit", !.pay = EffectivePayment])
  /\ UNCHANGED <<database, received, stripe, history>>

\* The intent is created inside the transaction under a key of its own.  Its secret
\* leaves with the response, so an intent whose transaction aborts is never paid.
CommitCard(s) ==
  /\ At(s, "card", "commit")
  /\ \E a \in AttemptIds :
       /\ \A b \in AttemptIds : intent[b] # "none" <=> b < a
       /\ attempt' = [attempt EXCEPT ![a] = "PENDING"]
       /\ LET p == req[s].pay IN
          /\ Write(p, [Stored(p) EXCEPT !.method = "CARD", !.status = "PENDING"])
          /\ owner' = [owner EXCEPT ![a] = Stored(p).id]
       /\ intent' = [intent EXCEPT ![a] = "requires_payment_method"]
  /\ Finish(s)
  /\ UNCHANGED <<order, placed, received, emitted, refund, refundEmitted, history>>

\* confirmCardPayment: read, fetch the intent outside any transaction, read again
\* inside one, apply what was fetched.
ReadPoll(s) ==
  /\ Free(s) /\ "poll" \in Operations /\ order # "DELETED"
  /\ \E a \in AttemptIds :
       /\ LatestAmong(a, AttemptStatus)
       /\ Begin(s, [Idle EXCEPT !.op = "poll", !.at = "stripe", !.pay = pay, !.att = a])
  /\ UNCHANGED <<database, received, stripe, history>>

RetrieveIntent(s) ==
  /\ At(s, "poll", "stripe")
  /\ Begin(s, [req[s] EXCEPT !.at = "fresh", !.seen = intent[req[s].att]])
  /\ UNCHANGED <<database, received, stripe, history>>

\* The transaction that applies the intent finds attempt and payment and reads them again.
ReadAgain(s) ==
  /\ req[s].op \in {"poll", "intentEvent"} /\ req[s].at = "fresh" /\ pay.id = req[s].pay.id
  /\ Begin(s, [req[s] EXCEPT !.at = "commit", !.pay = pay, !.was = attempt[req[s].att]])
  /\ UNCHANGED <<database, received, stripe, history>>

CommitPoll(s) ==
  /\ At(s, "poll", "commit")
  /\ LET r == req[s] IN ApplyIntent(r.pay, r.att, r.was, r.seen)
  /\ Finish(s)
  /\ UNCHANGED <<order, placed, payments, received, stripe, history>>

\* markCashPaid
ReadCash(s) ==
  /\ Free(s) /\ "cash" \in Operations /\ order = "CONFIRMED"
  /\ AcceptsCash(EffectivePayment)
  /\ Begin(s, [Idle EXCEPT !.op = "cash", !.at = "commit", !.pay = EffectivePayment])
  /\ UNCHANGED <<database, received, stripe, history>>

CommitCash(s) ==
  /\ At(s, "cash", "commit")
  /\ LET p == req[s].pay IN
     /\ Write(p, [Stored(p) EXCEPT !.method = "CASH", !.status = "PAID"])
     /\ cash' = cash \cup {Stored(p).id}
  /\ Finish(s)
  /\ UNCHANGED <<order, placed, attempt, received, stripe, cashBack, legacy>>

--------------------------------------------------------------------------------
(* PaymentService: refunds *)

\* refundPayment reads and checks outside any transaction.
ReadRefund(s) ==
  /\ Free(s) /\ "refund" \in Operations
  /\ pay # NoPayment /\ CanRefund(order, pay)
  /\ \/ /\ pay.method = "CASH"
        /\ Begin(s, [Idle EXCEPT !.op = "refundCash", !.at = "fresh", !.pay = pay])
     \/ \E a \in AttemptIds :
          /\ pay.method # "CASH" /\ LatestAmong(a, {"SUCCEEDED"})
          /\ Begin(s, [Idle EXCEPT !.op = "refundCard", !.at = "request",
                                   !.pay = pay, !.att = a])
  /\ UNCHANGED <<database, received, stripe, history>>

\* The transaction that will write the outcome reads the order again, then the payment,
\* and repeats none of the checks.
ReadOrderAgain(s) ==
  /\ req[s].op \in {"refundCash", "refundCard"} /\ req[s].at = "fresh" /\ order # "DELETED"
  /\ Begin(s, [req[s] EXCEPT !.at = "payment", !.order = order])
  /\ UNCHANGED <<database, received, stripe, history>>

ReadRefundAgain(s) ==
  /\ req[s].op \in {"refundCash", "refundCard"} /\ req[s].at = "payment" /\ pay.id = req[s].pay.id
  /\ Begin(s, [req[s] EXCEPT !.at = "commit", !.pay = pay])
  /\ UNCHANGED <<database, received, stripe, history>>

\* A cash refund passes through REQUESTED inside the transaction.
CommitRefundCash(s) ==
  /\ At(s, "refundCash", "commit")
  /\ LET r == req[s] IN
     /\ pay.id = r.pay.id
     /\ pay' = [pay EXCEPT !.refund = "REFUNDED"]
     /\ order' = IF r.order = "CONFIRMED" THEN "CANCELLED" ELSE order
     /\ cashBack' = [cashBack EXCEPT ![r.pay.id] = @ + 1]
  /\ Finish(s)
  /\ UNCHANGED <<placed, payments, attempt, received, stripe, cash, legacy>>

\* markRefundRequestedTx, in a transaction of its own.
CommitRefundRequested(s) ==
  /\ At(s, "refundCard", "request") /\ pay.id = req[s].pay.id
  /\ pay' = [pay EXCEPT !.refund = "REQUESTED"]
  /\ Begin(s, [req[s] EXCEPT !.at = "stripe"])
  /\ UNCHANGED <<order, placed, payments, attempt, received, stripe, history>>

\* The first call under the key refund:<payment id>.  The response may be lost.
CreateRefund(s, st) ==
  /\ At(s, "refundCard", "stripe")
  /\ LET id == req[s].pay.id IN
     /\ refund[id] = NoRefund
     /\ refund' = [refund EXCEPT ![id] = [now |-> st, first |-> st, att |-> req[s].att]]
     /\ refundEmitted' = [refundEmitted EXCEPT ![id] = Append(@, st)]
     /\ \/ Begin(s, [req[s] EXCEPT !.at = "fresh", !.seen = st])
        \/ Crashes /\ Begin(s, [req[s] EXCEPT !.at = "failed"])
  /\ UNCHANGED <<database, received, intent, owner, emitted, history>>

\* A later call under the same key replays the first response; with another intent
\* Stripe rejects the key.
ReplayRefund(s) ==
  /\ At(s, "refundCard", "stripe")
  /\ LET first == refund[req[s].pay.id] IN
     /\ first # NoRefund
     /\ IF first.att = req[s].att
        THEN Begin(s, [req[s] EXCEPT !.at = "fresh", !.seen = first.first])
        ELSE Begin(s, [req[s] EXCEPT !.at = "failed"])
  /\ UNCHANGED <<database, received, stripe, history>>

RefundUnavailable(s) ==
  /\ Crashes /\ At(s, "refundCard", "stripe")
  /\ Begin(s, [req[s] EXCEPT !.at = "failed"])
  /\ UNCHANGED <<database, received, stripe, history>>

CommitRefundFailed(s) ==
  /\ At(s, "refundCard", "failed") /\ pay.id = req[s].pay.id
  /\ pay' = [pay EXCEPT !.refund = "FAILED"]
  /\ Finish(s)
  /\ UNCHANGED <<order, placed, payments, attempt, received, stripe, history>>

CommitRefundCard(s) ==
  /\ At(s, "refundCard", "commit")
  /\ LET r == req[s] IN ApplyRefund(r.order, r.pay, r.seen)
  /\ Finish(s)
  /\ UNCHANGED <<placed, payments, attempt, received, stripe, history>>

--------------------------------------------------------------------------------
(* Stripe webhooks: PaymentWebhookController and the two handlers *)

\* Delivery is at least once and, unless Ordered, in any order.  The unique index
\* on stripeEventId lets one transaction at a time hold an event, and none hold an
\* event whose receipt is committed.
Held(kind, id, n) ==
  \E t \in Slots :
    /\ req[t].op = kind /\ req[t].event = n
    /\ (IF kind = "intentEvent" THEN req[t].att ELSE req[t].pay.id) = id

InOrder(kind, id, n) == Ordered /\ n > 1 => <<kind, id, n - 1>> \in received

Deliverable(kind, id, n) ==
  /\ <<kind, id, n>> \notin received
  /\ ~Held(kind, id, n)
  /\ InOrder(kind, id, n)

\* handleWebhookPaymentIntent.  Without an attempt row only the receipt is stored.
IgnoreIntentEvent(s) ==
  /\ Free(s)
  /\ \E a \in AttemptIds : \E n \in 1..Len(emitted[a]) :
       /\ Deliverable("intentEvent", a, n) /\ attempt[a] = "NONE"
       /\ received' = received \cup {<<"intentEvent", a, n>>}
  /\ UNCHANGED <<database, stripe, req, history>>

ReadIntentEvent(s) ==
  /\ Free(s)
  /\ \E a \in AttemptIds : \E n \in 1..Len(emitted[a]) :
       /\ Deliverable("intentEvent", a, n) /\ attempt[a] # "NONE"
       /\ Begin(s, [Idle EXCEPT !.op = "intentEvent", !.at = "fresh", !.pay = pay,
                                !.att = a, !.seen = emitted[a][n], !.event = n])
  /\ UNCHANGED <<database, received, stripe, history>>

CommitIntentEvent(s) ==
  /\ At(s, "intentEvent", "commit")
  /\ LET r == req[s] IN
     /\ ApplyIntent(r.pay, r.att, r.was, r.seen)
     /\ received' = received \cup {<<"intentEvent", r.att, r.event>>}
  /\ Finish(s)
  /\ UNCHANGED <<order, placed, payments, stripe, history>>

\* handleWebhookRefund finds the payment by refund id or by the id in the metadata.
IgnoreRefundEvent(s) ==
  /\ Free(s)
  /\ \E id \in PaymentIds : \E n \in 1..Len(refundEmitted[id]) :
       /\ Deliverable("refundEvent", id, n) /\ pay.id # id
       /\ received' = received \cup {<<"refundEvent", id, n>>}
  /\ UNCHANGED <<database, stripe, req, history>>

ReadRefundEvent(s) ==
  /\ Free(s) /\ pay # NoPayment
  /\ \E n \in 1..Len(refundEmitted[pay.id]) :
       /\ Deliverable("refundEvent", pay.id, n)
       /\ Begin(s, [Idle EXCEPT !.op = "refundEvent", !.at = "commit", !.order = order,
                                !.pay = pay, !.seen = refundEmitted[pay.id][n],
                                !.event = n])
  /\ UNCHANGED <<database, received, stripe, history>>

CommitRefundEvent(s) ==
  /\ At(s, "refundEvent", "commit")
  /\ LET r == req[s] IN
     /\ ApplyRefund(r.order, r.pay, r.seen)
     /\ received' = received \cup {<<"refundEvent", r.pay.id, r.event>>}
  /\ Finish(s)
  /\ UNCHANGED <<placed, payments, attempt, stripe, history>>

--------------------------------------------------------------------------------
(* Failure of a request, and the outside world *)

\* A check fails, a row is gone or the unique index is taken: the transaction rolls back.
Conflict(r) ==
  \/ r.op \in OrderStatus /\ r.at = "payment" /\ ~Permits(r.op, Reread(r))
  \/ order = "DELETED"
  \/ r.pay.id # 0 /\ pay.id # r.pay.id
  \/ Inserted(r.pay) /\ (pay # NoPayment \/ payments = MaxPayments)
  \/ r.op = "CONFIRMED" /\ payments = MaxPayments
  \/ r.op = "card" /\ \A a \in AttemptIds : intent[a] # "none"

\* The request ends without its remaining steps: rolled back, timed out or crashed.
\* What earlier transactions of the same request committed stays.
Abort(s) ==
  /\ ~Free(s) /\ (Crashes \/ Conflict(req[s]))
  /\ Finish(s)
  /\ UNCHANGED <<database, received, stripe, history>>

\* The customer's browser and the card network move an intent.  Stripe announces
\* every state but requires_action.
IntentSteps ==
  {<<"requires_payment_method", "processing">>, <<"requires_payment_method", "succeeded">>,
   <<"requires_payment_method", "requires_action">>,
   <<"requires_payment_method", "requires_payment_method">>,
   <<"requires_action", "processing">>, <<"requires_action", "succeeded">>,
   <<"requires_action", "requires_payment_method">>,
   <<"processing", "succeeded">>, <<"processing", "requires_payment_method">>}

IntentMoves(a, to) ==
  /\ <<intent[a], to>> \in IntentSteps
  /\ to \in {"processing", "requires_payment_method"} => Len(emitted[a]) < MaxEvents
  /\ intent' = [intent EXCEPT ![a] = to]
  /\ emitted' = IF to = "requires_action" THEN emitted
                ELSE [emitted EXCEPT ![a] = Append(@, to)]
  /\ UNCHANGED <<database, received, owner, refund, refundEmitted, req, history>>

RefundMoves(id, to) ==
  /\ refund[id].now = "pending" /\ to \in {"succeeded", "failed"}
  /\ refund' = [refund EXCEPT ![id].now = to]
  /\ refundEmitted' = [refundEmitted EXCEPT ![id] = Append(@, to)]
  /\ UNCHANGED <<database, received, intent, owner, emitted, req, history>>

--------------------------------------------------------------------------------

Transition(s) ==
  \/ \E to \in OrderStatus : ReadTransition(s, to)
  \/ ReadPayment(s) \/ ReadAttempt(s) \/ CancelIntent(s)
  \/ CommitConfirm(s) \/ CommitFulfil(s) \/ CommitCancel(s) \/ CommitReopen(s) \/ DeleteOrder(s)

Collection(s) ==
  \/ ReadLegacy(s) \/ CommitLegacy(s) \/ ReadCard(s) \/ CommitCard(s)
  \/ ReadPoll(s) \/ RetrieveIntent(s) \/ ReadAgain(s) \/ CommitPoll(s)
  \/ ReadCash(s) \/ CommitCash(s)

Refunding(s) ==
  \/ ReadRefund(s) \/ ReadOrderAgain(s) \/ ReadRefundAgain(s) \/ CommitRefundCash(s)
  \/ CommitRefundRequested(s) \/ \E st \in StripeRefundStatus : CreateRefund(s, st)
  \/ ReplayRefund(s) \/ RefundUnavailable(s)
  \/ CommitRefundFailed(s) \/ CommitRefundCard(s)

Webhook(s) ==
  \/ IgnoreIntentEvent(s) \/ ReadIntentEvent(s) \/ CommitIntentEvent(s)
  \/ IgnoreRefundEvent(s) \/ ReadRefundEvent(s) \/ CommitRefundEvent(s)

Outside ==
  \/ \E a \in AttemptIds, to \in IntentStatus : IntentMoves(a, to)
  \/ \E id \in PaymentIds, to \in StripeRefundStatus : RefundMoves(id, to)

Next ==
  \/ \E s \in Slots : Transition(s) \/ Collection(s) \/ Refunding(s) \/ Webhook(s) \/ Abort(s)
  \/ Outside

Spec == Init /\ [][Next]_vars

\* A request that has begun runs on (or fails), and Stripe delivers an event again
\* until the endpoint has answered it.  Staff, customers and banks owe nothing.
Proceeds(s) ==
  \/ ReadPayment(s) \/ ReadAttempt(s) \/ CancelIntent(s)
  \/ CommitConfirm(s) \/ CommitFulfil(s) \/ CommitCancel(s)
  \/ CommitReopen(s) \/ CommitLegacy(s) \/ CommitCard(s) \/ RetrieveIntent(s)
  \/ ReadAgain(s) \/ CommitPoll(s) \/ CommitCash(s) \/ ReadOrderAgain(s) \/ ReadRefundAgain(s)
  \/ CommitRefundCash(s) \/ CommitRefundRequested(s)
  \/ (\E st \in StripeRefundStatus : CreateRefund(s, st)) \/ ReplayRefund(s)
  \/ CommitRefundFailed(s) \/ CommitRefundCard(s)
  \/ CommitIntentEvent(s) \/ CommitRefundEvent(s) \/ Abort(s)

TakesUpEvent(s) == ReadIntentEvent(s) \/ ReadRefundEvent(s)
RereadsEvent(s) == req[s].op = "intentEvent" /\ ReadAgain(s)
EndsEvent(s) == \/ IgnoreIntentEvent(s) \/ CommitIntentEvent(s)
                \/ IgnoreRefundEvent(s) \/ CommitRefundEvent(s)

Fairness ==
  /\ \A s \in Slots : WF_vars(Proceeds(s))
  /\ SF_vars(\E s \in Slots : TakesUpEvent(s))
  /\ SF_vars(\E s \in Slots : RereadsEvent(s))
  /\ SF_vars(\E s \in Slots : EndsEvent(s))

FairSpec == Spec /\ Fairness

--------------------------------------------------------------------------------
(* Properties *)

\* Money was taken for this order: in cash, by a succeeded intent, or before
\* payments were recorded at all.
MoneyTaken == legacy \/ cash # {} \/ \E a \in AttemptIds : intent[a] = "succeeded"

Charges(id) == {a \in AttemptIds : owner[a] = id /\ intent[a] = "succeeded"}

\* The payment shows PAID only if money was taken: whatever snapshots webhooks,
\* polls and cancellations apply, and however late (applyPaymentIntentStateTx).
PaidIsBacked == pay.status = "PAID" => MoneyTaken

\* No order is fulfilled that never brought money: the PAID a fulfilment read was
\* backed and stays backed, whatever commits in between (transitionStatus).
FulfilledIsBacked == order = "FULFILLED" => MoneyTaken

\* An attempt row claims success or cancellation only when Stripe says the same.
AttemptTellsTruth ==
  \A a \in AttemptIds :
    /\ attempt[a] = "SUCCEEDED" => intent[a] = "succeeded"
    /\ attempt[a] = "CANCELED" => intent[a] = "canceled"

\* The financial status says REFUNDED only after cash was handed back or Stripe completed
\* the refund, whatever requests and events overlap (applyRefundStateTx, refundPayment).
RefundedIsBacked ==
  DeriveFinancialStatus(pay.status, pay.refund) = "REFUNDED" =>
    cashBack[pay.id] > 0 \/ refund[pay.id].now = "succeeded"

\* For one payment no more refunds leave than collections came in.
NeverOverRefunded ==
  \A id \in PaymentIds :
    cashBack[id] + (IF refund[id].now \in {"pending", "succeeded"} THEN 1 ELSE 0)
      <= (IF id \in cash THEN 1 ELSE 0) + Cardinality(Charges(id))

\* The lifecycle the API shows, in which every request is one transaction.
Lifecycle == INSTANCE OrderLifecycle
  WITH status <- order, payment <- pay.status, refunded <- pay.refund

\* As long as requests do not overlap, every step of every handler, and every state
\* Stripe, a crash or a late event can bring about, is a step of that lifecycle.
ImplementsLifecycle == Lifecycle!Spec

\* "PENDING orders do not have a payment row" (docs/domains/order.md): confirming
\* creates it, reopening deletes it, and nothing else brings one back.
PendingHasNoPayment == Lifecycle!PendingHasNoPayment

\* Once the refund is complete the order is closed: no request leaves it confirmed or
\* takes it back to pending (applyRefundStateTx, refundPayment, deletePaymentForReopenTx).
RefundedIsClosed == Lifecycle!RefundedIsClosed

\* While a refund is requested or pending nothing moves the order but the completed
\* refund itself, which cancels a confirmed order (docs/domains/payment.md).
RefundFreezesOrder ==
  [][pay.refund \in ACTIVE_REFUND_STATUSES /\ order' \notin {order, "DELETED"}
       => /\ order = "CONFIRMED" /\ order' = "CANCELLED"
          /\ pay'.id = pay.id /\ pay'.refund = "REFUNDED"]_vars

\* Money Stripe took stays on record: the attempt outlives the charge unless the whole
\* order is deleted ("any active card attempt is voided", docs/domains/order.md).
ChargeHasRecord ==
  \A a \in AttemptIds : intent[a] = "succeeded" /\ order # "DELETED" => attempt[a] # "NONE"

\* Once Stripe has charged the card, the attempt shows it, and goes on showing it:
\* no earlier event arriving late takes it back ("Stripe is the source of truth",
\* docs/domains/payment.md).
ChargeIsRecorded ==
  \A a \in AttemptIds :
    intent[a] = "succeeded" ~> [](attempt[a] \in {"SUCCEEDED", "NONE"})

\* Once Stripe has completed a refund the payment shows it for good, even if the
\* request that asked for it crashed or took the lost answer for a failure.
RefundIsRecorded ==
  \A id \in PaymentIds :
    refund[id].now = "succeeded" ~> [](pay.id = id => pay.refund = "REFUNDED")

================================================================================
