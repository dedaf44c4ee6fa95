------------------------- MODULE OrderPaymentSequential -------------------------
(***************************************************************************)
(* OrderPayment when requests do not overlap: with at most one slot, for   *)
(* any number of payments, attempts and events, any order of events and    *)
(* any crash, its steps are the steps of OrderLifecycle.                   *)
(*                                                                         *)
(* The argument: nobody else writes the database while a request is open,  *)
(* so what the request read and checked still holds when it commits        *)
(* (Agrees).  A commit is then one step of the lifecycle, and the          *)
(* lifecycle keeps its own promises (Closed).                              *)
(***************************************************************************)
EXTENDS OrderPaymentProofs, FiniteSetTheorems

OneAtATime == \A s, t \in Slots : s = t

\* A transition looked at the payment, and has checked it once it has read it again.
Looked(r) ==
  /\ r.pay = EffectivePayment
  /\ r.at # "payment" => Permits(r.op, r.pay)
  /\ r.at = "attempt" => pay # NoPayment

\* What an open request has read and checked, in terms of the current rows.
Agrees(r) ==
  /\ r.op = "CONFIRMED" => order = "PENDING"
  /\ r.op = "FULFILLED" => order = "CONFIRMED" /\ Looked(r)
  /\ r.op = "CANCELLED" =>
       \/ order = "PENDING" /\ r.pay = NoPayment /\ r.att = 0 /\ r.at = "commit"
       \/ order = "CONFIRMED" /\ Looked(r)
  /\ r.op = "PENDING" => order = "CANCELLED" /\ Looked(r)
  /\ r.op \in {"CANCELLED", "PENDING"} /\ r.att # 0 => pay.status = "PENDING"
  /\ r.op \in WorksOnAttempt /\ r.att # 0 => attempt[r.att] # "NONE"
  /\ r.op = "view" => order # "DELETED" /\ r.pay = EffectivePayment /\ Inserted(r.pay)
  /\ r.op = "card" => order = "CONFIRMED" /\ r.pay = EffectivePayment /\ AcceptsCollection(r.pay)
  /\ r.op = "cash" => order = "CONFIRMED" /\ r.pay = EffectivePayment /\ AcceptsCash(r.pay)
  /\ r.op \in WorksOnRefund =>
       /\ pay.id = r.pay.id
       /\ r.at = "commit" => r.pay = pay
       /\ r.at \in {"payment", "commit"} => r.order = order
  /\ r.op \in {"refundCash", "refundCard"} =>
       /\ order \in {"CONFIRMED", "FULFILLED"} /\ pay.status = "PAID"
       /\ pay.refund \in IF r.op = "refundCash" \/ r.at = "request" THEN {"NONE", "FAILED"}
                         ELSE {"REQUESTED"}
  /\ r.op = "refundCash" => pay.method = "CASH"
  /\ r.op = "refundCard" => attempt[r.att] = "SUCCEEDED"
  /\ r.op = "refundEvent" =>
       /\ r.event \in 1..Len(refundEmitted[r.pay.id])
       /\ r.seen = refundEmitted[r.pay.id][r.event]
       /\ <<"refundEvent", r.pay.id, r.event>> \notin received

RequestsAgree == \A s \in Slots : Agrees(req[s])

\* How the rows of the order and Stripe's objects go together.
Reported == {"PENDING", "FAILED", "PAID"}

RowsAgree ==
  /\ pay # NoPayment => pay.status # "ABSENT"
  /\ pay.id <= payments
  /\ pay.method = "CASH" => pay.id \in cash
  /\ \A a \in AttemptIds : attempt[a] # "NONE" =>
       pay.status \in Reported /\ owner[a] = pay.id /\ intent[a] # "none"

\* A refund at Stripe is for a charge of that payment, and leaves a trace in its row.
RefundsAgree ==
  \A id \in PaymentIds :
    /\ id > payments => refund[id].now = "none"
    /\ refund[id].now # "none" => Charges(id) # {} /\ (pay.id = id => pay.refund # "NONE")
    /\ refundEmitted[id] # <<>> => refund[id].now # "none"
    /\ \A n \in 1..Len(refundEmitted[id]) :
         refundEmitted[id][n] = "failed" => n = Len(refundEmitted[id]) /\ refund[id].now = "failed"

\* Cash goes back once for a payment taken in cash, and once more only if Stripe
\* reported the failure of a card refund of the same payment after that.
FailureReported(id) ==
  \E n \in 1..Len(refundEmitted[id]) :
    refundEmitted[id][n] = "failed" /\ <<"refundEvent", id, n>> \in received

CashAgrees ==
  \A id \in PaymentIds :
    /\ id > payments => cashBack[id] = 0
    /\ cashBack[id] > 0 => id \in cash
    /\ cashBack[id] <= IF FailureReported(id) THEN 2 ELSE 1
    /\ pay.id = id /\ pay.refund \in {"NONE", "REQUESTED", "FAILED"} =>
         cashBack[id] <= IF FailureReported(id) THEN 1 ELSE 0

\* The lifecycle's own invariant.
Closed ==
  /\ PendingHasNoPayment /\ RefundedIsClosed
  /\ order = "DELETED" => pay.status = "ABSENT"

\* What a commit does to the identity and the refund of the payment row, unless it is
\* the commit of a refund.
KeepsRefund ==
  \/ pay' = NoPayment /\ payments' = payments
  \/ pay = NoPayment /\ payments' = payments + 1 /\ pay'.id = payments' /\ pay'.refund = "NONE"
  \/ payments' = payments /\ pay'.id = pay.id /\ pay'.refund = pay.refund

MovesRefund(outcomes) ==
  /\ payments' = payments /\ pay.id # 0
  /\ \E outcome \in outcomes : pay' = [pay EXCEPT !.refund = outcome]

Advances == Lifecycle!Next \/ UNCHANGED Lifecycle!vars

--------------------------------------------------------------------------------
(* The lifecycle by itself. *)

\* No step of the lifecycle leaves a pending order with a payment or opens a refunded one.
LEMMA LifecycleCloses ==
  ASSUME order \in OrderStatus \cup {"DELETED"}, Closed, Lifecycle!Next
  PROVE  Closed'
<1> USE DEF Closed, PendingHasNoPayment, RefundedIsClosed, Lifecycle!PendingHasNoPayment,
            Lifecycle!RefundedIsClosed
<1>1. CASE Lifecycle!Confirm \/ Lifecycle!Fulfil \/ Lifecycle!CancelPending
  BY <1>1 DEF Lifecycle!Confirm, Lifecycle!Fulfil, Lifecycle!CancelPending
<1>2. CASE Lifecycle!CancelConfirmed \/ Lifecycle!Reopen
  BY <1>2 DEF Lifecycle!CancelConfirmed, Lifecycle!Reopen, Lifecycle!NoRefundRuns,
              Lifecycle!Reported
<1>3. CASE Lifecycle!Collect \/ Lifecycle!StripeReportsPayment \/ Lifecycle!Backfill
  BY <1>3 DEF Lifecycle!Collect, Lifecycle!StripeReportsPayment, Lifecycle!Backfill,
              Lifecycle!NoRefundRuns, Lifecycle!Reported
<1>4. CASE Lifecycle!RequestRefund \/ Lifecycle!RefundCash \/ Lifecycle!StripeReportsRefund
  BY <1>4 DEF Lifecycle!RequestRefund, Lifecycle!RefundCash, Lifecycle!StripeReportsRefund,
              Lifecycle!RefundEnds, Lifecycle!Refundable, Lifecycle!NoRefundRuns, OrderStatus
<1>5. CASE Lifecycle!Delete
  BY <1>5 DEF Lifecycle!Delete
<1>. QED  BY <1>1, <1>2, <1>3, <1>4, <1>5 DEF Lifecycle!Next

--------------------------------------------------------------------------------
(* Commits are steps of the lifecycle, and keep the rows together. *)

\* The payment a handler works with, by the status of an order without a row.
LEMMA EffectiveRow ==
  ASSUME Typed
  PROVE  /\ EffectivePayment \in PaymentRow
         /\ pay # NoPayment => EffectivePayment = pay /\ pay.id # 0 /\ order # "DELETED"
         /\ pay = NoPayment /\ EffectivePayment # NoPayment =>
              /\ order # "PENDING" /\ EffectivePayment.id = 0 /\ EffectivePayment.refund = "NONE"
              /\ EffectivePayment.method = "NONE"
              /\ EffectivePayment.status = IF order = "FULFILLED" THEN "PAID" ELSE "UNPAID"
         /\ order = "CONFIRMED" => EffectivePayment # NoPayment
         /\ NoPayment \in PaymentRow /\ NoPayment.id = 0
<1>1. pay \in PaymentRow /\ (pay.id = 0 <=> pay = NoPayment)
      /\ (order = "DELETED" => pay = NoPayment)
  BY DEF Typed, TypeOK, RowsOK
<1>. QED  BY <1>1, IdleFits, EffectiveTyped
          DEF EffectivePayment, NoPayment, PaymentRow, Typed, TypeOK

LEMMA ConfirmAdvances ==
  ASSUME Typed, Closed, RowsAgree, NEW s \in Slots, Agrees(req[s]), CommitConfirm(s)
  PROVE  Advances /\ RowsAgree' /\ KeepsRefund
<1>1. order = "PENDING" /\ pay.status = "ABSENT" /\ pay = NoPayment
  BY DEF CommitConfirm, At, Agrees, Closed, PendingHasNoPayment, RowsAgree,
         Lifecycle!PendingHasNoPayment
<1>2. /\ order' = "CONFIRMED" /\ payments' = payments + 1
      /\ pay' = [NoPayment EXCEPT !.id = payments + 1, !.status = "UNPAID"]
      /\ UNCHANGED <<attempt, owner, intent, cash>>
  BY <1>1 DEF CommitConfirm, CreatePaymentForConfirmedOrder, stripe, history
<1>3. \A a \in AttemptIds : attempt[a] = "NONE"
  BY <1>1 DEF RowsAgree, Reported
<1>4. pay' = [id |-> payments', status |-> "UNPAID", method |-> "NONE", refund |-> "NONE"]
  BY <1>2 DEF NoPayment
<1>5. /\ pay'.id = payments' /\ pay'.status = "UNPAID"
      /\ pay'.method = "NONE" /\ pay'.refund = "NONE"
  BY <1>4
<1>6. payments \in Int  BY BoundsAssumption DEF Typed, TypeOK
<1>7. Lifecycle!Confirm
  BY <1>1, <1>2, <1>5 DEF Lifecycle!Confirm, NoPayment
<1>8. RowsAgree'
  BY <1>2, <1>3, <1>5, <1>6 DEF RowsAgree
<1>. QED  BY <1>1, <1>2, <1>5, <1>7, <1>8 DEF Advances, Lifecycle!Next, KeepsRefund

LEMMA FulfilAdvances ==
  ASSUME Typed, RowsAgree, NEW s \in Slots, Agrees(req[s]), CommitFulfil(s)
  PROVE  Advances /\ RowsAgree' /\ KeepsRefund
<1>0. order = "CONFIRMED" /\ CanFulfil(EffectivePayment)
  BY DEF CommitFulfil, At, Agrees, Looked, Permits
<1>1. Lifecycle!Fulfil
  BY <1>0, EffectiveRow DEF CommitFulfil, CanFulfil, Lifecycle!Fulfil
<1>2. RowsAgree'  BY DEF CommitFulfil, RowsAgree, stripe, history
<1>. QED  BY <1>1, <1>2 DEF Advances, Lifecycle!Next, KeepsRefund, CommitFulfil

\* What Stripe reports of an attempt goes to a payment that Stripe reported on before.
LEMMA IntentAdvances ==
  ASSUME Typed, RowsAgree, NEW s \in Slots, Agrees(req[s]),
         req[s].op \in WorksOnAttempt, req[s].att # 0,
         ApplyIntent(req[s].pay, req[s].att, req[s].was, req[s].seen),
         UNCHANGED <<payments, owner, intent, cash>>
  PROVE  /\ pay.status \in Reported /\ pay'.status \in Reported /\ pay'.refund = pay.refund
         /\ RowsAgree' /\ KeepsRefund
<1> DEFINE r == req[s]
<1>1. /\ pay \in PaymentRow /\ r.att \in AttemptIds /\ attempt[r.att] # "NONE"
      /\ r.pay.id \in PaymentIds
      /\ attempt \in [AttemptIds -> AttemptStatus \cup {"NONE"}]
  BY BoundsAssumption DEF Typed, TypeOK, Request, AttemptIds, Agrees, Fits
<1>2. pay.status \in Reported  BY <1>1 DEF RowsAgree
<1>3. PaymentStatusOf(r.seen) \in Reported
  BY DEF PaymentStatusOf, Reported
<1>4. /\ pay' = pay \/ pay' = [pay EXCEPT !.method = "CARD", !.status = PaymentStatusOf(r.seen)]
      /\ attempt' = attempt \/ attempt' = [attempt EXCEPT ![r.att] = AttemptStatusOf(r.seen)]
  BY DEF ApplyIntent
<1>5. /\ pay'.status \in Reported /\ pay'.refund = pay.refund /\ pay'.id = pay.id
      /\ pay'.method \in {pay.method, "CARD"}
  BY <1>1, <1>2, <1>3, <1>4 DEF PaymentRow
<1>6. \A a \in AttemptIds : attempt'[a] # "NONE" => attempt[a] # "NONE"
  BY <1>1, <1>4
<1>7. RowsAgree'
  BY <1>5, <1>6 DEF RowsAgree, Reported
<1>. QED  BY <1>2, <1>5, <1>7 DEF KeepsRefund

\* The row a handler inserts for an order older than payments.
LEMMA InsertAdvances ==
  ASSUME Typed, RowsAgree, NEW p, p = EffectivePayment, InsertIfNew(p),
         UNCHANGED <<attempt, owner, intent, cash>>
  PROVE  /\ IF pay = NoPayment /\ p # NoPayment
            THEN pay'.status = p.status /\ pay'.refund = "NONE" ELSE pay' = pay
         /\ RowsAgree' /\ KeepsRefund
<1>0. p \in PaymentRow /\ payments \in Nat  BY EffectiveRow, BoundsAssumption DEF Typed, TypeOK
<1>1. CASE Inserted(p)
  <2>1. /\ pay = NoPayment /\ p # NoPayment /\ p.id = 0 /\ payments' = payments + 1
        /\ pay' = [p EXCEPT !.id = payments + 1]
    BY <1>0, <1>1 DEF Inserted, InsertIfNew, Write, Writable, Stored, NoPayment
  <2>2. p.method = "NONE" /\ p.refund = "NONE" /\ p.status \in {"PAID", "UNPAID"}
    BY <2>1, EffectiveRow
  <2>3. /\ pay'.id = payments + 1 /\ pay'.status = p.status /\ pay'.method = "NONE"
        /\ pay'.refund = "NONE"
    BY <1>0, <2>1, <2>2 DEF PaymentRow
  <2>4. \A a \in AttemptIds : attempt[a] = "NONE"
    BY <2>1 DEF RowsAgree, Reported, NoPayment
  <2>5. RowsAgree'  BY <1>0, <2>1, <2>2, <2>3, <2>4 DEF RowsAgree
  <2>. QED  BY <2>1, <2>3, <2>5 DEF KeepsRefund
<1>2. CASE ~Inserted(p)
  <2>1. UNCHANGED <<pay, payments>>  BY <1>2 DEF InsertIfNew
  <2>2. ~(pay = NoPayment /\ p # NoPayment)
    BY <1>2, EffectiveRow DEF Inserted
  <2>. QED  BY <2>1, <2>2 DEF RowsAgree, KeepsRefund
<1>. QED  BY <1>1, <1>2

LEMMA CancelAdvances ==
  ASSUME Typed, Closed, RowsAgree, NEW s \in Slots, Agrees(req[s]), CommitCancel(s)
  PROVE  Advances /\ RowsAgree' /\ KeepsRefund
<1> DEFINE r == req[s]
<1>0. /\ r.op = "CANCELLED" /\ r.op \in WorksOnAttempt /\ order' = "CANCELLED"
      /\ UNCHANGED <<owner, intent, cash>>
  BY DEF CommitCancel, At, WorksOnAttempt, stripe, history
<1>1. CASE order = "PENDING" /\ r.pay = NoPayment /\ r.att = 0
  <2>1. UNCHANGED <<pay, payments, attempt>>
    BY <1>1 DEF CommitCancel, InsertIfNew, Inserted, NoPayment
  <2>2. Lifecycle!CancelPending
    BY <1>0, <1>1, <2>1 DEF Lifecycle!CancelPending
  <2>. QED  BY <1>0, <2>1, <2>2 DEF Advances, Lifecycle!Next, RowsAgree, KeepsRefund
<1>2. CASE order = "CONFIRMED" /\ Looked(r)
  <2>0. r.pay = EffectivePayment /\ (Exists(r.pay) => CanVoid(r.pay))
    BY <1>0, <1>2 DEF Looked, Permits, CommitCancel, At
  <2>1. /\ pay # NoPayment => pay = r.pay /\ pay.status # "ABSENT"
        /\ pay.status # "PAID" /\ pay.refund \in {"NONE", "FAILED"}
    <3>1. pay \in PaymentRow  BY DEF Typed, TypeOK
    <3>2. CASE pay = NoPayment  BY <3>2 DEF NoPayment
    <3>3. CASE pay # NoPayment
      BY <2>0, <3>1, <3>3, EffectiveRow
      DEF Exists, CanVoid, ACTIVE_REFUND_STATUSES, RowsAgree, PaymentRow, RefundStatus
    <3>. QED  BY <3>2, <3>3
  <2>2. CASE r.att = 0
    <3>1. InsertIfNew(r.pay) /\ UNCHANGED attempt  BY <2>2 DEF CommitCancel
    <3>2. /\ IF pay = NoPayment THEN pay'.status = "UNPAID" /\ pay'.refund = "NONE"
             ELSE pay' = pay
          /\ RowsAgree' /\ KeepsRefund
      BY <1>0, <1>2, <2>0, <3>1, InsertAdvances, EffectiveRow
    <3>3. Lifecycle!CancelConfirmed
      BY <1>0, <1>2, <2>1, <3>2
      DEF Lifecycle!CancelConfirmed, Lifecycle!NoRefundRuns, NoPayment
    <3>. QED  BY <3>2, <3>3 DEF Advances, Lifecycle!Next
  <2>3. CASE r.att # 0
    <3>1. ApplyIntent(r.pay, r.att, r.was, r.seen) /\ UNCHANGED payments
      BY <2>3 DEF CommitCancel
    <3>2. pay.status = "PENDING"  BY <1>0, <2>3 DEF Agrees
    <3>3. pay'.status \in Reported /\ pay'.refund = pay.refund /\ RowsAgree' /\ KeepsRefund
      BY <1>0, <2>3, <3>1, IntentAdvances
    <3>4. Lifecycle!CancelConfirmed
      BY <1>0, <1>2, <2>1, <3>2, <3>3
      DEF Lifecycle!CancelConfirmed, Lifecycle!NoRefundRuns, Reported, Lifecycle!Reported
    <3>. QED  BY <3>3, <3>4 DEF Advances, Lifecycle!Next
  <2>. QED  BY <2>2, <2>3
<1>. QED  BY <1>0, <1>1, <1>2 DEF Agrees

LEMMA ReopenAdvances ==
  ASSUME Typed, Closed, RowsAgree, NEW s \in Slots, Agrees(req[s]), CommitReopen(s)
  PROVE  Advances /\ RowsAgree' /\ KeepsRefund
<1> DEFINE r == req[s]
<1>0. /\ r.pay = EffectivePayment /\ (Exists(r.pay) => CanVoid(r.pay))
      /\ order = "CANCELLED" /\ order' = "PENDING" /\ UNCHANGED <<payments, owner, intent, cash>>
  BY DEF CommitReopen, At, Agrees, Looked, Permits, stripe, history
<1>1. /\ pay.status # "PAID" /\ pay.refund \in {"NONE", "FAILED"}
      /\ pay # NoPayment => Exists(r.pay)
  <2>1. pay \in PaymentRow  BY DEF Typed, TypeOK
  <2>2. CASE pay = NoPayment  BY <2>2 DEF NoPayment
  <2>3. CASE pay # NoPayment
    BY <1>0, <2>1, <2>3, EffectiveRow
    DEF Exists, CanVoid, ACTIVE_REFUND_STATUSES, RowsAgree, PaymentRow, RefundStatus
  <2>. QED  BY <2>2, <2>3
<1>2. pay' = NoPayment /\ \A a \in AttemptIds : attempt'[a] = "NONE"
  <2>1. CASE Exists(r.pay)
    BY <2>1 DEF CommitReopen, DeletePaymentForReopen
  <2>2. CASE ~Exists(r.pay)
    <3>1. pay' = pay /\ attempt' = attempt /\ pay = NoPayment
      BY <1>1, <2>2 DEF CommitReopen, DeletePaymentForReopen
    <3>. QED  BY <3>1 DEF RowsAgree, NoPayment, Reported
  <2>. QED  BY <2>1, <2>2
<1>3. Lifecycle!Reopen
  BY <1>0, <1>1, <1>2 DEF Lifecycle!Reopen, Lifecycle!NoRefundRuns, NoPayment
<1>4. RowsAgree'
  BY <1>0, <1>2, BoundsAssumption DEF RowsAgree, NoPayment, Typed, TypeOK
<1>. QED  BY <1>0, <1>2, <1>3, <1>4 DEF Advances, Lifecycle!Next, KeepsRefund

LEMMA DeleteAdvances ==
  ASSUME Typed, RowsAgree, NEW s \in Slots, DeleteOrder(s)
  PROVE  Advances /\ RowsAgree' /\ KeepsRefund
<1>1. /\ order # "DELETED" /\ order' = "DELETED" /\ pay' = NoPayment
      /\ \A a \in AttemptIds : attempt'[a] = "NONE"
      /\ UNCHANGED <<payments, owner, intent, cash>>
  BY DEF DeleteOrder, stripe, history
<1>2. Lifecycle!Delete  BY <1>1 DEF Lifecycle!Delete, NoPayment
<1>3. RowsAgree'
  BY <1>1, BoundsAssumption DEF RowsAgree, NoPayment, Typed, TypeOK
<1>. QED  BY <1>1, <1>2, <1>3 DEF Advances, Lifecycle!Next, KeepsRefund

LEMMA LegacyAdvances ==
  ASSUME Typed, RowsAgree, NEW s \in Slots, Agrees(req[s]), CommitLegacy(s)
  PROVE  Advances /\ RowsAgree' /\ KeepsRefund
<1> DEFINE p == req[s].pay
<1>1. /\ order # "DELETED" /\ p = EffectivePayment /\ Inserted(p) /\ InsertIfNew(p)
      /\ UNCHANGED <<order, attempt, owner, intent, cash>>
  BY DEF CommitLegacy, At, Agrees, stripe, history
<1>2. p # NoPayment /\ pay = NoPayment
  BY <1>1 DEF Inserted, InsertIfNew, Write, Writable, NoPayment
<1>3. /\ pay'.status = IF order = "FULFILLED" THEN "PAID" ELSE "UNPAID"
      /\ pay'.refund = "NONE" /\ RowsAgree' /\ KeepsRefund
  BY <1>1, <1>2, InsertAdvances, EffectiveRow
<1>4. order \in {"CONFIRMED", "FULFILLED", "CANCELLED"}
  BY <1>1, <1>2, EffectiveRow DEF Typed, TypeOK, OrderStatus
<1>5. Lifecycle!Backfill
  BY <1>1, <1>2, <1>3, <1>4 DEF Lifecycle!Backfill, NoPayment
<1>. QED  BY <1>3, <1>5 DEF Advances, Lifecycle!Next

\* The row a collection leaves behind.
LEMMA CollectKeeps ==
  ASSUME Typed, RowsAgree, NEW p, p = EffectivePayment, p # NoPayment,
         NEW m \in PaymentMethod, NEW st \in PaymentState,
         Write(p, [Stored(p) EXCEPT !.method = m, !.status = st])
  PROVE  /\ pay'.id = Stored(p).id /\ pay'.status = st /\ pay'.method = m
         /\ pay'.refund = pay.refund /\ KeepsRefund
         /\ pay # NoPayment => pay'.id = pay.id
         /\ pay'.id <= payments'
<1>0. p \in PaymentRow /\ payments \in Int /\ pay \in PaymentRow
  BY EffectiveRow, BoundsAssumption DEF Typed, TypeOK
<1>1. pay' = [Stored(p) EXCEPT !.method = m, !.status = st]
  BY DEF Write
<1>2. CASE pay = NoPayment
  <2>1. p.id = 0 /\ p.refund = "NONE" /\ pay.refund = "NONE"
    BY <1>2, EffectiveRow DEF NoPayment
  <2>2. Stored(p) = [p EXCEPT !.id = payments + 1] /\ payments' = payments + 1
    BY <2>1 DEF Stored, Write
  <2>3. /\ pay'.id = payments + 1 /\ pay'.status = st /\ pay'.method = m /\ pay'.refund = "NONE"
        /\ Stored(p).id = payments + 1
    BY <1>0, <1>1, <2>1, <2>2 DEF PaymentRow
  <2>. QED  BY <1>0, <1>2, <2>1, <2>2, <2>3 DEF KeepsRefund
<1>3. CASE pay # NoPayment
  <2>1. p = pay /\ p.id # 0  BY <1>3, EffectiveRow
  <2>2. Stored(p) = pay /\ payments' = payments  BY <2>1 DEF Stored, Write
  <2>3. /\ pay'.id = pay.id /\ pay'.status = st /\ pay'.method = m /\ pay'.refund = pay.refund
    BY <1>0, <1>1, <2>2 DEF PaymentRow
  <2>. QED  BY <2>2, <2>3 DEF KeepsRefund, RowsAgree
<1>. QED  BY <1>2, <1>3

\* A payment that accepts a collection has none in flight, and no refund either.
LEMMA Collectable ==
  ASSUME Typed, Closed, RowsAgree, order = "CONFIRMED",
         EffectivePayment.status # "PAID", EffectivePayment.refund \notin ACTIVE_REFUND_STATUSES
  PROVE  pay.status # "PAID" /\ pay.refund \in {"NONE", "FAILED"} /\ EffectivePayment # NoPayment
<1>1. pay \in PaymentRow  BY DEF Typed, TypeOK
<1>2. pay.refund # "REFUNDED"
  BY DEF Closed, RefundedIsClosed, Lifecycle!RefundedIsClosed
<1>3. CASE pay = NoPayment  BY <1>3, EffectiveRow DEF NoPayment
<1>4. CASE pay # NoPayment
  BY <1>1, <1>2, <1>4, EffectiveRow DEF ACTIVE_REFUND_STATUSES, PaymentRow, RefundStatus
<1>. QED  BY <1>3, <1>4

LEMMA CardAdvances ==
  ASSUME Typed, Closed, RowsAgree, NEW s \in Slots, Agrees(req[s]), CommitCard(s)
  PROVE  Advances /\ RowsAgree' /\ KeepsRefund
<1> DEFINE p == req[s].pay
<1>1. /\ order = "CONFIRMED" /\ p = EffectivePayment /\ AcceptsCollection(p)
      /\ UNCHANGED <<order, cash>>
  BY DEF CommitCard, At, Agrees, history
<1>2. PICK a \in AttemptIds :
        /\ \A b \in AttemptIds : intent[b] # "none" <=> b < a
        /\ attempt' = [attempt EXCEPT ![a] = "PENDING"]
        /\ Write(p, [Stored(p) EXCEPT !.method = "CARD", !.status = "PENDING"])
        /\ owner' = [owner EXCEPT ![a] = Stored(p).id]
        /\ intent' = [intent EXCEPT ![a] = "requires_payment_method"]
  BY DEF CommitCard
<1>3. pay.status # "PAID" /\ pay.refund \in {"NONE", "FAILED"} /\ p # NoPayment
  BY <1>1, Collectable DEF AcceptsCollection, ACTIVE_REFUND_STATUSES
<1>4. /\ pay'.id = Stored(p).id /\ pay'.status = "PENDING" /\ pay'.method = "CARD"
      /\ pay'.refund = pay.refund /\ KeepsRefund /\ (pay # NoPayment => pay'.id = pay.id)
      /\ pay'.id <= payments'
  BY <1>1, <1>2, <1>3, CollectKeeps DEF PaymentMethod, PaymentState
<1>5. Lifecycle!Collect
  BY <1>1, <1>3, <1>4 DEF Lifecycle!Collect, Lifecycle!NoRefundRuns
<1>6. ASSUME NEW b \in AttemptIds, attempt'[b] # "NONE"
      PROVE  owner'[b] = pay'.id /\ intent'[b] # "none"
  <2>1. /\ attempt \in [AttemptIds -> AttemptStatus \cup {"NONE"}]
        /\ owner \in [AttemptIds -> 0..MaxPayments]
        /\ intent \in [AttemptIds -> IntentStatus \cup {"none"}]
    BY DEF Typed, TypeOK
  <2>2. CASE b = a  BY <1>2, <1>4, <2>1, <2>2
  <2>3. CASE b # a
    <3>1. attempt[b] # "NONE"  BY <1>2, <1>6, <2>1, <2>3
    <3>2. owner[b] = pay.id /\ intent[b] # "none" /\ pay # NoPayment
      BY <3>1 DEF RowsAgree, Reported, NoPayment
    <3>. QED  BY <1>2, <1>4, <2>1, <2>3, <3>2
  <2>. QED  BY <2>2, <2>3
<1>7. RowsAgree'
  BY <1>4, <1>6 DEF RowsAgree, Reported
<1>. QED  BY <1>4, <1>5, <1>7 DEF Advances, Lifecycle!Next

LEMMA CashAdvances ==
  ASSUME Typed, Closed, RowsAgree, NEW s \in Slots, Agrees(req[s]), CommitCash(s)
  PROVE  Advances /\ RowsAgree' /\ KeepsRefund
<1> DEFINE p == req[s].pay
<1>1. /\ order = "CONFIRMED" /\ p = EffectivePayment /\ AcceptsCash(p)
      /\ Write(p, [Stored(p) EXCEPT !.method = "CASH", !.status = "PAID"])
      /\ cash' = cash \cup {Stored(p).id}
      /\ UNCHANGED <<order, attempt, owner, intent>>
  BY DEF CommitCash, At, Agrees, stripe
<1>2. pay.status # "PAID" /\ pay.refund \in {"NONE", "FAILED"} /\ p # NoPayment
  BY <1>1, Collectable DEF AcceptsCash
<1>3. pay.status # "PENDING"
  <2>1. CASE pay = NoPayment  BY <2>1 DEF NoPayment
  <2>2. CASE pay # NoPayment  BY <1>1, <2>2, EffectiveRow DEF AcceptsCash
  <2>. QED  BY <2>1, <2>2
<1>4. /\ pay'.id = Stored(p).id /\ pay'.status = "PAID" /\ pay'.method = "CASH"
      /\ pay'.refund = pay.refund /\ KeepsRefund /\ (pay # NoPayment => pay'.id = pay.id)
      /\ pay'.id <= payments'
  BY <1>1, <1>2, CollectKeeps DEF PaymentMethod, PaymentState
<1>5. Lifecycle!Collect
  BY <1>1, <1>2, <1>3, <1>4 DEF Lifecycle!Collect, Lifecycle!NoRefundRuns
<1>6. \A b \in AttemptIds : attempt'[b] # "NONE" => owner'[b] = pay'.id /\ intent'[b] # "none"
  BY <1>1, <1>4 DEF RowsAgree, Reported, NoPayment
<1>7. RowsAgree'
  BY <1>1, <1>4, <1>6 DEF RowsAgree, Reported
<1>. QED  BY <1>4, <1>5, <1>7 DEF Advances, Lifecycle!Next

\* A poll or an event of Stripe.
LEMMA ReportAdvances ==
  ASSUME Typed, RowsAgree, NEW s \in Slots, Agrees(req[s]),
         CommitPoll(s) \/ CommitIntentEvent(s)
  PROVE  Advances /\ RowsAgree' /\ KeepsRefund
<1>1. /\ req[s].op \in {"poll", "intentEvent"}
      /\ ApplyIntent(req[s].pay, req[s].att, req[s].was, req[s].seen)
      /\ UNCHANGED <<order, payments, owner, intent, cash>>
  BY DEF CommitPoll, CommitIntentEvent, At, stripe, history
<1>2. req[s].att # 0 /\ req[s].op \in WorksOnAttempt
  BY <1>1 DEF Typed, Fits, AttemptIds, WorksOnAttempt
<1>3. /\ pay.status \in Reported /\ pay'.status \in Reported /\ pay'.refund = pay.refund
      /\ RowsAgree' /\ KeepsRefund
  BY <1>1, <1>2, IntentAdvances
<1>4. Lifecycle!StripeReportsPayment
  BY <1>1, <1>3 DEF Lifecycle!StripeReportsPayment, Lifecycle!Reported, Reported
<1>. QED  BY <1>3, <1>4 DEF Advances, Lifecycle!Next

--------------------------------------------------------------------------------
(* The commits of a refund. *)

LEMMA RefundKeepsRows ==
  ASSUME Typed, RowsAgree, NEW outcome, pay' = [pay EXCEPT !.refund = outcome],
         UNCHANGED <<payments, attempt, owner, intent, cash>>
  PROVE  /\ pay'.id = pay.id /\ pay'.status = pay.status /\ pay'.refund = outcome
         /\ pay # NoPayment => RowsAgree'
<1>1. /\ pay'.id = pay.id /\ pay'.status = pay.status /\ pay'.method = pay.method
      /\ pay'.refund = outcome
  BY DEF Typed, TypeOK, PaymentRow
<1>. QED  BY <1>1 DEF RowsAgree

\* The request works on the row the order has.
LEMMA RefundHasRow ==
  ASSUME Typed, NEW s \in Slots, Agrees(req[s]), req[s].op \in WorksOnRefund
  PROVE  pay.id = req[s].pay.id /\ pay.id \in PaymentIds /\ pay # NoPayment /\ pay.id # 0
BY DEF Typed, TypeOK, Fits, Agrees, PaymentIds, NoPayment

LEMMA RefundCashAdvances ==
  ASSUME Typed, RowsAgree, NEW s \in Slots, Agrees(req[s]), CommitRefundCash(s)
  PROVE  Advances /\ RowsAgree' /\ MovesRefund({"REFUNDED"})
<1> DEFINE r == req[s]
<1>1. /\ r.op = "refundCash" /\ r.op \in WorksOnRefund /\ r.order = order
      /\ order \in {"CONFIRMED", "FULFILLED"} /\ pay.status = "PAID"
      /\ pay.refund \in {"NONE", "FAILED"}
  BY DEF CommitRefundCash, At, Agrees, WorksOnRefund
<1>2. /\ pay' = [pay EXCEPT !.refund = "REFUNDED"]
      /\ order' = IF order = "CONFIRMED" THEN "CANCELLED" ELSE order
      /\ UNCHANGED <<payments, attempt, owner, intent, cash>>
  BY <1>1 DEF CommitRefundCash, stripe
<1>3. pay'.status = pay.status /\ pay'.refund = "REFUNDED" /\ RowsAgree'
  BY <1>1, <1>2, RefundKeepsRows, RefundHasRow
<1>4. Lifecycle!RefundCash
  BY <1>1, <1>2, <1>3
  DEF Lifecycle!RefundCash, Lifecycle!Refundable, Lifecycle!NoRefundRuns, Lifecycle!RefundEnds
<1>. QED  BY <1>1, <1>2, <1>3, <1>4, RefundHasRow DEF Advances, Lifecycle!Next, MovesRefund

LEMMA RefundRequestAdvances ==
  ASSUME Typed, RowsAgree, NEW s \in Slots, Agrees(req[s]), CommitRefundRequested(s)
  PROVE  Advances /\ RowsAgree' /\ MovesRefund({"REQUESTED"})
<1>1. /\ req[s].op \in WorksOnRefund
      /\ order \in {"CONFIRMED", "FULFILLED"} /\ pay.status = "PAID"
      /\ pay.refund \in {"NONE", "FAILED"}
  BY DEF CommitRefundRequested, At, Agrees, WorksOnRefund
<1>2. /\ pay' = [pay EXCEPT !.refund = "REQUESTED"]
      /\ UNCHANGED <<order, payments, attempt, owner, intent, cash>>
  BY DEF CommitRefundRequested, stripe, history
<1>3. pay'.status = pay.status /\ pay'.refund = "REQUESTED" /\ RowsAgree'
  BY <1>1, <1>2, RefundKeepsRows, RefundHasRow
<1>4. Lifecycle!RequestRefund
  BY <1>1, <1>2, <1>3
  DEF Lifecycle!RequestRefund, Lifecycle!Refundable, Lifecycle!NoRefundRuns
<1>. QED  BY <1>1, <1>2, <1>3, <1>4, RefundHasRow DEF Advances, Lifecycle!Next, MovesRefund

LEMMA RefundFailedAdvances ==
  ASSUME Typed, RowsAgree, NEW s \in Slots, Agrees(req[s]), CommitRefundFailed(s)
  PROVE  Advances /\ RowsAgree' /\ MovesRefund({"FAILED"}) /\ pay.refund = "REQUESTED"
<1>1. req[s].op \in WorksOnRefund /\ pay.refund = "REQUESTED"
  BY DEF CommitRefundFailed, At, Agrees, WorksOnRefund
<1>2. /\ pay' = [pay EXCEPT !.refund = "FAILED"]
      /\ UNCHANGED <<order, payments, attempt, owner, intent, cash>>
  BY DEF CommitRefundFailed, stripe, history
<1>3. pay'.status = pay.status /\ pay'.refund = "FAILED" /\ RowsAgree'
  BY <1>1, <1>2, RefundKeepsRows, RefundHasRow
<1>4. Lifecycle!StripeReportsRefund
  BY <1>1, <1>2, <1>3 DEF Lifecycle!StripeReportsRefund, Lifecycle!RefundEnds
<1>. QED  BY <1>1, <1>2, <1>3, <1>4, RefundHasRow DEF Advances, Lifecycle!Next, MovesRefund

\* What Stripe says of a refund goes to an order and a row that are as they were read.
LEMMA OutcomeAdvances ==
  ASSUME Typed, RowsAgree, NEW s \in Slots, Agrees(req[s]), req[s].op \in WorksOnRefund,
         req[s].at = "commit", ApplyRefund(req[s].order, req[s].pay, req[s].seen),
         UNCHANGED <<payments, attempt, owner, intent, cash>>, pay.refund # "NONE"
  PROVE  Advances /\ RowsAgree' /\ MovesRefund({RefundStatusOf(req[s].seen)})
<1> DEFINE outcome == RefundStatusOf(req[s].seen)
<1>1. req[s].pay = pay /\ req[s].order = order  BY DEF Agrees
<1>2. outcome \in {"PENDING", "FAILED", "REFUNDED"}  BY DEF RefundStatusOf
<1>3. pay' = [pay EXCEPT !.refund = outcome]
  <2>1. CASE pay' = pay /\ pay.refund = outcome
    <3>1. pay \in PaymentRow  BY DEF Typed, TypeOK
    <3> HIDE DEF outcome
    <3>. QED  BY <2>1, <3>1 DEF PaymentRow
  <2>. QED  BY <1>1, <2>1 DEF ApplyRefund
<1>4. order' = IF outcome = "REFUNDED" /\ order = "CONFIRMED" THEN "CANCELLED" ELSE order
  BY <1>1 DEF ApplyRefund
<1> HIDE DEF outcome
<1>5. pay'.status = pay.status /\ pay'.refund = outcome /\ RowsAgree'
  BY <1>3, RefundKeepsRows, RefundHasRow
<1>6. Lifecycle!StripeReportsRefund
  BY <1>2, <1>4, <1>5 DEF Lifecycle!StripeReportsRefund, Lifecycle!RefundEnds
<1>7. MovesRefund({outcome})  BY <1>3, RefundHasRow DEF MovesRefund
<1>. QED  BY <1>5, <1>6, <1>7 DEF Advances, Lifecycle!Next, outcome

LEMMA RefundCardAdvances ==
  ASSUME Typed, RowsAgree, NEW s \in Slots, Agrees(req[s]), CommitRefundCard(s)
  PROVE  /\ Advances /\ RowsAgree' /\ MovesRefund({RefundStatusOf(req[s].seen)})
         /\ pay.refund = "REQUESTED"
<1>1. /\ req[s].op \in WorksOnRefund /\ req[s].at = "commit" /\ pay.refund = "REQUESTED"
      /\ ApplyRefund(req[s].order, req[s].pay, req[s].seen)
      /\ UNCHANGED <<payments, attempt, owner, intent, cash>>
  BY DEF CommitRefundCard, At, Agrees, WorksOnRefund, stripe, history
<1>. QED  BY <1>1, OutcomeAdvances

LEMMA RefundEventAdvances ==
  ASSUME Typed, RowsAgree, RefundsAgree, NEW s \in Slots, Agrees(req[s]), CommitRefundEvent(s)
  PROVE  Advances /\ RowsAgree' /\ MovesRefund({RefundStatusOf(req[s].seen)})
<1>1. /\ req[s].op = "refundEvent" /\ req[s].op \in WorksOnRefund /\ req[s].at = "commit"
      /\ ApplyRefund(req[s].order, req[s].pay, req[s].seen)
      /\ UNCHANGED <<payments, attempt, owner, intent, cash>>
  BY DEF CommitRefundEvent, At, WorksOnRefund, stripe, history
<1>2. pay.id \in PaymentIds /\ refundEmitted[pay.id] # <<>>
  BY <1>1, RefundHasRow DEF Agrees
<1>3. pay.refund # "NONE"  BY <1>2 DEF RefundsAgree
<1>. QED  BY <1>1, <1>3, OutcomeAdvances

--------------------------------------------------------------------------------
(* Every step is a step of the lifecycle or none. *)

RefundCommit(s) ==
  \/ CommitRefundCash(s) \/ CommitRefundRequested(s) \/ CommitRefundFailed(s)
  \/ CommitRefundCard(s) \/ CommitRefundEvent(s)

LEMMA StepAdvances ==
  ASSUME Typed, Closed, RowsAgree, RefundsAgree, RequestsAgree, [Next]_vars
  PROVE  /\ Advances /\ RowsAgree'
         /\ KeepsRefund \/ \E s \in Slots : RefundCommit(s)
<1>0. \A s \in Slots : Agrees(req[s])  BY DEF RequestsAgree
<1>1. ASSUME UNCHANGED <<database, owner, cash>>,
             \A a \in AttemptIds : intent[a] # "none" => intent'[a] # "none"
      PROVE  Advances /\ RowsAgree' /\ KeepsRefund
  BY <1>1 DEF Advances, Lifecycle!vars, RowsAgree, KeepsRefund, database
<1>2. ASSUME UNCHANGED <<database, stripe, cash>>
      PROVE  Advances /\ RowsAgree' /\ KeepsRefund
  BY <1>1, <1>2 DEF stripe
<1>3. ASSUME NEW s \in Slots, Transition(s)
      PROVE  Advances /\ RowsAgree' /\ KeepsRefund
  <2>1. CASE CancelIntent(s)
    <3>1. \A a \in AttemptIds : intent[a] # "none" => intent'[a] # "none"
      BY <2>1 DEF CancelIntent, Typed, TypeOK
    <3>. QED  BY <1>1, <2>1, <3>1 DEF CancelIntent, history
  <2>2. ASSUME NEW to \in OrderStatus, ReadTransition(s, to)
        PROVE  Advances /\ RowsAgree' /\ KeepsRefund
    BY <1>2, <2>2 DEF ReadTransition, history
  <2>3. CASE ReadPayment(s) \/ ReadAttempt(s)
    BY <1>2, <2>3 DEF ReadPayment, ReadAttempt, history
  <2>. QED  BY <1>0, <1>3, <2>1, <2>2, <2>3, ConfirmAdvances, FulfilAdvances, CancelAdvances,
               ReopenAdvances, DeleteAdvances DEF Transition
<1>4. ASSUME NEW s \in Slots, Collection(s)
      PROVE  Advances /\ RowsAgree' /\ KeepsRefund
  <2>1. CASE \/ ReadLegacy(s) \/ ReadCard(s) \/ ReadPoll(s) \/ RetrieveIntent(s)
             \/ ReadAgain(s) \/ ReadCash(s)
    BY <1>2, <2>1 DEF ReadLegacy, ReadCard, ReadPoll, RetrieveIntent, ReadAgain, ReadCash,
                      history
  <2>. QED  BY <1>0, <1>4, <2>1, LegacyAdvances, CardAdvances, CashAdvances, ReportAdvances
            DEF Collection
<1>5. ASSUME NEW s \in Slots, Refunding(s)
      PROVE  Advances /\ RowsAgree' /\ (KeepsRefund \/ RefundCommit(s))
  <2>1. CASE \/ ReadRefund(s) \/ ReadOrderAgain(s) \/ ReadRefundAgain(s) \/ ReplayRefund(s)
             \/ RefundUnavailable(s)
    BY <1>2, <2>1 DEF ReadRefund, ReadOrderAgain, ReadRefundAgain, ReplayRefund,
                      RefundUnavailable, history
  <2>2. ASSUME NEW st \in StripeRefundStatus, CreateRefund(s, st)
        PROVE  Advances /\ RowsAgree' /\ KeepsRefund
    BY <1>1, <2>2 DEF CreateRefund, history
  <2>. QED  BY <1>0, <1>5, <2>1, <2>2, RefundCashAdvances, RefundRequestAdvances,
               RefundFailedAdvances, RefundCardAdvances DEF Refunding, RefundCommit
<1>6. ASSUME NEW s \in Slots, Webhook(s)
      PROVE  Advances /\ RowsAgree' /\ (KeepsRefund \/ RefundCommit(s))
  <2>1. CASE \/ IgnoreIntentEvent(s) \/ ReadIntentEvent(s) \/ IgnoreRefundEvent(s)
             \/ ReadRefundEvent(s)
    BY <1>2, <2>1 DEF IgnoreIntentEvent, ReadIntentEvent, IgnoreRefundEvent, ReadRefundEvent,
                      history
  <2>. QED  BY <1>0, <1>6, <2>1, ReportAdvances, RefundEventAdvances DEF Webhook, RefundCommit
<1>7. ASSUME NEW a \in AttemptIds, NEW to \in IntentStatus, IntentMoves(a, to)
      PROVE  Advances /\ RowsAgree' /\ KeepsRefund
  <2>1. \A b \in AttemptIds : intent[b] # "none" => intent'[b] # "none"
    BY <1>7 DEF IntentMoves, IntentStatus, Typed, TypeOK
  <2>. QED  BY <1>1, <1>7, <2>1 DEF IntentMoves, history
<1>8. ASSUME NEW id \in PaymentIds, NEW to \in StripeRefundStatus, RefundMoves(id, to)
      PROVE  Advances /\ RowsAgree' /\ KeepsRefund
  BY <1>1, <1>8 DEF RefundMoves, history
<1>9. ASSUME UNCHANGED vars \/ \E s \in Slots : Abort(s)
      PROVE  Advances /\ RowsAgree' /\ KeepsRefund
  BY <1>2, <1>9 DEF vars, Abort, history
<1>. QED  BY <1>3, <1>4, <1>5, <1>6, <1>7, <1>8, <1>9 DEF Next, Outside

LEMMA StepCloses ==
  ASSUME Typed, Closed, RowsAgree, RefundsAgree, RequestsAgree, [Next]_vars
  PROVE  Closed'
<1>1. CASE Lifecycle!Next  BY <1>1, LifecycleCloses DEF Typed, TypeOK
<1>2. CASE UNCHANGED Lifecycle!vars
  BY <1>2 DEF Lifecycle!vars, Closed, PendingHasNoPayment, RefundedIsClosed,
              Lifecycle!PendingHasNoPayment, Lifecycle!RefundedIsClosed
<1>. QED  BY <1>1, <1>2, StepAdvances DEF Advances

--------------------------------------------------------------------------------
(* Stripe's refunds and charges. *)

\* What was charged for a payment stays charged for it.
LEMMA ChargesGrow ==
  ASSUME Typed, [Next]_vars, NEW id \in PaymentIds
  PROVE  Charges(id) \subseteq Charges(id)'
<1>1. ASSUME NEW a \in AttemptIds, intent[a] = "succeeded"  PROVE owner'[a] = owner[a]
  <2>1. ASSUME NEW s \in Slots, CommitCard(s)  PROVE owner'[a] = owner[a]
    <3>1. PICK b \in AttemptIds : /\ \A c \in AttemptIds : intent[c] # "none" <=> c < b
                                  /\ owner' = [owner EXCEPT ![b] = Stored(req[s].pay).id]
      BY <2>1 DEF CommitCard
    <3>2. a # b  BY <1>1, <3>1 DEF AttemptIds
    <3>. QED  BY <3>1, <3>2 DEF Typed, TypeOK
  <2>2. owner' = owner \/ \E s \in Slots : CommitCard(s)
    BY IntentsMoveIn DEF CancelIntent, IntentMoves, vars, stripe
  <2>. QED  BY <2>1, <2>2
<1>. QED  BY <1>1, FinalIsFinal DEF Charges, Final

\* What a refund commit writes, and what it found.
LEMMA RefundCommitRow ==
  ASSUME Typed, RowsAgree, RefundsAgree, RequestsAgree, NEW s \in Slots, RefundCommit(s)
  PROVE  /\ payments' = payments /\ pay'.id = pay.id /\ pay.id \in PaymentIds
         /\ pay'.refund # "NONE"
         /\ pay'.refund \in {"REQUESTED", "FAILED"} /\ ~CommitRefundEvent(s)
              => pay.refund \in {"NONE", "REQUESTED", "FAILED"}
<1>1. Agrees(req[s])  BY DEF RequestsAgree
<1>2. req[s].op \in WorksOnRefund
  BY DEF RefundCommit, CommitRefundCash, CommitRefundRequested, CommitRefundFailed,
         CommitRefundCard, CommitRefundEvent, At, WorksOnRefund
<1>3. pay \in PaymentRow /\ pay.id \in PaymentIds  BY <1>1, <1>2, RefundHasRow DEF Typed, TypeOK
<1>4. RefundStatusOf(req[s].seen) # "NONE"  BY DEF RefundStatusOf
<1>5. ASSUME NEW outcome, MovesRefund({outcome})
      PROVE  payments' = payments /\ pay'.id = pay.id /\ pay'.refund = outcome
  BY <1>3, <1>5 DEF MovesRefund, PaymentRow
<1>6. CASE CommitRefundCash(s)
  BY <1>1, <1>3, <1>5, <1>6, RefundCashAdvances
<1>7. CASE CommitRefundRequested(s)
  BY <1>1, <1>3, <1>5, <1>7, RefundRequestAdvances
     DEF CommitRefundRequested, At, Agrees
<1>8. CASE CommitRefundFailed(s)
  BY <1>1, <1>3, <1>5, <1>8, RefundFailedAdvances
<1>9. CASE CommitRefundCard(s)
  BY <1>1, <1>3, <1>4, <1>5, <1>9, RefundCardAdvances
<1>10. CASE CommitRefundEvent(s)
  BY <1>1, <1>3, <1>4, <1>5, <1>10, RefundEventAdvances
<1>. QED  BY <1>6, <1>7, <1>8, <1>9, <1>10 DEF RefundCommit

\* The row of payment id is there after a step only if it was, or if it is new.
LEMMA RowOf ==
  ASSUME Typed, Closed, RowsAgree, RefundsAgree, RequestsAgree, [Next]_vars,
         NEW id \in PaymentIds, pay'.id = id
  PROVE  /\ payments' >= payments
         /\ \/ id > payments /\ pay'.refund = "NONE"
            \/ pay.id = id /\ pay'.refund = pay.refund
            \/ pay.id = id /\ pay'.refund # "NONE" /\ \E s \in Slots : RefundCommit(s)
<1>1. id # 0 /\ NoPayment.id = 0 /\ payments \in Int
  BY BoundsAssumption DEF PaymentIds, NoPayment, Typed, TypeOK
<1>2. CASE KeepsRefund  BY <1>1, <1>2 DEF KeepsRefund
<1>3. ASSUME NEW s \in Slots, RefundCommit(s)
      PROVE  /\ payments' = payments /\ pay.id = id /\ pay'.refund # "NONE"
  BY <1>3, RefundCommitRow
<1>. QED  BY <1>1, <1>2, <1>3, StepAdvances

LEMMA PaymentsGrow ==
  ASSUME Typed, Closed, RowsAgree, RefundsAgree, RequestsAgree, [Next]_vars
  PROVE  payments' >= payments
<1>1. payments \in Int  BY BoundsAssumption DEF Typed, TypeOK
<1>2. CASE KeepsRefund  BY <1>1, <1>2 DEF KeepsRefund
<1>. QED  BY <1>1, <1>2, RefundCommitRow, StepAdvances

\* A refund that Stripe makes or moves is of a payment that was charged and says so.
LEMMA CreatedRefund ==
  ASSUME Sound, AttemptTellsTruth, RowsAgree, RefundsAgree, RequestsAgree,
         NEW s \in Slots, NEW st \in StripeRefundStatus, CreateRefund(s, st)
  PROVE  /\ req[s].pay.id \in PaymentIds /\ req[s].pay.id = pay.id
         /\ pay.id <= payments /\ pay.refund = "REQUESTED" /\ Charges(pay.id) # {}
         /\ refund[pay.id].now = "none" /\ refundEmitted[pay.id] = <<>>
<1> DEFINE r == req[s]
<1>1. r.op = "refundCard" /\ r.at = "stripe" /\ r.op \in WorksOnRefund
      /\ refund[r.pay.id].now = "none"
  BY DEF CreateRefund, At, WorksOnRefund, NoRefund
<1>2. r.pay.id = pay.id /\ pay.refund = "REQUESTED" /\ attempt[r.att] = "SUCCEEDED"
  BY <1>1 DEF RequestsAgree, Agrees
<1>3. r.pay.id \in PaymentIds /\ r.att \in AttemptIds
  BY <1>1 DEF Sound, Typed, Fits
<1>4. r.att \in Charges(pay.id)
  BY <1>2, <1>3 DEF AttemptTellsTruth, RowsAgree, Charges
<1>. QED  BY <1>1, <1>2, <1>3, <1>4 DEF RefundsAgree, RowsAgree

LEMMA StepRefundsAgree ==
  ASSUME Sound, AttemptTellsTruth, Closed, RowsAgree, RefundsAgree, RequestsAgree, [Next]_vars
  PROVE  RefundsAgree'
<1>0. /\ refund \in [PaymentIds -> [now: StripeRefundStatus \cup {"none"},
                                    first: StripeRefundStatus \cup {"none"},
                                    att: 0..MaxAttempts]]
      /\ refundEmitted \in [PaymentIds -> Seq(StripeRefundStatus)]
      /\ payments \in Int /\ payments' \in Int /\ Typed
  BY StepSound, BoundsAssumption DEF Sound, Typed, TypeOK
<1> SUFFICES ASSUME NEW id \in PaymentIds
             PROVE  /\ id > payments' => refund'[id].now = "none"
                    /\ refund'[id].now # "none"
                         => Charges(id)' # {} /\ (pay'.id = id => pay'.refund # "NONE")
                    /\ refundEmitted'[id] # <<>> => refund'[id].now # "none"
                    /\ \A n \in 1..Len(refundEmitted'[id]) : refundEmitted'[id][n] = "failed" =>
                         n = Len(refundEmitted'[id]) /\ refund'[id].now = "failed"
  BY DEF RefundsAgree
<1>1. /\ id > payments' => id > payments
      /\ Charges(id) # {} => Charges(id)' # {}
  BY <1>0, PaymentsGrow, ChargesGrow DEF PaymentIds
<1>2. id <= payments /\ pay'.id = id /\ (pay.id = id => pay.refund # "NONE")
        => pay'.refund # "NONE"
  BY <1>0, RowOf DEF PaymentIds
<1>3. ASSUME refund'[id] = refund[id], refundEmitted'[id] = refundEmitted[id]
      PROVE  /\ id > payments' => refund'[id].now = "none"
             /\ refund'[id].now # "none"
                  => Charges(id)' # {} /\ (pay'.id = id => pay'.refund # "NONE")
             /\ refundEmitted'[id] # <<>> => refund'[id].now # "none"
             /\ \A n \in 1..Len(refundEmitted'[id]) : refundEmitted'[id][n] = "failed" =>
                  n = Len(refundEmitted'[id]) /\ refund'[id].now = "failed"
  <2>1. id <= payments \/ id > payments  BY <1>0 DEF PaymentIds
  <2>. QED  BY <1>1, <1>2, <1>3, <2>1 DEF RefundsAgree
<1>4. ASSUME NEW s \in Slots, NEW st \in StripeRefundStatus, CreateRefund(s, st), id = pay.id
      PROVE  /\ id > payments' => refund'[id].now = "none"
             /\ refund'[id].now # "none"
                  => Charges(id)' # {} /\ (pay'.id = id => pay'.refund # "NONE")
             /\ refundEmitted'[id] # <<>> => refund'[id].now # "none"
             /\ \A n \in 1..Len(refundEmitted'[id]) : refundEmitted'[id][n] = "failed" =>
                  n = Len(refundEmitted'[id]) /\ refund'[id].now = "failed"
  <2>1. /\ req[s].pay.id = id /\ pay.id <= payments /\ pay.refund = "REQUESTED"
        /\ Charges(id) # {} /\ refundEmitted[id] = <<>>
    BY <1>4, CreatedRefund
  <2>2. /\ refund' = [refund EXCEPT ![id] = [now |-> st, first |-> st, att |-> req[s].att]]
        /\ refundEmitted' = [refundEmitted EXCEPT ![id] = Append(@, st)]
        /\ UNCHANGED <<pay, payments>>
    BY <1>4, <2>1 DEF CreateRefund, database
  <2>3. refund'[id].now = st /\ refundEmitted'[id] = <<st>>
    BY <1>0, <2>1, <2>2
  <2>4. /\ Len(refundEmitted'[id]) = 1 /\ refundEmitted'[id][1] = st /\ st # "none"
    BY <2>3 DEF StripeRefundStatus
  <2>. QED  BY <1>0, <1>1, <1>4, <2>1, <2>2, <2>3, <2>4 DEF PaymentIds
<1>5. ASSUME NEW to \in StripeRefundStatus, RefundMoves(id, to)
      PROVE  /\ id > payments' => refund'[id].now = "none"
             /\ refund'[id].now # "none"
                  => Charges(id)' # {} /\ (pay'.id = id => pay'.refund # "NONE")
             /\ refundEmitted'[id] # <<>> => refund'[id].now # "none"
             /\ \A n \in 1..Len(refundEmitted'[id]) : refundEmitted'[id][n] = "failed" =>
                  n = Len(refundEmitted'[id]) /\ refund'[id].now = "failed"
  <2>1. /\ refund[id].now = "pending" /\ refund' = [refund EXCEPT ![id].now = to]
        /\ refundEmitted' = [refundEmitted EXCEPT ![id] = Append(@, to)]
        /\ UNCHANGED <<pay, payments>>
    BY <1>5 DEF RefundMoves, database
  <2>2. refund'[id].now = to /\ to # "none" /\ refundEmitted'[id] = Append(refundEmitted[id], to)
    BY <1>0, <2>1 DEF StripeRefundStatus
  <2>3. \A n \in 1..Len(refundEmitted[id]) : refundEmitted[id][n] # "failed"
    BY <2>1 DEF RefundsAgree
  <2>4. \A n \in 1..Len(refundEmitted'[id]) : refundEmitted'[id][n] = "failed" =>
          n = Len(refundEmitted'[id]) /\ to = "failed"
    BY <1>0, <2>2, <2>3
  <2>5. id <= payments /\ Charges(id) # {} /\ (pay.id = id => pay.refund # "NONE")
    BY <1>0, <2>1 DEF RefundsAgree, PaymentIds
  <2>. QED  BY <1>0, <1>1, <2>1, <2>2, <2>4, <2>5 DEF PaymentIds
<1>6. \/ refund'[id] = refund[id] /\ refundEmitted'[id] = refundEmitted[id]
      \/ \E s \in Slots, st \in StripeRefundStatus : CreateRefund(s, st) /\ id = pay.id
      \/ \E to \in StripeRefundStatus : RefundMoves(id, to)
  <2>1. ASSUME NEW s \in Slots, NEW st \in StripeRefundStatus, CreateRefund(s, st), id # pay.id
        PROVE  refund'[id] = refund[id] /\ refundEmitted'[id] = refundEmitted[id]
    BY <1>0, <2>1, CreatedRefund DEF CreateRefund
  <2>2. ASSUME NEW p \in PaymentIds, NEW to \in StripeRefundStatus, RefundMoves(p, to), id # p
        PROVE  refund'[id] = refund[id] /\ refundEmitted'[id] = refundEmitted[id]
    BY <1>0, <2>2 DEF RefundMoves
  <2>. QED  BY <2>1, <2>2, RefundsMoveIn
<1>. QED  BY <1>3, <1>4, <1>5, <1>6

--------------------------------------------------------------------------------
(* Cash handed back. *)

LEMMA ReceiptsGrow ==
  ASSUME [Next]_vars
  PROVE  received \subseteq received'
<1>1. ASSUME NEW s \in Slots, Transition(s)  PROVE UNCHANGED received
  BY <1>1 DEF Transition, ReadTransition, ReadPayment, ReadAttempt, CancelIntent, CommitConfirm,
              CommitFulfil, CommitCancel, CommitReopen, DeleteOrder
<1>2. ASSUME NEW s \in Slots, Collection(s)  PROVE UNCHANGED received
  BY <1>2 DEF Collection, ReadLegacy, CommitLegacy, ReadCard, CommitCard, ReadPoll,
              RetrieveIntent, ReadAgain, CommitPoll, ReadCash, CommitCash
<1>3. ASSUME NEW s \in Slots, Refunding(s)  PROVE UNCHANGED received
  BY <1>3 DEF Refunding, ReadRefund, ReadOrderAgain, ReadRefundAgain, CommitRefundCash,
              CommitRefundRequested, CreateRefund, ReplayRefund, RefundUnavailable,
              CommitRefundFailed, CommitRefundCard
<1>4. ASSUME NEW s \in Slots, Webhook(s)  PROVE received \subseteq received'
  BY <1>4 DEF Webhook, IgnoreIntentEvent, ReadIntentEvent, CommitIntentEvent,
              IgnoreRefundEvent, ReadRefundEvent, CommitRefundEvent
<1>5. ASSUME UNCHANGED vars \/ Outside \/ \E s \in Slots : Abort(s)  PROVE UNCHANGED received
  BY <1>5 DEF vars, Outside, IntentMoves, RefundMoves, Abort
<1>. QED  BY <1>1, <1>2, <1>3, <1>4, <1>5 DEF Next

\* What Stripe announced of a refund stays announced.
LEMMA AnnouncementsStay ==
  ASSUME Typed, [Next]_vars, NEW id \in PaymentIds, NEW n \in 1..Len(refundEmitted[id])
  PROVE  n \in 1..Len(refundEmitted'[id]) /\ refundEmitted'[id][n] = refundEmitted[id][n]
<1>0. refundEmitted \in [PaymentIds -> Seq(StripeRefundStatus)]
      /\ refundEmitted[id] \in Seq(StripeRefundStatus)
  BY DEF Typed, TypeOK
<1>1. ASSUME NEW st \in StripeRefundStatus, refundEmitted'[id] = Append(refundEmitted[id], st)
      PROVE  n \in 1..Len(refundEmitted'[id]) /\ refundEmitted'[id][n] = refundEmitted[id][n]
  BY <1>0, <1>1
<1>2. ASSUME NEW s \in Slots, NEW st \in StripeRefundStatus, CreateRefund(s, st)
      PROVE  refundEmitted'[id] \in {refundEmitted[id], Append(refundEmitted[id], st)}
  BY <1>0, <1>2 DEF CreateRefund
<1>3. ASSUME NEW p \in PaymentIds, NEW to \in StripeRefundStatus, RefundMoves(p, to)
      PROVE  refundEmitted'[id] \in {refundEmitted[id], Append(refundEmitted[id], to)}
  BY <1>0, <1>3 DEF RefundMoves
<1>. QED  BY <1>1, <1>2, <1>3, RefundsMoveIn

LEMMA FailureStaysReported ==
  ASSUME Typed, [Next]_vars, NEW id \in PaymentIds, FailureReported(id)
  PROVE  FailureReported(id)'
BY AnnouncementsStay, ReceiptsGrow DEF FailureReported

\* The event of a failed refund, applied at last.
LEMMA FailureApplied ==
  ASSUME Typed, RowsAgree, RefundsAgree, RequestsAgree, NEW s \in Slots,
         CommitRefundEvent(s), pay'.refund \in {"REQUESTED", "FAILED"}
  PROVE  pay.id \in PaymentIds /\ ~FailureReported(pay.id) /\ FailureReported(pay.id)'
<1> DEFINE r == req[s]
           n == req[s].event
<1>1. r.op = "refundEvent" /\ r.op \in WorksOnRefund /\ Agrees(r)
  BY DEF CommitRefundEvent, At, WorksOnRefund, RequestsAgree
<1>2. r.pay.id = pay.id /\ pay.id \in PaymentIds  BY <1>1, RefundHasRow
<1>3. /\ n \in 1..Len(refundEmitted[pay.id]) /\ r.seen = refundEmitted[pay.id][n]
      /\ <<"refundEvent", pay.id, n>> \notin received
      /\ <<"refundEvent", pay.id, n>> \in received'
  BY <1>1, <1>2 DEF Agrees, CommitRefundEvent
<1>4. MovesRefund({RefundStatusOf(r.seen)}) /\ pay \in PaymentRow
  BY <1>1, RefundEventAdvances DEF Typed, TypeOK
<1>5. RefundStatusOf(r.seen) \in {"REQUESTED", "FAILED"}
  BY <1>4 DEF MovesRefund, PaymentRow
<1>6. r.seen = "failed"  BY <1>5 DEF RefundStatusOf
<1>7. \A m \in 1..Len(refundEmitted[pay.id]) : refundEmitted[pay.id][m] = "failed" => m = n
  BY <1>2, <1>3, <1>6 DEF RefundsAgree
<1>8. ~FailureReported(pay.id)  BY <1>3, <1>7 DEF FailureReported
<1>9. UNCHANGED refundEmitted /\ UNCHANGED pay.id
  BY <1>4 DEF CommitRefundEvent, stripe, MovesRefund, PaymentRow
<1>. QED  BY <1>2, <1>3, <1>6, <1>8, <1>9 DEF FailureReported

LEMMA StepCashAgrees ==
  ASSUME Typed, Closed, RowsAgree, RefundsAgree, RequestsAgree, CashAgrees, [Next]_vars
  PROVE  CashAgrees'
<1>0. /\ cashBack \in [PaymentIds -> Nat] /\ payments \in Int /\ payments' \in Int
      /\ pay \in PaymentRow
  BY StepTyped, BoundsAssumption DEF Typed, TypeOK
<1> SUFFICES ASSUME NEW id \in PaymentIds
             PROVE  /\ id > payments' => cashBack'[id] = 0
                    /\ cashBack'[id] > 0 => id \in cash'
                    /\ cashBack'[id] <= IF FailureReported(id)' THEN 2 ELSE 1
                    /\ pay'.id = id /\ pay'.refund \in {"NONE", "REQUESTED", "FAILED"} =>
                         cashBack'[id] <= IF FailureReported(id)' THEN 1 ELSE 0
  BY DEF CashAgrees
<1>1. /\ cashBack[id] \in Nat /\ (id > payments => cashBack[id] = 0)
      /\ cashBack[id] > 0 => id \in cash
      /\ cashBack[id] <= IF FailureReported(id) THEN 2 ELSE 1
      /\ pay.id = id /\ pay.refund \in {"NONE", "REQUESTED", "FAILED"} =>
           cashBack[id] <= IF FailureReported(id) THEN 1 ELSE 0
  BY <1>0 DEF CashAgrees
<1>2. /\ id > payments' => id > payments
      /\ cash \subseteq cash' /\ (FailureReported(id) => FailureReported(id)')
  BY <1>0, PaymentsGrow, HistoryGrows, FailureStaysReported DEF PaymentIds
<1>3. CASE cashBack'[id] = cashBack[id]
  <2>1. ASSUME pay'.id = id, pay'.refund \in {"NONE", "REQUESTED", "FAILED"}
        PROVE  cashBack[id] <= IF FailureReported(id)' THEN 1 ELSE 0
    <3>1. CASE id > payments  BY <1>1, <3>1
    <3>2. CASE pay.id = id /\ pay'.refund = pay.refund  BY <1>1, <1>2, <2>1, <3>2
    <3>3. ASSUME NEW s \in Slots, RefundCommit(s), pay.id = id, pay'.refund # "NONE"
          PROVE  cashBack[id] <= IF FailureReported(id)' THEN 1 ELSE 0
      <4>1. CASE CommitRefundEvent(s)
        BY <1>1, <2>1, <3>3, <4>1, FailureApplied
      <4>2. CASE ~CommitRefundEvent(s)
        <5>1. pay.refund \in {"NONE", "REQUESTED", "FAILED"}
          BY <2>1, <3>3, <4>2, RefundCommitRow
        <5>. QED  BY <1>1, <1>2, <3>3, <5>1
      <4>. QED  BY <4>1, <4>2
    <3>. QED  BY <2>1, <3>1, <3>2, <3>3, RowOf
  <2>. QED  BY <1>1, <1>2, <1>3, <2>1
<1>4. ASSUME NEW s \in Slots, CommitRefundCash(s), pay.id = id
      PROVE  /\ id <= payments' /\ id \in cash
             /\ cashBack'[id] <= IF FailureReported(id) THEN 2 ELSE 1
             /\ pay'.refund \notin {"NONE", "REQUESTED", "FAILED"}
  <2>1. /\ req[s].op = "refundCash" /\ req[s].op \in WorksOnRefund /\ Agrees(req[s])
    BY <1>4 DEF CommitRefundCash, At, WorksOnRefund, RequestsAgree
  <2>2. /\ req[s].pay.id = id /\ pay.method = "CASH" /\ pay.refund \in {"NONE", "FAILED"}
    BY <1>4, <2>1, RefundHasRow DEF Agrees
  <2>3. /\ cashBack' = [cashBack EXCEPT ![id] = @ + 1] /\ payments' = payments
        /\ pay' = [pay EXCEPT !.refund = "REFUNDED"]
    BY <1>4, <2>2 DEF CommitRefundCash
  <2>4. id \in cash /\ id <= payments  BY <1>4, <2>2 DEF RowsAgree
  <2>. QED  BY <1>0, <1>1, <1>4, <2>2, <2>3, <2>4 DEF PaymentRow
<1>5. ASSUME NEW s \in Slots, CommitRefundCash(s), pay.id # id
      PROVE  cashBack'[id] = cashBack[id]
  <2>1. req[s].pay.id = pay.id  BY <1>5 DEF CommitRefundCash
  <2>. QED  BY <1>0, <1>5, <2>1 DEF CommitRefundCash
<1>6. CASE \E s \in Slots : CommitRefundCash(s) /\ pay.id = id
  <2>1. /\ id <= payments' /\ id \in cash
        /\ cashBack'[id] <= IF FailureReported(id) THEN 2 ELSE 1
        /\ pay'.refund \notin {"NONE", "REQUESTED", "FAILED"}
    BY <1>4, <1>6
  <2>2. id \in Int  BY DEF PaymentIds
  <2>3. cashBack'[id] \in Nat
    <3>1. cashBack' \in [PaymentIds -> Nat]  BY StepTyped DEF Typed, TypeOK
    <3>. QED  BY <3>1
  <2>. QED  BY <1>0, <1>2, <2>1, <2>2, <2>3
<1>. QED  BY <1>3, <1>5, <1>6, CashBackMovesIn

--------------------------------------------------------------------------------
(* What an open request read and checked still holds. *)

\* Stripe may move, but it takes nothing back, and nobody else writes.
LEMMA StillAgrees ==
  ASSUME Typed, [Next]_vars, UNCHANGED <<database, received>>, NEW s \in Slots, Agrees(req'[s])
  PROVE  Agrees(req[s])'
<1>1. ASSUME req'[s].op = "refundEvent"
      PROVE  /\ req'[s].event \in 1..Len(refundEmitted'[req'[s].pay.id])
             /\ req'[s].seen = refundEmitted'[req'[s].pay.id][req'[s].event]
  <2>1. req'[s].pay.id \in PaymentIds
    BY <1>1, StepTyped DEF Typed, Fits, WorksOnRefund
  <2>. QED  BY <1>1, <2>1, AnnouncementsStay DEF Agrees
<1>2. EffectivePayment' = EffectivePayment  BY DEF EffectivePayment, database
<1>. QED  BY <1>1, <1>2 DEF Agrees, Looked, database

LEMMA IdleAgrees ==
  ASSUME NEW s \in Slots, req[s].op = "idle"
  PROVE  Agrees(req[s])
BY DEF Agrees, WorksOnAttempt, WorksOnRefund

LEMMA TransitionAgrees ==
  ASSUME Typed, NEW s \in Slots, NEW to \in OrderStatus, ReadTransition(s, to)
  PROVE  Agrees(req'[s])
<1>1. /\ order = CASE to = "CONFIRMED" -> "PENDING" [] to = "FULFILLED" -> "CONFIRMED"
                   [] to = "PENDING" -> "CANCELLED" [] OTHER -> order
      /\ to = "CANCELLED" => order \in {"PENDING", "CONFIRMED"}
  BY DEF ReadTransition, AllowedTransitions, OrderStatus
<1>2. /\ req'[s].op = to /\ req'[s].att = 0
      /\ IF to \in {"FULFILLED", "PENDING"} \/ order = "CONFIRMED"
         THEN req'[s].at = "payment" /\ req'[s].pay = EffectivePayment
         ELSE req'[s].at = "commit" /\ req'[s].pay = NoPayment
  BY DEF ReadTransition, Begin, Idle, Typed, TypeOK
<1>. QED  BY <1>1, <1>2 DEF Agrees, Looked, OrderStatus, WorksOnRefund

\* Nothing has changed when the transition reads the payment again.
LEMMA PaymentAgrees ==
  ASSUME Typed, NEW s \in Slots, Agrees(req[s]), ReadPayment(s)
  PROVE  Agrees(req'[s])
<1> DEFINE r == req[s]
           p == Reread(r)
<1>0. req \in [Slots -> Request] /\ r \in Request /\ Fits(r)  BY DEF Typed, TypeOK
<1>1. /\ r.op \in OrderStatus /\ r.at = "payment" /\ Permits(r.op, p)
      /\ req'[s].op = r.op /\ req'[s].att = r.att /\ req'[s].pay = p
      /\ req'[s].at = IF r.op = "FULFILLED" \/ p.id = 0 THEN "commit" ELSE "attempt"
  BY <1>0 DEF ReadPayment, Begin, Request
<1>2. r.op # "CONFIRMED" => r.pay = EffectivePayment
  BY <1>1 DEF Agrees, Looked, OrderStatus
<1>3. r.op # "CONFIRMED" => p = EffectivePayment
  BY <1>2, EffectiveRow DEF Reread
<1>4. p.id # 0 /\ r.op # "CONFIRMED" => pay # NoPayment
  BY <1>2, EffectiveRow DEF Reread
<1>5. r.op \in {"CANCELLED", "PENDING"} => r.att = 0
  BY <1>0, <1>1 DEF Fits
<1>. QED  BY <1>1, <1>3, <1>4, <1>5 DEF Agrees, Looked, OrderStatus, WorksOnAttempt, WorksOnRefund

\* The attempt it is about to cancel is one of a payment that waits for Stripe.
LEMMA AttemptAgrees ==
  ASSUME Typed, NEW s \in Slots, Agrees(req[s]), ReadAttempt(s)
  PROVE  Agrees(req'[s])
<1>0. req \in [Slots -> Request] /\ req[s] \in Request /\ Fits(req[s])  BY DEF Typed, TypeOK
<1>1. /\ req[s].op \in {"CANCELLED", "PENDING"} /\ req[s].at = "attempt" /\ req[s].att = 0
      /\ req'[s].op = req[s].op /\ req'[s].pay = pay
  BY <1>0, AttemptRead DEF ReadAttempt, Fits
<1>2. req[s].pay = EffectivePayment /\ pay # NoPayment /\ Permits(req[s].op, req[s].pay)
  BY <1>1 DEF Agrees, Looked
<1>3. pay = EffectivePayment  BY <1>2, EffectiveRow
<1>4. /\ req'[s].at \in {"commit", "stripe"}
      /\ req'[s].att # 0 => Reusable(pay, req'[s].att)
  <2>1. CASE Begin(s, [req[s] EXCEPT !.at = "commit", !.pay = pay])
    BY <1>0, <1>1, <2>1 DEF Begin, Request
  <2>2. ASSUME NEW a, Reusable(pay, a),
               Begin(s, [req[s] EXCEPT !.at = "stripe", !.pay = pay, !.att = a, !.was = attempt[a]])
        PROVE  req'[s].at = "stripe" /\ req'[s].att = a
    BY <1>0, <2>2 DEF Begin, Request
  <2>. QED  BY <2>1, <2>2 DEF ReadAttempt
<1>5. req'[s].att # 0 => pay.status = "PENDING" /\ attempt[req'[s].att] # "NONE"
  BY <1>4 DEF Reusable, CARD_ACTIVE_ATTEMPT_STATUSES
<1>. QED  BY <1>1, <1>2, <1>3, <1>4, <1>5 DEF Agrees, Looked, WorksOnRefund

LEMMA CollectionAgrees ==
  ASSUME Typed, NEW s \in Slots, Agrees(req[s]),
         \/ ReadLegacy(s) \/ ReadCard(s) \/ ReadPoll(s) \/ RetrieveIntent(s)
         \/ ReadAgain(s) \/ ReadCash(s)
  PROVE  Agrees(req'[s])
<1>0. req \in [Slots -> Request] /\ req[s] \in Request  BY DEF Typed, TypeOK
<1>1. CASE ReadLegacy(s)
  <2>1. /\ req'[s].op = "view" /\ req'[s].pay = EffectivePayment
        /\ order # "DELETED" /\ Inserted(EffectivePayment)
    BY <1>0, <1>1 DEF ReadLegacy, Begin, Idle
  <2>. QED  BY <2>1 DEF Agrees, WorksOnAttempt, WorksOnRefund
<1>2. CASE ReadCard(s) \/ ReadCash(s)
  <2>1. /\ req'[s].op \in {"card", "cash"} /\ req'[s].pay = EffectivePayment
        /\ order = "CONFIRMED"
        /\ req'[s].op = "card" => AcceptsCollection(EffectivePayment)
        /\ req'[s].op = "cash" => AcceptsCash(EffectivePayment)
    BY <1>0, <1>2 DEF ReadCard, ReadCash, Begin, Idle
  <2>. QED  BY <2>1 DEF Agrees, WorksOnAttempt, WorksOnRefund
<1>3. CASE ReadPoll(s)
  <2>1. req'[s].op = "poll" /\ attempt[req'[s].att] # "NONE"
    BY <1>0, <1>3 DEF ReadPoll, Begin, Idle, LatestAmong, AttemptStatus
  <2>. QED  BY <2>1 DEF Agrees, WorksOnRefund
<1>4. CASE RetrieveIntent(s) \/ ReadAgain(s)
  <2>1. /\ req[s].op \in {"poll", "intentEvent"} /\ req'[s].op = req[s].op
        /\ req'[s].att = req[s].att
    <3>1. CASE RetrieveIntent(s)
      BY <1>0, <3>1 DEF RetrieveIntent, At, Begin, Request
    <3>2. CASE ReadAgain(s)
      BY <1>0, <3>2 DEF ReadAgain, Begin, Request
    <3>. QED  BY <1>4, <3>1, <3>2
  <2>. QED  BY <2>1 DEF Agrees, WorksOnAttempt, WorksOnRefund
<1>. QED  BY <1>1, <1>2, <1>3, <1>4

\* A refund in progress knows the row it asked to refund, and commits what it read again.
LEMMA RefundingAgrees ==
  ASSUME Typed, NEW s \in Slots, Agrees(req[s]),
         \/ ReadRefund(s) \/ ReadOrderAgain(s) \/ ReadRefundAgain(s) \/ ReplayRefund(s)
         \/ RefundUnavailable(s) \/ \E st \in StripeRefundStatus : CreateRefund(s, st)
  PROVE  Agrees(req'[s])
<1>0. req \in [Slots -> Request] /\ req[s] \in Request /\ pay \in PaymentRow
  BY DEF Typed, TypeOK
<1>1. CASE ReadRefund(s)
  <2>1. /\ req'[s].op \in {"refundCash", "refundCard"} /\ req'[s].pay = pay
        /\ req'[s].at = IF req'[s].op = "refundCash" THEN "fresh" ELSE "request"
        /\ req'[s].op = "refundCash" => pay.method = "CASH"
        /\ req'[s].op = "refundCard" => attempt[req'[s].att] = "SUCCEEDED"
        /\ CanRefund(order, pay)
    BY <1>0, <1>1 DEF ReadRefund, Begin, Idle, LatestAmong
  <2>2. order \in {"CONFIRMED", "FULFILLED"} /\ pay.status = "PAID"
        /\ pay.refund \in {"NONE", "FAILED"}
    BY <1>0, <2>1 DEF CanRefund, ACTIVE_REFUND_STATUSES, PaymentRow, RefundStatus
  <2>. QED  BY <2>1, <2>2 DEF Agrees, WorksOnAttempt
<1>2. CASE ReadRefundAgain(s)
  <2>1. /\ req[s].op \in {"refundCash", "refundCard"} /\ req[s].at = "payment"
        /\ req'[s].op = req[s].op /\ req'[s].pay = pay /\ req'[s].order = req[s].order
        /\ req'[s].att = req[s].att /\ req'[s].at = "commit"
    BY <1>0, <1>2 DEF ReadRefundAgain, Begin, Request
  <2>. QED  BY <2>1 DEF Agrees, WorksOnAttempt, WorksOnRefund
<1>3. ASSUME NEW at \in {"fresh", "failed"}, NEW st,
             \/ req' = [req EXCEPT ![s] = [req[s] EXCEPT !.at = at, !.seen = st]]
             \/ req' = [req EXCEPT ![s] = [req[s] EXCEPT !.at = at]],
             At(s, "refundCard", "stripe")
      PROVE  Agrees(req'[s])
  <2>1. /\ req[s].op = "refundCard" /\ req[s].at = "stripe" /\ req'[s].op = "refundCard"
        /\ req'[s].pay = req[s].pay /\ req'[s].att = req[s].att /\ req'[s].at = at
    BY <1>0, <1>3 DEF At, Request
  <2>. QED  BY <1>3, <2>1 DEF Agrees, WorksOnAttempt, WorksOnRefund
<1>4. CASE ReplayRefund(s) \/ RefundUnavailable(s)
  BY <1>3, <1>4 DEF ReplayRefund, RefundUnavailable, Begin
<1>5. ASSUME NEW st \in StripeRefundStatus, CreateRefund(s, st)
      PROVE  Agrees(req'[s])
  BY <1>3, <1>5 DEF CreateRefund, Begin
<1>6. CASE ReadOrderAgain(s)
  <2>1. /\ req[s].op \in {"refundCash", "refundCard"} /\ req[s].at = "fresh"
        /\ req'[s].op = req[s].op /\ req'[s].pay = req[s].pay /\ req'[s].order = order
        /\ req'[s].att = req[s].att /\ req'[s].at = "payment"
    BY <1>0, <1>6 DEF ReadOrderAgain, Begin, Request
  <2>. QED  BY <2>1 DEF Agrees, WorksOnAttempt, WorksOnRefund
<1>. QED  BY <1>1, <1>2, <1>4, <1>5, <1>6

LEMMA WebhookAgrees ==
  ASSUME Typed, NEW s \in Slots, ReadIntentEvent(s) \/ ReadRefundEvent(s)
  PROVE  Agrees(req'[s])
<1>0. req \in [Slots -> Request]  BY DEF Typed, TypeOK
<1>1. CASE ReadIntentEvent(s)
  <2>1. req'[s].op = "intentEvent" /\ attempt[req'[s].att] # "NONE"
    BY <1>0, <1>1 DEF ReadIntentEvent, Begin, Idle
  <2>. QED  BY <2>1 DEF Agrees, WorksOnRefund
<1>2. CASE ReadRefundEvent(s)
  <2>1. /\ req'[s].op = "refundEvent" /\ req'[s].at = "commit" /\ req'[s].pay = pay
        /\ req'[s].order = order /\ req'[s].event \in 1..Len(refundEmitted[pay.id])
        /\ req'[s].seen = refundEmitted[pay.id][req'[s].event]
        /\ <<"refundEvent", pay.id, req'[s].event>> \notin received
    <3>1. PICK n \in 1..Len(refundEmitted[pay.id]) :
            /\ Deliverable("refundEvent", pay.id, n)
            /\ Begin(s, [Idle EXCEPT !.op = "refundEvent", !.at = "commit", !.order = order,
                                     !.pay = pay, !.seen = refundEmitted[pay.id][n],
                                     !.event = n])
      BY <1>2 DEF ReadRefundEvent
    <3>. QED  BY <1>0, <3>1 DEF Begin, Idle, Deliverable
  <2>. QED  BY <2>1 DEF Agrees, WorksOnAttempt, WorksOnRefund
<1>. QED  BY <1>1, <1>2

\* The request goes on with the refund it has just recorded as requested.
LEMMA RequestedAgrees ==
  ASSUME Typed, NEW s \in Slots, Agrees(req[s]), CommitRefundRequested(s)
  PROVE  Agrees(req[s])'
<1>0. req \in [Slots -> Request] /\ req[s] \in Request /\ pay \in PaymentRow
  BY DEF Typed, TypeOK
<1>1. /\ req[s].op = "refundCard" /\ req'[s].op = "refundCard" /\ req'[s].at = "stripe"
      /\ req'[s].pay = req[s].pay /\ req'[s].att = req[s].att
  BY <1>0 DEF CommitRefundRequested, At, Begin, Request
<1>2. pay'.id = pay.id /\ pay'.status = pay.status /\ pay'.refund = "REQUESTED"
      /\ UNCHANGED <<order, attempt>>
  BY <1>0 DEF CommitRefundRequested, PaymentRow
<1>. QED  BY <1>1, <1>2 DEF Agrees, WorksOnAttempt, WorksOnRefund

LEMMA StepRequestsAgree ==
  ASSUME OneAtATime, Typed, RowsAgree, RequestsAgree, [Next]_vars
  PROVE  RequestsAgree'
<1>0. req \in [Slots -> Request] /\ \A t \in Slots : req[t] \in Request /\ Agrees(req[t])
  BY DEF Typed, TypeOK, RequestsAgree
<1>1. ASSUME NEW s \in Slots, Agrees(req[s])'  PROVE RequestsAgree'
  BY <1>1 DEF OneAtATime, RequestsAgree
<1>2. ASSUME NEW s \in Slots, Finish(s) \/ (Free(s) /\ UNCHANGED req)  PROVE RequestsAgree'
  <2>1. req'[s].op = "idle"  BY <1>0, <1>2 DEF Finish, Free, Idle
  <2>2. Agrees(req[s])'  BY <2>1 DEF Agrees, WorksOnAttempt, WorksOnRefund
  <2>. QED  BY <1>1, <2>2
<1>3. ASSUME NEW s \in Slots, Agrees(req'[s]), UNCHANGED <<database, received>>
      PROVE  RequestsAgree'
  BY <1>1, <1>3, StillAgrees
<1>4. ASSUME UNCHANGED <<req, database, received>>  PROVE RequestsAgree'
  BY <1>0, <1>3, <1>4 DEF RequestsAgree
<1>5. ASSUME NEW s \in Slots, Transition(s)  PROVE RequestsAgree'
  <2>1. CASE CancelIntent(s)
    <3>1. PICK st : req' = [req EXCEPT ![s] = [req[s] EXCEPT !.at = "commit", !.seen = st]]
      BY <2>1 DEF CancelIntent, Begin
    <3>2. /\ req[s].op \in {"CANCELLED", "PENDING"} /\ req'[s].op = req[s].op
          /\ req'[s].pay = req[s].pay /\ req'[s].att = req[s].att
      BY <1>0, <2>1, <3>1 DEF CancelIntent, Request
    <3>3. req[s].at = "stripe" /\ req'[s].at = "commit"
      BY <1>0, <2>1, <3>1 DEF CancelIntent, Request
    <3>4. Agrees(req'[s])  BY <1>0, <3>2, <3>3 DEF Agrees, Looked, WorksOnRefund
    <3>. QED  BY <1>3, <2>1, <3>4 DEF CancelIntent
  <2>2. ASSUME NEW to \in OrderStatus, ReadTransition(s, to)  PROVE RequestsAgree'
    BY <1>3, <2>2, TransitionAgrees DEF ReadTransition
  <2>3. CASE ReadPayment(s)  BY <1>0, <1>3, <2>3, PaymentAgrees DEF ReadPayment
  <2>4. CASE ReadAttempt(s)  BY <1>0, <1>3, <2>4, AttemptAgrees DEF ReadAttempt
  <2>. QED  BY <1>2, <1>5, <2>1, <2>2, <2>3, <2>4
            DEF Transition, CommitConfirm, CommitFulfil, CommitCancel, CommitReopen, DeleteOrder
<1>6. ASSUME NEW s \in Slots, Collection(s)  PROVE RequestsAgree'
  <2>1. CASE \/ ReadLegacy(s) \/ ReadCard(s) \/ ReadPoll(s) \/ RetrieveIntent(s)
             \/ ReadAgain(s) \/ ReadCash(s)
    <3>1. UNCHANGED <<database, received>>
      BY <2>1 DEF ReadLegacy, ReadCard, ReadPoll, RetrieveIntent, ReadAgain, ReadCash
    <3>. QED  BY <1>0, <1>3, <2>1, <3>1, CollectionAgrees
  <2>. QED  BY <1>2, <1>6, <2>1 DEF Collection, CommitLegacy, CommitCard, CommitPoll, CommitCash
<1>7. ASSUME NEW s \in Slots, Refunding(s)  PROVE RequestsAgree'
  <2>1. CASE \/ ReadRefund(s) \/ ReadOrderAgain(s) \/ ReadRefundAgain(s) \/ ReplayRefund(s)
             \/ RefundUnavailable(s) \/ \E st \in StripeRefundStatus : CreateRefund(s, st)
    <3>1. UNCHANGED <<database, received>>
      BY <2>1 DEF ReadRefund, ReadOrderAgain, ReadRefundAgain, ReplayRefund, RefundUnavailable,
                  CreateRefund
    <3>. QED  BY <1>0, <1>3, <2>1, <3>1, RefundingAgrees
  <2>2. CASE CommitRefundRequested(s)  BY <1>0, <1>1, <2>2, RequestedAgrees
  <2>. QED  BY <1>2, <1>7, <2>1, <2>2
            DEF Refunding, CommitRefundCash, CommitRefundFailed, CommitRefundCard
<1>8. ASSUME NEW s \in Slots, Webhook(s)  PROVE RequestsAgree'
  <2>1. CASE ReadIntentEvent(s) \/ ReadRefundEvent(s)
    BY <1>3, <2>1, WebhookAgrees DEF ReadIntentEvent, ReadRefundEvent
  <2>. QED  BY <1>2, <1>8, <2>1
            DEF Webhook, IgnoreIntentEvent, CommitIntentEvent, IgnoreRefundEvent,
                CommitRefundEvent
<1>9. ASSUME Outside \/ UNCHANGED vars  PROVE RequestsAgree'
  BY <1>4, <1>9 DEF Outside, IntentMoves, RefundMoves, vars
<1>. QED  BY <1>2, <1>5, <1>6, <1>7, <1>8, <1>9 DEF Next, Abort

--------------------------------------------------------------------------------
(* The theorems: all of them for requests that do not overlap. *)

Serial ==
  /\ Sound /\ AttemptTellsTruth
  /\ Closed /\ RowsAgree /\ RefundsAgree /\ CashAgrees /\ RequestsAgree

LEMMA InitSerial == Init => Serial
<1>. SUFFICES ASSUME Init PROVE Serial  OBVIOUS
<1>1. Closed
  BY OperationsAssumption
  DEF Init, Closed, PendingHasNoPayment, RefundedIsClosed, Lifecycle!PendingHasNoPayment,
      Lifecycle!RefundedIsClosed, NoPayment, OrderStatus
<1>2. RowsAgree /\ RefundsAgree
  BY DEF Init, RowsAgree, RefundsAgree, NoPayment, NoRefund
<1>3. CashAgrees
  BY DEF Init, CashAgrees, FailureReported
<1>4. AttemptTellsTruth  BY DEF Init, AttemptTellsTruth
<1>5. RequestsAgree  BY IdleAgrees DEF Init, Idle, RequestsAgree
<1>. QED  BY <1>1, <1>2, <1>3, <1>4, <1>5, InitSound DEF Serial

LEMMA StepSerial ==
  ASSUME OneAtATime, Serial, [Next]_vars
  PROVE  Serial'
<1>1. Typed  BY DEF Serial, Sound
<1>. QED  BY <1>1, StepSound, StepTruth, StepCloses, StepAdvances, StepRefundsAgree,
             StepCashAgrees, StepRequestsAgree DEF Serial

LEMMA AlwaysSerial ==
  ASSUME OneAtATime
  PROVE  Spec => []Serial
BY InitSerial, StepSerial, PTL DEF Spec

\* Requests that do not overlap never leave a payment with a pending order, nor a refund
\* without one: the confirmation that inserts the row and the reopening that deletes it
\* find what they checked (createPaymentForConfirmedOrderTx, deletePaymentForReopenTx).
THEOREM PendingStaysUnpaid ==
  ASSUME OneAtATime
  PROVE  Spec => []PendingHasNoPayment
<1>1. Serial => PendingHasNoPayment  BY DEF Serial, Closed
<1>. QED  BY <1>1, AlwaysSerial, PTL

\* A completed refund closes the order, and no later request opens it again: the order
\* that a commit cancels is the order whose payment it refunds (applyRefundStateTx).
THEOREM RefundClosesOrder ==
  ASSUME OneAtATime
  PROVE  Spec => []RefundedIsClosed
<1>1. Serial => RefundedIsClosed  BY DEF Serial, Closed
<1>. QED  BY <1>1, AlwaysSerial, PTL

\* However often refunds are retried, whatever fails or arrives late, no payment gives
\* back more than it took (refundPayment, applyRefundStateTx, the idempotency key).
THEOREM RefundsAreCovered ==
  ASSUME OneAtATime
  PROVE  Spec => []NeverOverRefunded
<1>1. ASSUME Serial, NEW id \in PaymentIds
      PROVE  cashBack[id] + (IF refund[id].now \in {"pending", "succeeded"} THEN 1 ELSE 0)
               <= (IF id \in cash THEN 1 ELSE 0) + Cardinality(Charges(id))
  <2>1. /\ cashBack[id] \in Nat /\ (cashBack[id] > 0 => id \in cash)
        /\ cashBack[id] <= IF FailureReported(id) THEN 2 ELSE 1
        /\ refund[id].now # "none" => Charges(id) # {}
    BY <1>1 DEF Serial, Sound, Typed, TypeOK, CashAgrees, RefundsAgree
  <2>2. FailureReported(id) => refund[id].now = "failed"
    BY <1>1 DEF Serial, RefundsAgree, FailureReported
  <2>3. Cardinality(Charges(id)) \in Nat /\ (Charges(id) # {} => Cardinality(Charges(id)) >= 1)
    <3>1. IsFiniteSet(AttemptIds)  BY BoundsAssumption, FS_Interval DEF AttemptIds
    <3>2. Charges(id) \subseteq AttemptIds  BY DEF Charges
    <3>3. IsFiniteSet(Charges(id))  BY <3>1, <3>2, FS_Subset
    <3>. QED  BY <3>3, FS_CardinalityType, FS_EmptySet
  <2>. QED  BY <2>1, <2>2, <2>3
<1>2. Serial => NeverOverRefunded  BY <1>1 DEF NeverOverRefunded
<1>. QED  BY <1>2, AlwaysSerial, PTL

\* Every commit of every handler, on rows read before Stripe was called, is one step of
\* the lifecycle the API shows, and everything else leaves it alone.
THEOREM LifecycleImplemented ==
  ASSUME OneAtATime
  PROVE  Spec => ImplementsLifecycle
<1>1. Init => Lifecycle!Init
  BY OperationsAssumption DEF Init, Lifecycle!Init, NoPayment, OrderStatus,
                                  Lifecycle!OrderStatus
<1>2. Serial /\ [Next]_vars => [Lifecycle!Next]_(Lifecycle!vars)
  BY StepAdvances DEF Serial, Sound, Advances
<1>. QED  BY <1>1, <1>2, AlwaysSerial, PTL DEF Spec, ImplementsLifecycle, Lifecycle!Spec

\* While a refund is requested or pending only its completion moves the order, by
\* cancelling it if it was confirmed (transitionStatus, applyRefundStateTx).
THEOREM RefundHoldsOrder ==
  ASSUME OneAtATime
  PROVE  Spec => RefundFreezesOrder
<1>1. ASSUME Serial, [Next]_vars, pay.refund \in ACTIVE_REFUND_STATUSES,
             order' \notin {order, "DELETED"}
      PROVE  order = "CONFIRMED" /\ order' = "CANCELLED" /\ pay'.id = pay.id
             /\ pay'.refund = "REFUNDED"
  <2>1. Typed /\ Closed /\ RowsAgree /\ RefundsAgree /\ RequestsAgree
    BY <1>1 DEF Serial, Sound
  <2>2. Lifecycle!Next  BY <1>1, <2>1, StepAdvances DEF Advances, Lifecycle!vars
  <2>3. \E outcome \in {"PENDING", "FAILED", "REFUNDED"} : Lifecycle!RefundEnds(outcome)
    <3>1. pay.refund \notin {"NONE", "FAILED"} /\ (order = "PENDING" => pay.refund = "NONE")
      BY <1>1, <2>1 DEF ACTIVE_REFUND_STATUSES, Closed, PendingHasNoPayment,
                        Lifecycle!PendingHasNoPayment
    <3>. QED  BY <1>1, <2>2, <3>1
              DEF Lifecycle!Next, Lifecycle!Confirm, Lifecycle!Fulfil, Lifecycle!CancelPending,
                  Lifecycle!CancelConfirmed, Lifecycle!Reopen, Lifecycle!Collect,
                  Lifecycle!StripeReportsPayment, Lifecycle!RequestRefund,
                  Lifecycle!RefundCash, Lifecycle!StripeReportsRefund, Lifecycle!Refundable,
                  Lifecycle!NoRefundRuns, Lifecycle!Backfill, Lifecycle!Delete
  <2>4. order = "CONFIRMED" /\ order' = "CANCELLED" /\ pay'.refund = "REFUNDED"
    BY <1>1, <2>3 DEF Lifecycle!RefundEnds
  <2>5. pay'.id = pay.id
    <3>1. KeepsRefund \/ \E s \in Slots : RefundCommit(s)  BY <1>1, <2>1, StepAdvances
    <3>2. NoPayment.refund = "NONE"  BY DEF NoPayment
    <3>. QED  BY <2>1, <2>4, <3>1, <3>2, RefundCommitRow DEF KeepsRefund
  <2>. QED  BY <2>4, <2>5
<1>2. Serial /\ [Next]_vars
        => [pay.refund \in ACTIVE_REFUND_STATUSES /\ order' \notin {order, "DELETED"}
              => /\ order = "CONFIRMED" /\ order' = "CANCELLED"
                 /\ pay'.id = pay.id /\ pay'.refund = "REFUNDED"]_vars
  BY <1>1
<1>. QED  BY <1>2, AlwaysSerial, PTL DEF Spec, RefundFreezesOrder
================================================================================
