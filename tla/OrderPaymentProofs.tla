--------------------------- MODULE OrderPaymentProofs ---------------------------
(***************************************************************************)
(* Type correctness and safety of OrderPayment, for any number of          *)
(* requests, payments, attempts and events, under any interleaving, any    *)
(* order of events and any crash.                                          *)
(*                                                                         *)
(* TypeOK alone is not inductive: a commit uses the ids its request read   *)
(* earlier, so the first invariant also says what an open request may      *)
(* count on (Fits) and that rows go together (RowsOK).                     *)
(*                                                                         *)
(* Safety: a final status Stripe ever reported is still true whenever it   *)
(* is applied (ReportsHold, RefundReportsHold), and the PAID that a        *)
(* request carries along was preceded by money (MoneyFirst).               *)
(***************************************************************************)
EXTENDS OrderPayment, TLAPS

\* Rows hang together: attempts and the payment go when the row they belong to goes.
RowsOK ==
  /\ order = "DELETED" => pay = NoPayment
  /\ \A a \in AttemptIds : attempt[a] # "NONE" => pay # NoPayment

WorksOnAttempt == {"CANCELLED", "PENDING", "poll", "intentEvent"}
WorksOnRefund  == {"refundCash", "refundCard", "refundEvent"}

\* What an open request may count on about the ids it holds.
Fits(r) ==
  /\ r.op \in WorksOnRefund => r.pay.id \in PaymentIds
  /\ r.op \in {"poll", "intentEvent", "refundCard"} \/ r.at = "stripe" => r.att \in AttemptIds
  /\ r.op \in WorksOnAttempt /\ r.att # 0 => r.pay.id \in PaymentIds
  /\ r.op \in WorksOnAttempt /\ r.att = 0 => r.seen = "none"
  /\ r.op \in {"CANCELLED", "PENDING"} /\ r.at \in {"payment", "attempt"} => r.att = 0
  /\ r.pay.id = 0 => r.pay.refund = "NONE"

Typed == TypeOK /\ RowsOK /\ \A s \in Slots : Fits(req[s])

--------------------------------------------------------------------------------
LEMMA StatusTypes ==
  /\ \A st : PaymentStatusOf(st) \in PaymentState
  /\ \A st : AttemptStatusOf(st) \in AttemptStatus
  /\ \A st : RefundStatusOf(st) \in RefundStatus
BY DEF PaymentStatusOf, AttemptStatusOf, RefundStatusOf, PaymentState, AttemptStatus, RefundStatus

LEMMA BeginKeeps ==
  ASSUME req \in [Slots -> Request], \A s \in Slots : Fits(req[s]),
         NEW s \in Slots, NEW r \in Request, Fits(r), Begin(s, r)
  PROVE  req' \in [Slots -> Request] /\ \A t \in Slots : Fits(req[t])'
<1>1. req' \in [Slots -> Request]  BY DEF Begin
<1>2. \A t \in Slots : req'[t] = IF t = s THEN r ELSE req[t]  BY DEF Begin
<1>3. \A t \in Slots : Fits(req'[t])  BY <1>2
<1>4. \A t \in Slots : Fits(req[t])'  BY <1>3 DEF Fits
<1>. QED  BY <1>1, <1>4

LEMMA IdleFits == Idle \in Request /\ Fits(Idle) /\ NoPayment \in PaymentRow
<1>1. NoPayment \in PaymentRow
  BY BoundsAssumption DEF NoPayment, PaymentRow, PaymentState, PaymentMethod, RefundStatus
<1>2. Idle \in Request
  BY <1>1, BoundsAssumption DEF Idle, Request, OrderStatus, AttemptStatus, IntentStatus
<1>3. Fits(Idle)
  BY DEF Fits, Idle, NoPayment, WorksOnAttempt, WorksOnRefund
<1>. QED  BY <1>1, <1>2, <1>3

LEMMA FinishKeeps ==
  ASSUME req \in [Slots -> Request], \A s \in Slots : Fits(req[s]), NEW s \in Slots, Finish(s)
  PROVE  req' \in [Slots -> Request] /\ \A t \in Slots : Fits(req[t])'
BY BeginKeeps, IdleFits DEF Finish, Begin

LEMMA EffectiveTyped ==
  ASSUME pay \in PaymentRow, order \in OrderStatus \cup {"DELETED"}
  PROVE  /\ EffectivePayment \in PaymentRow
         /\ pay # NoPayment => EffectivePayment = pay
         /\ pay = NoPayment => /\ EffectivePayment.id = 0 /\ EffectivePayment.refund = "NONE"
                               /\ EffectivePayment.status \in {"ABSENT", "UNPAID", "PAID"}
                               /\ EffectivePayment.method = "NONE"
                               /\ EffectivePayment.status = "PAID" => order = "FULFILLED"
BY IdleFits DEF EffectivePayment, NoPayment, PaymentRow, PaymentState

LEMMA InitTyped == Init => Typed
<1>. SUFFICES ASSUME Init PROVE Typed  OBVIOUS
<1>1. TypeOK
  BY IdleFits, BoundsAssumption, OperationsAssumption
  DEF Init, TypeOK, NoRefund, StripeRefundStatus, IntentStatus, PaymentIds, AttemptIds, NoPayment
<1>2. RowsOK  BY DEF Init, RowsOK
<1>3. \A s \in Slots : Fits(req[s])  BY IdleFits DEF Init
<1>. QED  BY <1>1, <1>2, <1>3 DEF Typed
--------------------------------------------------------------------------------
(* Reading steps change the open request only. *)

LEMMA ReadsKeepTyped ==
  ASSUME Typed, UNCHANGED <<database, received, stripe, history>>,
         NEW s \in Slots, NEW r \in Request, Fits(r), Begin(s, r)
  PROVE  Typed'
<1>1. req' \in [Slots -> Request] /\ \A t \in Slots : Fits(req[t])'
  BY BeginKeeps DEF Typed, TypeOK
<1>2. RowsOK'  BY DEF Typed, RowsOK, database
<1>3. TypeOK'  BY <1>1 DEF Typed, TypeOK, database, stripe, history
<1>. QED  BY <1>1, <1>2, <1>3 DEF Typed

LEMMA RowHasId ==
  ASSUME Typed, pay # NoPayment
  PROVE  pay.id \in PaymentIds /\ order # "DELETED" /\ order \in OrderStatus
BY BoundsAssumption DEF Typed, TypeOK, RowsOK, PaymentRow, PaymentIds

LEMMA TransitionReadsTyped ==
  ASSUME Typed, NEW s \in Slots,
         (\E to \in OrderStatus : ReadTransition(s, to)) \/ ReadPayment(s) \/ ReadAttempt(s)
  PROVE  Typed'
<1>0. /\ req[s] \in Request /\ Fits(req[s]) /\ pay \in PaymentRow
      /\ pay.id = 0 => pay.refund = "NONE"
  BY DEF Typed, TypeOK, NoPayment
<1>1. ASSUME NEW to \in OrderStatus, ReadTransition(s, to)
      PROVE  Typed'
  <2>1. CASE Begin(s, [Idle EXCEPT !.op = to, !.at = "payment", !.pay = EffectivePayment])
    <3> DEFINE r == [Idle EXCEPT !.op = to, !.at = "payment", !.pay = EffectivePayment]
    <3>1. /\ EffectivePayment \in PaymentRow
          /\ EffectivePayment.id = 0 => EffectivePayment.refund = "NONE"
      BY <1>0, EffectiveTyped DEF Typed, TypeOK, NoPayment
    <3>2. r \in Request  BY <3>1, IdleFits DEF Request
    <3>3. Fits(r)  BY <3>1 DEF Fits, Idle, OrderStatus, WorksOnAttempt, WorksOnRefund
    <3>. QED  BY <1>1, <2>1, <3>2, <3>3, ReadsKeepTyped DEF ReadTransition
  <2>2. CASE Begin(s, [Idle EXCEPT !.op = to, !.at = "commit"])
    <3> DEFINE r == [Idle EXCEPT !.op = to, !.at = "commit"]
    <3>1. r \in Request  BY IdleFits DEF Request
    <3>2. Fits(r)
      BY DEF Fits, Idle, NoPayment, OrderStatus, WorksOnAttempt, WorksOnRefund
    <3>. QED  BY <1>1, <2>2, <3>1, <3>2, ReadsKeepTyped DEF ReadTransition
  <2>. QED  BY <1>1, <2>1, <2>2 DEF ReadTransition
<1>2. CASE ReadPayment(s)
  <2> DEFINE p == Reread(req[s])
  <2>1. /\ p \in PaymentRow /\ (p.id = 0 => p.refund = "NONE")
        /\ req[s].pay.id \in PaymentIds => p.id \in PaymentIds
    BY <1>0, <1>2 DEF ReadPayment, Reread, Request, Fits, PaymentIds
  <2>2. ASSUME NEW at \in {"commit", "attempt"}, Begin(s, [req[s] EXCEPT !.pay = p, !.at = at])
        PROVE  Typed'
    <3> DEFINE r == [req[s] EXCEPT !.pay = p, !.at = at]
    <3>1. r \in Request  BY <1>0, <2>1 DEF Request
    <3>2. Fits(r)
      BY <1>0, <1>2, <2>1 DEF ReadPayment, Fits, Request, OrderStatus, WorksOnAttempt, WorksOnRefund
    <3>. QED  BY <1>2, <2>2, <3>1, <3>2, ReadsKeepTyped DEF ReadPayment
  <2>. QED  BY <1>2, <2>2 DEF ReadPayment
<1>3. CASE ReadAttempt(s)
  <2>1. CASE Begin(s, [req[s] EXCEPT !.at = "commit", !.pay = pay])
    <3> DEFINE r == [req[s] EXCEPT !.at = "commit", !.pay = pay]
    <3>1. r \in Request  BY <1>0 DEF Request
    <3>2. Fits(r)
      BY <1>0, <1>3 DEF ReadAttempt, Fits, Request, WorksOnAttempt, WorksOnRefund
    <3>. QED  BY <1>3, <2>1, <3>1, <3>2, ReadsKeepTyped DEF ReadAttempt
  <2>2. ASSUME NEW a \in AttemptIds, Reusable(pay, a),
               Begin(s, [req[s] EXCEPT !.at = "stripe", !.pay = pay, !.att = a, !.was = attempt[a]])
        PROVE  Typed'
    <3> DEFINE r == [req[s] EXCEPT !.at = "stripe", !.pay = pay, !.att = a, !.was = attempt[a]]
    <3>1. pay.id \in PaymentIds
      <4>1. pay # NoPayment  BY <2>2 DEF Reusable, NoPayment
      <4>. QED  BY <4>1, RowHasId
    <3>2. attempt[a] \in AttemptStatus \cup {"NONE"} /\ a \in 0..MaxAttempts
      BY BoundsAssumption DEF Typed, TypeOK, AttemptIds
    <3>3. r \in Request  BY <1>0, <3>2 DEF Request
    <3>4. Fits(r)
      BY <1>0, <1>3, <3>1 DEF ReadAttempt, Fits, Request, WorksOnAttempt, WorksOnRefund,
                              PaymentIds, AttemptIds
    <3>. QED  BY <1>3, <2>2, <3>3, <3>4, ReadsKeepTyped DEF ReadAttempt
  <2>. QED  BY <1>3, <2>1, <2>2 DEF ReadAttempt
<1>. QED  BY <1>1, <1>2, <1>3

\* What that last reading changes in the request.
LEMMA AttemptRead ==
  ASSUME Typed, NEW s \in Slots, ReadAttempt(s)
  PROVE  /\ \A t \in Slots : t # s => req'[t] = req[t]
         /\ req'[s].op = req[s].op /\ req'[s].seen = req[s].seen /\ req'[s].pay = pay
         /\ req[s].op \in {"CANCELLED", "PENDING"} /\ req[s].seen = "none"
<1>1. req \in [Slots -> Request] /\ req[s] \in Request /\ Fits(req[s])
  BY DEF Typed, TypeOK
<1>2. req[s].op \in {"CANCELLED", "PENDING"} /\ req[s].seen = "none"
  BY <1>1 DEF ReadAttempt, Fits, WorksOnAttempt
<1>3. \E q : /\ req' = [req EXCEPT ![s] = q]
             /\ q.op = req[s].op /\ q.seen = req[s].seen /\ q.pay = pay
  <2>1. CASE Begin(s, [req[s] EXCEPT !.at = "commit", !.pay = pay])
    <3> DEFINE q == [req[s] EXCEPT !.at = "commit", !.pay = pay]
    <3>1. q.op = req[s].op /\ q.seen = req[s].seen /\ q.pay = pay  BY <1>1 DEF Request
    <3>2. req' = [req EXCEPT ![s] = q]  BY <2>1 DEF Begin
    <3> HIDE DEF q
    <3>. QED  BY <3>1, <3>2
  <2>2. ASSUME NEW a,
               Begin(s, [req[s] EXCEPT !.at = "stripe", !.pay = pay, !.att = a, !.was = attempt[a]])
        PROVE  \E q : /\ req' = [req EXCEPT ![s] = q]
                      /\ q.op = req[s].op /\ q.seen = req[s].seen /\ q.pay = pay
    <3> DEFINE q == [req[s] EXCEPT !.at = "stripe", !.pay = pay, !.att = a, !.was = attempt[a]]
    <3>1. q.op = req[s].op /\ q.seen = req[s].seen /\ q.pay = pay  BY <1>1 DEF Request
    <3>2. req' = [req EXCEPT ![s] = q]  BY <2>2 DEF Begin
    <3> HIDE DEF q
    <3>. QED  BY <3>1, <3>2
  <2>. QED  BY <2>1, <2>2 DEF ReadAttempt
<1>. QED  BY <1>1, <1>2, <1>3

LEMMA CollectionReadsTyped ==
  ASSUME Typed, NEW s \in Slots,
         ReadLegacy(s) \/ ReadCard(s) \/ ReadCash(s) \/ ReadPoll(s) \/ RetrieveIntent(s)
           \/ ReadAgain(s)
  PROVE  Typed'
<1>0. /\ EffectivePayment \in PaymentRow
      /\ EffectivePayment.id = 0 => EffectivePayment.refund = "NONE"
  BY EffectiveTyped DEF Typed, TypeOK, NoPayment
<1>1. ASSUME NEW op \in {"view", "card", "cash"},
             Begin(s, [Idle EXCEPT !.op = op, !.at = "commit", !.pay = EffectivePayment]),
             UNCHANGED <<database, received, stripe, history>>
      PROVE  Typed'
  <2> DEFINE r == [Idle EXCEPT !.op = op, !.at = "commit", !.pay = EffectivePayment]
  <2>1. r \in Request  BY <1>0, IdleFits DEF Request
  <2>2. Fits(r)  BY <1>0 DEF Fits, Idle, WorksOnRefund, WorksOnAttempt
  <2>. QED  BY <1>1, <2>1, <2>2, ReadsKeepTyped
<1>2. CASE ReadPoll(s)
  <2>1. PICK a \in AttemptIds :
          /\ LatestAmong(a, AttemptStatus)
          /\ Begin(s, [Idle EXCEPT !.op = "poll", !.at = "stripe", !.pay = pay, !.att = a])
    BY <1>2 DEF ReadPoll
  <2> DEFINE r == [Idle EXCEPT !.op = "poll", !.at = "stripe", !.pay = pay, !.att = a]
  <2>2. pay # NoPayment  BY <2>1 DEF LatestAmong, AttemptStatus, Typed, RowsOK
  <2>3. pay \in PaymentRow /\ pay.id \in PaymentIds /\ a \in 0..MaxAttempts
    BY <2>2, RowHasId, BoundsAssumption DEF Typed, TypeOK, AttemptIds
  <2>4. r \in Request  BY <2>3, IdleFits DEF Request
  <2>5. Fits(r)  BY <2>1, <2>3 DEF Fits, Idle, WorksOnRefund, PaymentIds
  <2>. QED  BY <1>2, <2>1, <2>4, <2>5, ReadsKeepTyped DEF ReadPoll
<1>3. CASE RetrieveIntent(s)
  <2> DEFINE r == [req[s] EXCEPT !.at = "fresh", !.seen = intent[req[s].att]]
  <2>1. req[s] \in Request /\ Fits(req[s]) /\ req[s].op = "poll" /\ req[s].at = "stripe"
    BY <1>3 DEF Typed, TypeOK, RetrieveIntent, At
  <2>2. intent[req[s].att] \in IntentStatus \cup {"none"}
    BY <2>1 DEF Fits, Typed, TypeOK
  <2>3. r \in Request  BY <2>1, <2>2 DEF Request
  <2>4. Fits(r)  BY <2>1 DEF Fits, Request, WorksOnRefund, WorksOnAttempt, AttemptIds
  <2>. QED  BY <1>3, <2>3, <2>4, ReadsKeepTyped DEF RetrieveIntent
<1>4. CASE ReadAgain(s)
  <2> DEFINE r == [req[s] EXCEPT !.at = "commit", !.pay = pay, !.was = attempt[req[s].att]]
  <2>1. /\ req[s] \in Request /\ Fits(req[s]) /\ req[s].op \in {"poll", "intentEvent"}
        /\ req[s].pay.id = pay.id
    BY <1>4 DEF Typed, TypeOK, ReadAgain
  <2>2. req[s].att \in AttemptIds /\ req[s].pay.id \in PaymentIds
    BY <2>1 DEF Fits, WorksOnAttempt, AttemptIds
  <2>3. attempt[req[s].att] \in AttemptStatus \cup {"NONE"} /\ pay \in PaymentRow
    BY <2>2 DEF Typed, TypeOK
  <2>4. r \in Request  BY <2>1, <2>3 DEF Request
  <2>5. Fits(r)  BY <2>1, <2>2 DEF Fits, Request, WorksOnRefund, PaymentIds
  <2>. QED  BY <1>4, <2>4, <2>5, ReadsKeepTyped DEF ReadAgain
<1>. QED  BY <1>1, <1>2, <1>3, <1>4 DEF ReadLegacy, ReadCard, ReadCash

LEMMA RefundReadsTyped ==
  ASSUME Typed, NEW s \in Slots,
         ReadRefund(s) \/ ReadOrderAgain(s) \/ ReadRefundAgain(s) \/ ReplayRefund(s)
           \/ RefundUnavailable(s)
  PROVE  Typed'
<1>1. CASE ReadRefund(s)
  <2>1. pay \in PaymentRow /\ pay.id \in PaymentIds
    BY <1>1, RowHasId DEF ReadRefund, Typed, TypeOK
  <2>2. CASE Begin(s, [Idle EXCEPT !.op = "refundCash", !.at = "fresh", !.pay = pay])
    <3> DEFINE r == [Idle EXCEPT !.op = "refundCash", !.at = "fresh", !.pay = pay]
    <3>1. r \in Request  BY <2>1, IdleFits DEF Request
    <3>2. Fits(r)  BY <2>1 DEF Fits, Idle, WorksOnAttempt, PaymentIds
    <3>. QED  BY <1>1, <2>2, <3>1, <3>2, ReadsKeepTyped DEF ReadRefund
  <2>3. ASSUME NEW a \in AttemptIds,
               Begin(s, [Idle EXCEPT !.op = "refundCard", !.at = "request",
                                     !.pay = pay, !.att = a])
        PROVE  Typed'
    <3> DEFINE r == [Idle EXCEPT !.op = "refundCard", !.at = "request",
                                 !.pay = pay, !.att = a]
    <3>1. a \in 0..MaxAttempts  BY BoundsAssumption DEF AttemptIds
    <3>2. r \in Request  BY <2>1, <3>1, IdleFits DEF Request
    <3>3. Fits(r)  BY <2>1 DEF Fits, Idle, WorksOnAttempt, PaymentIds
    <3>. QED  BY <1>1, <2>3, <3>2, <3>3, ReadsKeepTyped DEF ReadRefund
  <2>. QED  BY <1>1, <2>2, <2>3 DEF ReadRefund
<1>2. CASE ReadRefundAgain(s)
  <2> DEFINE r == [req[s] EXCEPT !.at = "commit", !.pay = pay]
  <2>1. /\ req[s] \in Request /\ Fits(req[s]) /\ req[s].op \in {"refundCash", "refundCard"}
        /\ req[s].pay.id = pay.id /\ pay \in PaymentRow
    BY <1>2 DEF Typed, TypeOK, ReadRefundAgain
  <2>2. r \in Request  BY <2>1 DEF Request
  <2>3. Fits(r)  BY <2>1 DEF Fits, Request, WorksOnRefund, WorksOnAttempt, PaymentIds
  <2>. QED  BY <1>2, <2>2, <2>3, ReadsKeepTyped DEF ReadRefundAgain
<1>3. ASSUME NEW r \in {[req[s] EXCEPT !.at = "fresh", !.seen = refund[req[s].pay.id].first],
                        [req[s] EXCEPT !.at = "failed"]},
             At(s, "refundCard", "stripe"), Begin(s, r),
             UNCHANGED <<database, received, stripe, history>>
      PROVE  Typed'
  <2>1. req[s] \in Request /\ Fits(req[s]) /\ req[s].op = "refundCard"
    BY <1>3 DEF Typed, TypeOK, At
  <2>2. refund[req[s].pay.id].first \in StripeRefundStatus \cup {"none"}
    BY <2>1 DEF Fits, WorksOnRefund, Typed, TypeOK
  <2>3. r \in Request  BY <2>1, <2>2 DEF Request
  <2>4. Fits(r)  BY <2>1 DEF Fits, Request, WorksOnRefund, WorksOnAttempt
  <2>. QED  BY <1>3, <2>3, <2>4, ReadsKeepTyped
<1>4. CASE ReadOrderAgain(s)
  <2> DEFINE r == [req[s] EXCEPT !.at = "payment", !.order = order]
  <2>1. /\ req[s] \in Request /\ Fits(req[s]) /\ req[s].op \in {"refundCash", "refundCard"}
        /\ order \in OrderStatus
    BY <1>4 DEF Typed, TypeOK, ReadOrderAgain
  <2>2. r \in Request  BY <2>1 DEF Request
  <2>3. Fits(r)  BY <2>1 DEF Fits, Request, WorksOnRefund, WorksOnAttempt
  <2>. QED  BY <1>4, <2>2, <2>3, ReadsKeepTyped DEF ReadOrderAgain
<1>. QED  BY <1>1, <1>2, <1>3, <1>4 DEF ReplayRefund, RefundUnavailable

LEMMA EventReadsTyped ==
  ASSUME Typed, NEW s \in Slots, ReadIntentEvent(s) \/ ReadRefundEvent(s)
  PROVE  Typed'
<1>1. CASE ReadIntentEvent(s)
  <2>0. PICK a \in AttemptIds : \E n \in 1..Len(emitted[a]) :
          /\ attempt[a] # "NONE"
          /\ Begin(s, [Idle EXCEPT !.op = "intentEvent", !.at = "fresh", !.pay = pay,
                                   !.att = a, !.seen = emitted[a][n], !.event = n])
    BY <1>1 DEF ReadIntentEvent
  <2>1. PICK n \in 1..Len(emitted[a]) :
          /\ attempt[a] # "NONE"
          /\ Begin(s, [Idle EXCEPT !.op = "intentEvent", !.at = "fresh", !.pay = pay,
                                   !.att = a, !.seen = emitted[a][n], !.event = n])
    BY <2>0
  <2> DEFINE r == [Idle EXCEPT !.op = "intentEvent", !.at = "fresh", !.pay = pay,
                               !.att = a, !.seen = emitted[a][n], !.event = n]
  <2>2. pay \in PaymentRow /\ pay.id \in PaymentIds
    BY <2>1, RowHasId DEF Typed, TypeOK, RowsOK
  <2>3. a \in 0..MaxAttempts /\ emitted[a][n] \in IntentStatus /\ n \in Nat
    BY BoundsAssumption DEF Typed, TypeOK, AttemptIds
  <2>4. r \in Request  BY <2>2, <2>3, IdleFits DEF Request
  <2>5. Fits(r)  BY <2>2 DEF Fits, Idle, WorksOnRefund, PaymentIds, AttemptIds
  <2>. QED  BY <1>1, <2>1, <2>4, <2>5, ReadsKeepTyped DEF ReadIntentEvent
<1>2. CASE ReadRefundEvent(s)
  <2>1. PICK n \in 1..Len(refundEmitted[pay.id]) :
          Begin(s, [Idle EXCEPT !.op = "refundEvent", !.at = "commit", !.order = order,
                                !.pay = pay, !.seen = refundEmitted[pay.id][n],
                                !.event = n])
    BY <1>2 DEF ReadRefundEvent
  <2> DEFINE r == [Idle EXCEPT !.op = "refundEvent", !.at = "commit", !.order = order,
                               !.pay = pay, !.seen = refundEmitted[pay.id][n],
                               !.event = n]
  <2>2. pay \in PaymentRow /\ pay.id \in PaymentIds /\ order \in OrderStatus
    BY <1>2, RowHasId DEF ReadRefundEvent, Typed, TypeOK
  <2>3. refundEmitted[pay.id][n] \in StripeRefundStatus /\ n \in Nat
    BY <2>2 DEF Typed, TypeOK
  <2>4. r \in Request  BY <2>2, <2>3, IdleFits DEF Request
  <2>5. Fits(r)  BY <2>2 DEF Fits, Idle, WorksOnAttempt, PaymentIds
  <2>. QED  BY <1>2, <2>1, <2>4, <2>5, ReadsKeepTyped DEF ReadRefundEvent
<1>. QED  BY <1>1, <1>2

--------------------------------------------------------------------------------
(* Committing steps. *)

LEMMA FinishTyped ==
  ASSUME Typed, NEW s \in Slots, Finish(s)
  PROVE  req' \in [Slots -> Request] /\ \A t \in Slots : Fits(req[t])'
BY FinishKeeps DEF Typed, TypeOK

LEMMA ApplyIntentRows ==
  ASSUME Typed, NEW p, NEW a, NEW was, NEW st, p.id \in PaymentIds, ApplyIntent(p, a, was, st)
  PROVE  /\ attempt' \in [AttemptIds -> AttemptStatus \cup {"NONE"}]
         /\ pay' \in PaymentRow /\ pay'.id = pay.id /\ pay'.refund = pay.refund
         /\ pay' = NoPayment <=> pay = NoPayment
         /\ attempt' # attempt => pay # NoPayment
<1>1. pay \in PaymentRow /\ (pay.id = 0 <=> pay = NoPayment)  BY DEF Typed, TypeOK
<1>2. attempt \in [AttemptIds -> AttemptStatus \cup {"NONE"}]  BY DEF Typed, TypeOK
<1>3. attempt' \in [AttemptIds -> AttemptStatus \cup {"NONE"}]
  <2>1. AttemptStatusOf(st) \in AttemptStatus  BY StatusTypes
  <2>2. attempt' = attempt \/ attempt' = [attempt EXCEPT ![a] = AttemptStatusOf(st)]
    BY DEF ApplyIntent
  <2>. QED  BY <1>2, <2>1, <2>2
<1>4. CASE pay' = pay /\ attempt' = attempt  BY <1>1, <1>3, <1>4
<1>5. CASE pay.id = p.id /\ pay' = [pay EXCEPT !.method = "CARD", !.status = PaymentStatusOf(st)]
  <2>1. pay' \in PaymentRow /\ pay'.id = pay.id /\ pay'.refund = pay.refund
    BY <1>1, <1>5, StatusTypes DEF PaymentRow, PaymentMethod
  <2>2. pay.id # 0  BY <1>5 DEF PaymentIds
  <2>3. pay # NoPayment /\ pay' # NoPayment  BY <2>1, <2>2, <1>1 DEF NoPayment
  <2>. QED  BY <1>3, <2>1, <2>3
<1>. QED  BY <1>4, <1>5 DEF ApplyIntent

LEMMA ApplyRefundRows ==
  ASSUME Typed, NEW o, NEW p, NEW st, p.id \in PaymentIds, ApplyRefund(o, p, st)
  PROVE  /\ pay' \in PaymentRow /\ pay'.id = pay.id /\ pay'.status = pay.status
         /\ pay' = NoPayment <=> pay = NoPayment
         /\ order' \in OrderStatus \cup {"DELETED"}
         /\ order' = "DELETED" => order = "DELETED"
         /\ order' # order => order' = "CANCELLED"
<1>1. pay \in PaymentRow /\ (pay.id = 0 <=> pay = NoPayment)  BY DEF Typed, TypeOK
<1>2. order' \in OrderStatus \cup {"DELETED"} /\ (order' # order => order' = "CANCELLED")
  BY DEF ApplyRefund, Typed, TypeOK, OrderStatus
<1>3. CASE pay' = pay  BY <1>1, <1>2, <1>3
<1>4. CASE pay.id = p.id /\ pay' = [pay EXCEPT !.refund = RefundStatusOf(st)]
  <2>1. pay' \in PaymentRow /\ pay'.id = pay.id /\ pay'.status = pay.status
    BY <1>1, <1>4, StatusTypes DEF PaymentRow
  <2>2. pay.id # 0  BY <1>4 DEF PaymentIds
  <2>3. pay # NoPayment /\ pay' # NoPayment  BY <2>1, <2>2, <1>1 DEF NoPayment
  <2>. QED  BY <1>2, <2>1, <2>3
<1>. QED  BY <1>3, <1>4 DEF ApplyRefund

LEMMA WriteRows ==
  ASSUME Typed, NEW p \in PaymentRow, NEW row, row.id = Stored(p).id, row \in PaymentRow,
         p.id = 0 => p.refund = "NONE", Write(p, row)
  PROVE  /\ pay' = row /\ row.id \in PaymentIds /\ row # NoPayment
         /\ payments' \in 0..MaxPayments /\ order # "DELETED"
<1>1. CASE p.id = 0
  <2>1. Stored(p).id = payments + 1
    BY <1>1 DEF Stored, PaymentRow
  <2>. QED
    BY <1>1, <2>1, BoundsAssumption DEF Write, Writable, Typed, TypeOK, PaymentIds, NoPayment
<1>2. CASE p.id # 0
  <2>1. pay.id = p.id /\ Stored(p) = pay /\ pay.id \in PaymentIds
    BY <1>2, BoundsAssumption DEF Write, Writable, Stored, PaymentRow, PaymentIds
  <2>2. pay # NoPayment  BY <2>1 DEF NoPayment, PaymentIds
  <2>. QED  BY <1>2, <2>1, <2>2, RowHasId DEF Write, Typed, TypeOK, NoPayment, PaymentIds
<1>. QED  BY <1>1, <1>2

LEMMA InsertRows ==
  ASSUME Typed, NEW p \in PaymentRow, p.id = 0 => p.refund = "NONE", InsertIfNew(p)
  PROVE  /\ pay' \in PaymentRow /\ (pay'.id = 0 <=> pay' = NoPayment)
         /\ payments' \in 0..MaxPayments
         /\ pay' # pay => order # "DELETED" /\ pay' # NoPayment
         /\ pay # NoPayment => pay' # NoPayment
<1>1. CASE Inserted(p)
  <2>1. Stored(p) \in PaymentRow
    <3>1. p.id = 0 /\ payments + 1 \in 0..MaxPayments
      BY <1>1, BoundsAssumption DEF Inserted, InsertIfNew, Write, Writable, Typed, TypeOK
    <3>. QED  BY <3>1 DEF Stored, PaymentRow
  <2>. QED  BY <1>1, <2>1, WriteRows DEF InsertIfNew, NoPayment, PaymentIds
<1>2. CASE ~Inserted(p)  BY <1>2 DEF InsertIfNew, Typed, TypeOK
<1>. QED  BY <1>1, <1>2

\* What is left to show of Typed once the request has finished or begun anew.
LEMMA TypedFromParts ==
  ASSUME Typed,
         req' \in [Slots -> Request] /\ \A t \in Slots : Fits(req[t])',
         order' \in OrderStatus \cup {"DELETED"}, placed' \in BOOLEAN,
         pay' \in PaymentRow, pay'.id = 0 <=> pay' = NoPayment,
         payments' \in 0..MaxPayments,
         attempt' \in [AttemptIds -> AttemptStatus \cup {"NONE"}],
         received' \subseteq EventIds,
         UNCHANGED stripe, UNCHANGED legacy,
         cash' \subseteq PaymentIds, cashBack' \in [PaymentIds -> Nat],
         order' = "DELETED" => pay' = NoPayment,
         \A a \in AttemptIds : attempt'[a] # "NONE" => pay' # NoPayment
  PROVE  Typed'
BY DEF Typed, TypeOK, RowsOK, stripe

LEMMA TransitionsTyped ==
  ASSUME Typed, NEW s \in Slots,
         CommitConfirm(s) \/ CommitFulfil(s) \/ CommitCancel(s) \/ CommitReopen(s)
           \/ DeleteOrder(s)
  PROVE  Typed'
<1>0. /\ pay \in PaymentRow /\ (pay.id = 0 <=> pay = NoPayment) /\ payments \in 0..MaxPayments
      /\ attempt \in [AttemptIds -> AttemptStatus \cup {"NONE"}]
      /\ order \in OrderStatus \cup {"DELETED"} /\ received \subseteq EventIds
      /\ placed \in BOOLEAN /\ cash \subseteq PaymentIds /\ cashBack \in [PaymentIds -> Nat]
      /\ req[s] \in Request /\ Fits(req[s]) /\ req \in [Slots -> Request]
      /\ \A t \in Slots : Fits(req[t])
      /\ \A a \in AttemptIds : attempt[a] # "NONE" => pay # NoPayment
      /\ NoPayment \in PaymentRow /\ NoPayment.id = 0
  BY IdleFits DEF Typed, TypeOK, RowsOK, NoPayment
<1>1. CASE CommitConfirm(s)
  <2>1. pay' \in PaymentRow /\ (pay'.id = 0 <=> pay' = NoPayment) /\ payments' \in 0..MaxPayments
        /\ pay' # NoPayment
    <3>1. CASE pay # NoPayment
      BY <1>0, <1>1, <3>1 DEF CommitConfirm, CreatePaymentForConfirmedOrder
    <3>2. CASE pay = NoPayment
      <4>1. /\ payments < MaxPayments /\ payments' = payments + 1
            /\ pay' = [NoPayment EXCEPT !.id = payments + 1, !.status = "UNPAID"]
        BY <1>1, <3>2 DEF CommitConfirm, CreatePaymentForConfirmedOrder
      <4>2. payments' \in 1..MaxPayments  BY <4>1, <1>0, BoundsAssumption
      <4>3. pay' = [id |-> payments', status |-> "UNPAID", method |-> "NONE", refund |-> "NONE"]
        BY <4>1 DEF NoPayment
      <4>4. pay' \in PaymentRow
        BY <4>2, <4>3 DEF PaymentRow, PaymentState, PaymentMethod, RefundStatus
      <4>. QED  BY <4>2, <4>3, <4>4 DEF NoPayment
    <3>. QED  BY <3>1, <3>2
  <2>. QED  BY <1>0, <1>1, <2>1, FinishTyped, TypedFromParts
            DEF CommitConfirm, history, OrderStatus
<1>2. CASE CommitFulfil(s)
  BY <1>0, <1>2, FinishTyped, TypedFromParts DEF CommitFulfil, history, OrderStatus
<1>3. CASE CommitCancel(s)
  <2>1. CASE req[s].att = 0
    BY <1>0, <1>3, <2>1, InsertRows, FinishTyped, TypedFromParts
    DEF CommitCancel, history, OrderStatus, Request, Fits
  <2>2. CASE req[s].att # 0
    <3>1. req[s].pay.id \in PaymentIds
      BY <1>0, <1>3, <2>2 DEF CommitCancel, At, Fits, WorksOnAttempt
    <3>. QED  BY <1>0, <1>3, <2>2, <3>1, ApplyIntentRows, FinishTyped, TypedFromParts
              DEF CommitCancel, history, OrderStatus
  <2>. QED  BY <2>1, <2>2
<1>4. CASE CommitReopen(s)
  <2>1. pay' \in {pay, NoPayment} /\ attempt' \in {attempt, [a \in AttemptIds |-> "NONE"]}
        /\ (attempt' = attempt => pay' = pay \/ \A a \in AttemptIds : attempt[a] = "NONE")
    BY <1>4 DEF CommitReopen, DeletePaymentForReopen
  <2>. QED  BY <1>0, <1>4, <2>1, FinishTyped, TypedFromParts
            DEF CommitReopen, history, OrderStatus
<1>5. CASE DeleteOrder(s)
  BY <1>0, <1>5, TypedFromParts DEF DeleteOrder, history
<1>. QED  BY <1>1, <1>2, <1>3, <1>4, <1>5

\* The row a collection leaves behind: the stored one with another method and status.
LEMMA CollectedRow ==
  ASSUME Typed, NEW p \in PaymentRow, p.id = 0 => p.refund = "NONE",
         NEW m \in PaymentMethod, NEW st \in PaymentState,
         Write(p, [Stored(p) EXCEPT !.method = m, !.status = st])
  PROVE  /\ pay' \in PaymentRow /\ pay'.id = Stored(p).id /\ pay'.status = st
         /\ pay'.id \in PaymentIds /\ pay' # NoPayment
         /\ payments' \in 0..MaxPayments /\ order # "DELETED"
         /\ \/ pay'.id = pay.id /\ pay'.refund = pay.refund
            \/ pay'.refund = "NONE"
<1> DEFINE row == [Stored(p) EXCEPT !.method = m, !.status = st]
<1>1. Stored(p) \in PaymentRow
  <2>1. CASE p.id = 0
    <3>1. payments + 1 \in 0..MaxPayments
      BY <2>1, BoundsAssumption DEF Write, Writable, Typed, TypeOK
    <3>. QED  BY <2>1, <3>1 DEF Stored, PaymentRow
  <2>2. CASE p.id # 0  BY <2>2 DEF Stored, Typed, TypeOK
  <2>. QED  BY <2>1, <2>2
<1>2. /\ row \in PaymentRow /\ row.id = Stored(p).id /\ row.status = st
      /\ row.refund = Stored(p).refund
  BY <1>1 DEF PaymentRow
<1>3. Write(p, row)  OBVIOUS
<1>4. pay' = row /\ row.id \in PaymentIds /\ row # NoPayment
      /\ payments' \in 0..MaxPayments /\ order # "DELETED"
  <2>. HIDE DEF row
  <2>. QED  BY <1>2, <1>3, WriteRows
<1>5. Stored(p) = pay \/ Stored(p).refund = "NONE"
  BY DEF Stored, PaymentRow
<1>. QED  BY <1>2, <1>4, <1>5

LEMMA CollectionTyped ==
  ASSUME Typed, NEW s \in Slots,
         CommitLegacy(s) \/ CommitPoll(s) \/ CommitCash(s)
  PROVE  Typed'
<1>0. /\ pay \in PaymentRow /\ (pay.id = 0 <=> pay = NoPayment) /\ payments \in 0..MaxPayments
      /\ attempt \in [AttemptIds -> AttemptStatus \cup {"NONE"}]
      /\ order \in OrderStatus \cup {"DELETED"} /\ received \subseteq EventIds
      /\ placed \in BOOLEAN /\ cash \subseteq PaymentIds /\ cashBack \in [PaymentIds -> Nat]
      /\ req[s] \in Request /\ Fits(req[s])
      /\ \A a \in AttemptIds : attempt[a] # "NONE" => pay # NoPayment
      /\ order = "DELETED" => pay = NoPayment
  BY DEF Typed, TypeOK, RowsOK
<1>1. CASE CommitLegacy(s)
  BY <1>0, <1>1, InsertRows, FinishTyped, TypedFromParts DEF CommitLegacy, history, Request, Fits
<1>2. CASE CommitPoll(s)
  <2>1. req[s].pay.id \in PaymentIds
    BY <1>0, <1>2 DEF CommitPoll, At, Fits, WorksOnAttempt, AttemptIds
  <2>. QED  BY <1>0, <1>2, <2>1, ApplyIntentRows, FinishTyped, TypedFromParts
            DEF CommitPoll, history
<1>3. CASE CommitCash(s)
  <2> DEFINE p == req[s].pay
  <2>1. p \in PaymentRow /\ (p.id = 0 => p.refund = "NONE")
    BY <1>0 DEF Request, Fits
  <2>2. Write(p, [Stored(p) EXCEPT !.method = "CASH", !.status = "PAID"])
    BY <1>3 DEF CommitCash
  <2>3. /\ pay' \in PaymentRow /\ pay'.id \in PaymentIds /\ pay' # NoPayment
        /\ pay'.id = Stored(p).id /\ payments' \in 0..MaxPayments /\ order # "DELETED"
    BY <2>1, <2>2, CollectedRow DEF PaymentMethod, PaymentState
  <2>4. cash' \subseteq PaymentIds  BY <1>0, <1>3, <2>3 DEF CommitCash
  <2>. QED  BY <1>0, <1>3, <2>3, <2>4, FinishTyped, TypedFromParts
            DEF CommitCash, PaymentIds
<1>. QED  BY <1>1, <1>2, <1>3

LEMMA CardTyped ==
  ASSUME Typed, NEW s \in Slots, CommitCard(s)
  PROVE  Typed'
<1> DEFINE p == req[s].pay
<1>1. PICK a \in AttemptIds :
        /\ attempt' = [attempt EXCEPT ![a] = "PENDING"]
        /\ Write(p, [Stored(p) EXCEPT !.method = "CARD", !.status = "PENDING"])
        /\ owner' = [owner EXCEPT ![a] = Stored(p).id]
        /\ intent' = [intent EXCEPT ![a] = "requires_payment_method"]
  BY DEF CommitCard
<1>2. p \in PaymentRow /\ (p.id = 0 => p.refund = "NONE")
  BY DEF Typed, TypeOK, Request, Fits
<1>3. /\ pay' \in PaymentRow /\ pay'.id \in PaymentIds /\ pay' # NoPayment
      /\ pay'.id = Stored(p).id /\ payments' \in 0..MaxPayments /\ order # "DELETED"
  BY <1>1, <1>2, CollectedRow DEF PaymentMethod, PaymentState
<1>4. owner' \in [AttemptIds -> 0..MaxPayments]
  BY <1>1, <1>3, BoundsAssumption DEF Typed, TypeOK, PaymentIds
<1>5. intent' \in [AttemptIds -> IntentStatus \cup {"none"}]
  BY <1>1 DEF Typed, TypeOK, IntentStatus
<1>6. attempt' \in [AttemptIds -> AttemptStatus \cup {"NONE"}]
  BY <1>1 DEF Typed, TypeOK, AttemptStatus
<1>7. req' \in [Slots -> Request] /\ \A t \in Slots : Fits(req[t])'
  BY FinishTyped DEF CommitCard
<1>8. TypeOK'
  <2>1. pay'.id # 0  BY <1>3 DEF PaymentIds
  <2>2. UNCHANGED <<order, placed, received, emitted, refund, refundEmitted, history>>
    BY DEF CommitCard
  <2>. QED  BY <1>3, <1>4, <1>5, <1>6, <1>7, <2>1, <2>2 DEF Typed, TypeOK, history
<1>9. RowsOK'  BY <1>3 DEF CommitCard, RowsOK
<1>. QED  BY <1>7, <1>8, <1>9 DEF Typed

LEMMA CancelTyped ==
  ASSUME Typed, NEW s \in Slots, CancelIntent(s)
  PROVE  Typed'
<1>1. /\ req[s] \in Request /\ Fits(req[s]) /\ req[s].op \in {"CANCELLED", "PENDING"}
      /\ req[s].at = "stripe" /\ req[s].att \in AttemptIds
      /\ intent \in [AttemptIds -> IntentStatus \cup {"none"}]
  BY DEF CancelIntent, Typed, TypeOK, Fits
<1>2. ASSUME NEW st \in IntentStatus \cup {"none"},
             Begin(s, [req[s] EXCEPT !.at = "commit", !.seen = st])
      PROVE  req' \in [Slots -> Request] /\ \A t \in Slots : Fits(req[t])'
  <2> DEFINE r == [req[s] EXCEPT !.at = "commit", !.seen = st]
  <2>1. r \in Request  BY <1>1, <1>2 DEF Request
  <2>2. Fits(r)  BY <1>1 DEF Fits, Request, WorksOnRefund, WorksOnAttempt, AttemptIds
  <2>. QED  BY <1>2, <2>1, <2>2, BeginKeeps DEF Typed, TypeOK
<1>3. req' \in [Slots -> Request] /\ \A t \in Slots : Fits(req[t])'
  BY <1>1, <1>2 DEF CancelIntent, IntentStatus
<1>4. intent' \in [AttemptIds -> IntentStatus \cup {"none"}]
  BY <1>1 DEF CancelIntent, IntentStatus
<1>5. emitted' \in [AttemptIds -> Seq(IntentStatus)]
  <2>1. emitted \in [AttemptIds -> Seq(IntentStatus)]  BY DEF Typed, TypeOK
  <2>2. Append(emitted[req[s].att], "canceled") \in Seq(IntentStatus)
    BY <1>1, <2>1 DEF IntentStatus
  <2>3. emitted' = emitted
        \/ emitted' = [emitted EXCEPT ![req[s].att] = Append(emitted[req[s].att], "canceled")]
    BY <1>1, <2>1 DEF CancelIntent
  <2>. QED  BY <2>1, <2>2, <2>3
<1>6. TypeOK'
  BY <1>3, <1>4, <1>5 DEF CancelIntent, Typed, TypeOK, database, history
<1>7. RowsOK'  BY DEF CancelIntent, Typed, RowsOK, database
<1>. QED  BY <1>3, <1>6, <1>7 DEF Typed

LEMMA RefundCommitsTyped ==
  ASSUME Typed, NEW s \in Slots,
         CommitRefundCash(s) \/ CommitRefundRequested(s) \/ CommitRefundFailed(s)
           \/ CommitRefundCard(s)
  PROVE  Typed'
<1>0. /\ pay \in PaymentRow /\ (pay.id = 0 <=> pay = NoPayment) /\ payments \in 0..MaxPayments
      /\ attempt \in [AttemptIds -> AttemptStatus \cup {"NONE"}]
      /\ order \in OrderStatus \cup {"DELETED"} /\ received \subseteq EventIds
      /\ placed \in BOOLEAN /\ cash \subseteq PaymentIds /\ cashBack \in [PaymentIds -> Nat]
      /\ req[s] \in Request /\ Fits(req[s])
      /\ \A a \in AttemptIds : attempt[a] # "NONE" => pay # NoPayment
      /\ order = "DELETED" => pay = NoPayment
  BY DEF Typed, TypeOK, RowsOK
<1>1. req[s].pay.id \in PaymentIds
  BY <1>0 DEF CommitRefundCash, CommitRefundRequested, CommitRefundFailed, CommitRefundCard,
              At, Fits, WorksOnRefund
<1>2. ASSUME NEW st \in RefundStatus, pay.id = req[s].pay.id, pay' = [pay EXCEPT !.refund = st]
      PROVE  pay' \in PaymentRow /\ pay'.id \in PaymentIds /\ pay' # NoPayment
             /\ pay # NoPayment /\ pay'.id # 0
  <2>1. pay' \in PaymentRow /\ pay'.id = pay.id  BY <1>0, <1>2 DEF PaymentRow
  <2>. QED  BY <1>0, <1>1, <1>2, <2>1 DEF NoPayment, PaymentIds
<1>3. CASE CommitRefundCash(s)
  <2>1. cashBack' \in [PaymentIds -> Nat]
    BY <1>0, <1>1, <1>3 DEF CommitRefundCash
  <2>. QED  BY <1>0, <1>2, <1>3, <2>1, FinishTyped, TypedFromParts
            DEF CommitRefundCash, RefundStatus, OrderStatus
<1>4. CASE CommitRefundRequested(s)
  <2> DEFINE r == [req[s] EXCEPT !.at = "stripe"]
  <2>1. req[s].op = "refundCard" /\ req[s].att \in 0..MaxAttempts
    BY <1>0, <1>4 DEF CommitRefundRequested, At, Request
  <2>2. r \in Request  BY <1>0 DEF Request
  <2>3. Fits(r)  BY <1>0, <1>1, <1>4 DEF Fits, Request, CommitRefundRequested, At, WorksOnAttempt
  <2>4. req' \in [Slots -> Request] /\ \A t \in Slots : Fits(req[t])'
    BY <1>4, <2>2, <2>3, BeginKeeps DEF CommitRefundRequested, Typed, TypeOK
  <2>. QED  BY <1>0, <1>2, <1>4, <2>4, TypedFromParts
            DEF CommitRefundRequested, RefundStatus, history
<1>5. CASE CommitRefundFailed(s)
  BY <1>0, <1>2, <1>5, FinishTyped, TypedFromParts
  DEF CommitRefundFailed, RefundStatus, history
<1>6. CASE CommitRefundCard(s)
  BY <1>0, <1>1, <1>6, ApplyRefundRows, FinishTyped, TypedFromParts
  DEF CommitRefundCard, history
<1>. QED  BY <1>3, <1>4, <1>5, <1>6

LEMMA CreateRefundTyped ==
  ASSUME Typed, NEW s \in Slots, NEW st \in StripeRefundStatus, CreateRefund(s, st)
  PROVE  Typed'
<1> DEFINE id == req[s].pay.id
<1>1. /\ req[s] \in Request /\ Fits(req[s]) /\ req[s].op = "refundCard"
      /\ id \in PaymentIds /\ req[s].att \in 0..MaxAttempts
  BY DEF CreateRefund, At, Typed, TypeOK, Fits, WorksOnRefund, Request
<1>2. refund' \in [PaymentIds -> [now: StripeRefundStatus \cup {"none"},
                                  first: StripeRefundStatus \cup {"none"},
                                  att: 0..MaxAttempts]]
  BY <1>1 DEF CreateRefund, Typed, TypeOK
<1>3. refundEmitted' \in [PaymentIds -> Seq(StripeRefundStatus)]
  <2>1. Append(refundEmitted[id], st) \in Seq(StripeRefundStatus)
    BY <1>1 DEF Typed, TypeOK
  <2>. QED  BY <1>1, <2>1 DEF CreateRefund, Typed, TypeOK
<1>4. req' \in [Slots -> Request] /\ \A t \in Slots : Fits(req[t])'
  <2>1. ASSUME NEW r \in {[req[s] EXCEPT !.at = "fresh", !.seen = st],
                          [req[s] EXCEPT !.at = "failed"]}, Begin(s, r)
        PROVE  req' \in [Slots -> Request] /\ \A t \in Slots : Fits(req[t])'
    <3>1. r \in Request  BY <1>1 DEF Request
    <3>2. Fits(r)  BY <1>1 DEF Fits, Request, WorksOnRefund, WorksOnAttempt
    <3>. QED  BY <2>1, <3>1, <3>2, BeginKeeps DEF Typed, TypeOK
  <2>. QED  BY <2>1 DEF CreateRefund
<1>5. UNCHANGED <<database, received, intent, owner, emitted, history>>
  BY DEF CreateRefund
<1>6. TypeOK'  BY <1>2, <1>3, <1>4, <1>5 DEF Typed, TypeOK, database, history
<1>7. RowsOK'  BY <1>5 DEF Typed, RowsOK, database
<1>. QED  BY <1>4, <1>6, <1>7 DEF Typed

LEMMA EventCommitsTyped ==
  ASSUME Typed, NEW s \in Slots,
         IgnoreIntentEvent(s) \/ IgnoreRefundEvent(s) \/ CommitIntentEvent(s)
           \/ CommitRefundEvent(s)
  PROVE  Typed'
<1>0. /\ pay \in PaymentRow /\ (pay.id = 0 <=> pay = NoPayment) /\ payments \in 0..MaxPayments
      /\ attempt \in [AttemptIds -> AttemptStatus \cup {"NONE"}]
      /\ order \in OrderStatus \cup {"DELETED"} /\ received \subseteq EventIds
      /\ placed \in BOOLEAN /\ cash \subseteq PaymentIds /\ cashBack \in [PaymentIds -> Nat]
      /\ req[s] \in Request /\ Fits(req[s])
      /\ \A a \in AttemptIds : attempt[a] # "NONE" => pay # NoPayment
      /\ order = "DELETED" => pay = NoPayment
      /\ req \in [Slots -> Request] /\ \A t \in Slots : Fits(req[t])
  BY DEF Typed, TypeOK, RowsOK
<1>1. CASE IgnoreIntentEvent(s) \/ IgnoreRefundEvent(s)
  <2>1. received' \subseteq EventIds
    <3>1. AttemptIds \subseteq Nat /\ PaymentIds \subseteq Nat
      BY DEF AttemptIds, PaymentIds
    <3>2. ASSUME NEW kind \in {"intentEvent", "refundEvent"}, NEW i \in Nat, NEW n \in Nat,
                 received' = received \cup {<<kind, i, n>>}
          PROVE  received' \subseteq EventIds
      BY <1>0, <3>2 DEF EventIds
    <3>. QED  BY <1>1, <3>1, <3>2 DEF IgnoreIntentEvent, IgnoreRefundEvent
  <2>2. UNCHANGED <<database, stripe, req, history>>
    BY <1>1 DEF IgnoreIntentEvent, IgnoreRefundEvent
  <2>3. \A t \in Slots : Fits(req[t])'  BY <1>0, <2>2
  <2>. QED  BY <1>0, <2>1, <2>2, <2>3, TypedFromParts DEF database, history
<1>2. CASE CommitIntentEvent(s)
  <2>1. req[s].pay.id \in PaymentIds /\ req[s].att \in Nat /\ req[s].event \in Nat
    BY <1>0, <1>2, BoundsAssumption
    DEF CommitIntentEvent, At, Fits, WorksOnAttempt, AttemptIds, Request
  <2>2. received' \subseteq EventIds  BY <1>0, <1>2, <2>1 DEF CommitIntentEvent, EventIds
  <2>. QED  BY <1>0, <1>2, <2>1, <2>2, ApplyIntentRows, FinishTyped, TypedFromParts
            DEF CommitIntentEvent, history
<1>3. CASE CommitRefundEvent(s)
  <2>1. req[s].pay.id \in PaymentIds /\ req[s].pay.id \in Nat /\ req[s].event \in Nat
    BY <1>0, <1>3, BoundsAssumption
    DEF CommitRefundEvent, At, Fits, WorksOnRefund, PaymentIds, Request
  <2>2. received' \subseteq EventIds  BY <1>0, <1>3, <2>1 DEF CommitRefundEvent, EventIds
  <2>. QED  BY <1>0, <1>3, <2>1, <2>2, ApplyRefundRows, FinishTyped, TypedFromParts
            DEF CommitRefundEvent, history
<1>. QED  BY <1>1, <1>2, <1>3

LEMMA OutsideTyped ==
  ASSUME Typed, Outside
  PROVE  Typed'
<1>1. UNCHANGED <<database, received, owner, req, history>>
  BY DEF Outside, IntentMoves, RefundMoves
<1>2. ASSUME NEW a \in AttemptIds, NEW to \in IntentStatus, IntentMoves(a, to)
      PROVE  TypeOK'
  <2>1. emitted' \in [AttemptIds -> Seq(IntentStatus)]
    <3>1. Append(emitted[a], to) \in Seq(IntentStatus)  BY DEF Typed, TypeOK
    <3>. QED  BY <1>2, <3>1 DEF IntentMoves, Typed, TypeOK
  <2>2. intent' \in [AttemptIds -> IntentStatus \cup {"none"}]
    BY <1>2 DEF IntentMoves, Typed, TypeOK
  <2>3. UNCHANGED <<refund, refundEmitted>>  BY <1>2 DEF IntentMoves
  <2>. QED  BY <1>1, <2>1, <2>2, <2>3 DEF Typed, TypeOK, database, history
<1>3. ASSUME NEW id \in PaymentIds, NEW to \in StripeRefundStatus, RefundMoves(id, to)
      PROVE  TypeOK'
  <2>1. refundEmitted' \in [PaymentIds -> Seq(StripeRefundStatus)]
    <3>1. Append(refundEmitted[id], to) \in Seq(StripeRefundStatus)  BY DEF Typed, TypeOK
    <3>. QED  BY <1>3, <3>1 DEF RefundMoves, Typed, TypeOK
  <2>2. refund' \in [PaymentIds -> [now: StripeRefundStatus \cup {"none"},
                                    first: StripeRefundStatus \cup {"none"},
                                    att: 0..MaxAttempts]]
    BY <1>3 DEF RefundMoves, Typed, TypeOK
  <2>3. UNCHANGED <<intent, emitted>>  BY <1>3 DEF RefundMoves
  <2>. QED  BY <1>1, <2>1, <2>2, <2>3 DEF Typed, TypeOK, database, history
<1>4. TypeOK'  BY <1>2, <1>3 DEF Outside
<1>5. RowsOK' /\ \A s \in Slots : Fits(req[s])'
  BY <1>1 DEF Typed, RowsOK, database
<1>. QED  BY <1>4, <1>5 DEF Typed

LEMMA AbortTyped ==
  ASSUME Typed, NEW s \in Slots, Abort(s)
  PROVE  Typed'
BY FinishTyped DEF Abort, Typed, TypeOK, RowsOK, database, stripe, history

--------------------------------------------------------------------------------

LEMMA StepTyped ==
  ASSUME Typed, [Next]_vars
  PROVE  Typed'
<1>1. CASE UNCHANGED vars
  BY <1>1 DEF vars, Typed, TypeOK, RowsOK, database, stripe, history, Fits
<1>2. ASSUME NEW s \in Slots, Transition(s)  PROVE Typed'
  BY <1>2, TransitionReadsTyped, CancelTyped, TransitionsTyped DEF Transition
<1>3. ASSUME NEW s \in Slots, Collection(s)  PROVE Typed'
  BY <1>3, CollectionReadsTyped, CollectionTyped, CardTyped DEF Collection
<1>4. ASSUME NEW s \in Slots, Refunding(s)  PROVE Typed'
  BY <1>4, RefundReadsTyped, RefundCommitsTyped, CreateRefundTyped DEF Refunding
<1>5. ASSUME NEW s \in Slots, Webhook(s)  PROVE Typed'
  BY <1>5, EventReadsTyped, EventCommitsTyped DEF Webhook
<1>. QED  BY <1>1, <1>2, <1>3, <1>4, <1>5, AbortTyped, OutsideTyped DEF Next

\* Every request finds the ids it took along, and every column and every Stripe object
\* holds a value of its type, however requests, events and crashes interleave.
THEOREM TypeCorrect == Spec => []TypeOK
<1>1. Init => Typed  BY InitTyped
<1>2. Typed /\ [Next]_vars => Typed'  BY StepTyped
<1>3. Typed => TypeOK  BY DEF Typed
<1>. QED  BY <1>1, <1>2, <1>3, PTL DEF Spec

--------------------------------------------------------------------------------
(* Safety. *)

Final == {"succeeded", "canceled"}

\* A final status ever reported by Stripe, queued or read, is still the intent's status.
ReportsHold ==
  /\ \A a \in AttemptIds : \A n \in 1..Len(emitted[a]) :
       emitted[a][n] \in Final => intent[a] = emitted[a][n]
  /\ \A s \in Slots :
       req[s].op \in WorksOnAttempt /\ req[s].seen \in Final => intent[req[s].att] = req[s].seen

\* Nothing that can become a PAID payment or a fulfilled order precedes the money.
NoPaidBeforeMoney ==
  /\ pay.status # "PAID" /\ order # "FULFILLED"
  /\ \A s \in Slots : /\ req[s].pay.status # "PAID"
                      /\ req[s].op = "FULFILLED" => req[s].at = "payment"

MoneyFirst == MoneyTaken \/ NoPaidBeforeMoney

--------------------------------------------------------------------------------
(* Which steps move an intent, and how. *)

LEMMA IntentsMoveIn ==
  ASSUME Next
  PROVE  \/ UNCHANGED <<intent, emitted, owner>>
         \/ \E s \in Slots : CommitCard(s) \/ CancelIntent(s)
         \/ \E a \in AttemptIds, to \in IntentStatus : IntentMoves(a, to)
<1>1. ASSUME NEW s \in Slots, Transition(s)
      PROVE  UNCHANGED <<intent, emitted, owner>> \/ CancelIntent(s)
  BY <1>1 DEF Transition, ReadTransition, ReadPayment, ReadAttempt, CommitConfirm, CommitFulfil,
              CommitCancel, CommitReopen, DeleteOrder, stripe
<1>2. ASSUME NEW s \in Slots, Collection(s)
      PROVE  UNCHANGED <<intent, emitted, owner>> \/ CommitCard(s)
  BY <1>2 DEF Collection, ReadLegacy, CommitLegacy, ReadCard, ReadPoll, RetrieveIntent,
              ReadAgain, CommitPoll, ReadCash, CommitCash, stripe
<1>3. ASSUME NEW s \in Slots, Refunding(s)
      PROVE  UNCHANGED <<intent, emitted, owner>>
  BY <1>3 DEF Refunding, ReadRefund, ReadOrderAgain, ReadRefundAgain, CommitRefundCash,
              CommitRefundRequested, CreateRefund, ReplayRefund, RefundUnavailable, CommitRefundFailed,
              CommitRefundCard, stripe
<1>4. ASSUME NEW s \in Slots, Webhook(s)
      PROVE  UNCHANGED <<intent, emitted, owner>>
  BY <1>4 DEF Webhook, IgnoreIntentEvent, ReadIntentEvent, CommitIntentEvent,
              IgnoreRefundEvent, ReadRefundEvent, CommitRefundEvent, stripe
<1>5. ASSUME NEW s \in Slots, Abort(s)
      PROVE  UNCHANGED <<intent, emitted, owner>>
  BY <1>5 DEF Abort, stripe
<1>6. ASSUME NEW id \in PaymentIds, NEW to \in StripeRefundStatus, RefundMoves(id, to)
      PROVE  UNCHANGED <<intent, emitted, owner>>
  BY <1>6 DEF RefundMoves
<1>. QED  BY <1>1, <1>2, <1>3, <1>4, <1>5, <1>6 DEF Next, Outside

\* A final status is never left, and an intent announces only the status it has.
LEMMA FinalIsFinal ==
  ASSUME Typed, [Next]_vars, NEW a \in AttemptIds
  PROVE  /\ intent[a] \in Final => intent'[a] = intent[a]
         /\ emitted'[a] = emitted[a] \/ emitted'[a] = Append(emitted[a], intent'[a])
<1>0. /\ intent \in [AttemptIds -> IntentStatus \cup {"none"}]
      /\ emitted \in [AttemptIds -> Seq(IntentStatus)]
  BY DEF Typed, TypeOK
<1>1. ASSUME UNCHANGED <<intent, emitted>>
      PROVE  /\ intent[a] \in Final => intent'[a] = intent[a]
             /\ emitted'[a] = emitted[a] \/ emitted'[a] = Append(emitted[a], intent'[a])
  BY <1>1
<1>2. ASSUME NEW s \in Slots, CommitCard(s)
      PROVE  (intent[a] \in Final => intent'[a] = intent[a]) /\ emitted'[a] = emitted[a]
  <2>1. PICK b \in AttemptIds :
          /\ \A c \in AttemptIds : intent[c] # "none" <=> c < b
          /\ intent' = [intent EXCEPT ![b] = "requires_payment_method"]
    BY <1>2 DEF CommitCard
  <2>2. intent[b] = "none"  BY <2>1 DEF AttemptIds
  <2>. QED  BY <1>0, <1>2, <2>1, <2>2 DEF CommitCard, Final
<1>3. ASSUME NEW s \in Slots, CancelIntent(s)
      PROVE  /\ intent[a] \in Final => intent'[a] = intent[a]
             /\ emitted'[a] = emitted[a] \/ emitted'[a] = Append(emitted[a], intent'[a])
  BY <1>0, <1>3 DEF CancelIntent, Final
<1>4. ASSUME NEW b \in AttemptIds, NEW to \in IntentStatus, IntentMoves(b, to)
      PROVE  /\ intent[a] \in Final => intent'[a] = intent[a]
             /\ emitted'[a] = emitted[a] \/ emitted'[a] = Append(emitted[a], intent'[a])
  <2>1. intent[b] \notin Final  BY <1>4 DEF IntentMoves, IntentSteps, Final
  <2>. QED  BY <1>0, <1>4, <2>1 DEF IntentMoves
<1>. QED  BY <1>1, <1>2, <1>3, <1>4, IntentsMoveIn DEF vars, stripe

--------------------------------------------------------------------------------
(* Reports hold. *)

Truthful(r) == r.op \in WorksOnAttempt /\ r.seen \in Final => intent[r.att] = r.seen

\* A step changes at most the request of slot s.
Only(s) == req' \in [Slots -> Request] /\ \A t \in Slots : t # s => req'[t] = req[t]

LEMMA TruthfulRequests ==
  ASSUME Typed, ReportsHold, [Next]_vars, NEW s \in Slots, Only(s),
         req'[s].op \in WorksOnAttempt /\ req'[s].seen \in Final
           => intent'[req'[s].att] = req'[s].seen
  PROVE  \A t \in Slots : Truthful(req[t])'
<1> TAKE t \in Slots
<1>1. CASE t = s  BY <1>1 DEF Truthful
<1>2. CASE t # s
  <2>1. req'[t] = req[t]  BY <1>2 DEF Only
  <2>2. req[t].op \in WorksOnAttempt /\ req[t].seen \in Final => req[t].att \in AttemptIds
    <3>1. req[t].att \notin AttemptIds => req[t].att = 0
      BY BoundsAssumption DEF Typed, TypeOK, Request, AttemptIds
    <3>. QED  BY <3>1 DEF Typed, Fits, Final
  <2>. QED  BY <2>1, <2>2, FinalIsFinal DEF ReportsHold, Truthful
<1>. QED  BY <1>1, <1>2

LEMMA EmittedReports ==
  ASSUME Typed, ReportsHold, [Next]_vars, NEW a \in AttemptIds, NEW n \in 1..Len(emitted'[a]),
         emitted'[a][n] \in Final
  PROVE  intent'[a] = emitted'[a][n]
<1>1. emitted[a] \in Seq(IntentStatus)  BY DEF Typed, TypeOK
<1>2. CASE emitted'[a] = emitted[a]
  BY <1>2, FinalIsFinal DEF ReportsHold
<1>3. CASE emitted'[a] = Append(emitted[a], intent'[a])
  <2>1. CASE n = Len(emitted[a]) + 1  BY <1>1, <1>3, <2>1
  <2>2. CASE n # Len(emitted[a]) + 1
    <3>1. n \in 1..Len(emitted[a]) /\ emitted'[a][n] = emitted[a][n]
      BY <1>1, <1>3, <2>2
    <3>. QED  BY <3>1, FinalIsFinal DEF ReportsHold
  <2>. QED  BY <2>1, <2>2
<1>. QED  BY <1>2, <1>3, FinalIsFinal

\* Where a request gets what it knows of an intent.
LEMMA RequestReports ==
  ASSUME Typed, ReportsHold, [Next]_vars
  PROVE  \A t \in Slots : Truthful(req[t])'
<1>0. /\ req \in [Slots -> Request] /\ req' \in [Slots -> Request]
      /\ intent \in [AttemptIds -> IntentStatus \cup {"none"}]
  BY StepTyped DEF Typed, TypeOK
<1>1. ASSUME NEW s \in Slots, Finish(s)
      PROVE  \A t \in Slots : Truthful(req[t])'
  <2>1. req' \in [Slots -> Request]  BY <1>1, FinishKeeps DEF Typed, TypeOK
  <2>2. Only(s) /\ req'[s] = Idle  BY <1>1, <2>1 DEF Finish, Only, Typed, TypeOK
  <2>. QED  BY <2>2, TruthfulRequests DEF Idle, WorksOnAttempt
<1>2. ASSUME NEW s \in Slots, Only(s), req'[s].op \notin WorksOnAttempt \/ req'[s].seen = "none"
      PROVE  \A t \in Slots : Truthful(req[t])'
  BY <1>2, TruthfulRequests DEF Final
<1>3. ASSUME UNCHANGED req
      PROVE  \A t \in Slots : Truthful(req[t])'
  <2> TAKE t \in Slots
  <2>1. Only(t) /\ req'[t] = req[t]  BY <1>3 DEF Only, Typed, TypeOK
  <2>2. req[t].op \in WorksOnAttempt /\ req[t].seen \in Final => req[t].att \in AttemptIds
    <3>1. req[t].att \notin AttemptIds => req[t].att = 0
      BY BoundsAssumption DEF Typed, TypeOK, Request, AttemptIds
    <3>. QED  BY <3>1 DEF Typed, Fits, Final
  <2>. QED  BY <2>1, <2>2, FinalIsFinal, TruthfulRequests DEF ReportsHold
<1>4. ASSUME NEW s \in Slots, NEW to \in OrderStatus, ReadTransition(s, to)
      PROVE  \A t \in Slots : Truthful(req[t])'
  <2>1. Only(s) /\ req'[s].seen = "none"
    BY <1>0, <1>4 DEF ReadTransition, Idle, Begin, Only
  <2>. QED  BY <2>1, <1>2
<1>5. ASSUME NEW s \in Slots, CancelIntent(s)
      PROVE  \A t \in Slots : Truthful(req[t])'
  <2>1. req[s] \in Request /\ req[s].att \in AttemptIds
    BY <1>5 DEF CancelIntent, Typed, TypeOK, Fits
  <2>2. Only(s) /\ req'[s].att = req[s].att /\ req'[s].seen = intent'[req[s].att]
    <3>1. PICK st : /\ req' = [req EXCEPT ![s] = [req[s] EXCEPT !.at = "commit", !.seen = st]]
                    /\ intent'[req[s].att] = st
      BY <1>0, <1>5, <2>1 DEF CancelIntent, Begin
    <3>. QED  BY <1>0, <2>1, <3>1 DEF Request, Only
  <2>. QED  BY <2>2, TruthfulRequests
<1>6. ASSUME NEW s \in Slots, Collection(s)
      PROVE  \A t \in Slots : Truthful(req[t])'
  <2>1. CASE ReadLegacy(s) \/ ReadCard(s) \/ ReadCash(s) \/ ReadPoll(s)
    <3>1. Only(s) /\ req'[s].seen = "none"
      BY <1>0, <2>1 DEF ReadLegacy, ReadCard, ReadCash, ReadPoll, Idle, Begin, Only
    <3>. QED  BY <3>1, <1>2
  <2>2. CASE RetrieveIntent(s)
    <3>1. req[s] \in Request  BY DEF Typed, TypeOK
    <3>2. Only(s) /\ req'[s].att = req[s].att /\ req'[s].seen = intent'[req[s].att]
      BY <1>0, <2>2, <3>1 DEF RetrieveIntent, stripe, Request, Begin, Only
    <3>. QED  BY <3>2, TruthfulRequests
  <2>3. CASE ReadAgain(s)
    <3>1. req[s] \in Request /\ req[s].op \in {"poll", "intentEvent"}
      BY <2>3 DEF ReadAgain, Typed, TypeOK
    <3>2. Only(s) /\ req'[s].att = req[s].att /\ req'[s].seen = req[s].seen
      BY <1>0, <2>3, <3>1 DEF ReadAgain, Request, Begin, Only
    <3>3. UNCHANGED intent  BY <2>3 DEF ReadAgain, stripe
    <3>. QED  BY <3>1, <3>2, <3>3, TruthfulRequests DEF ReportsHold, WorksOnAttempt
  <2>. QED  BY <1>1, <1>6, <2>1, <2>2, <2>3
            DEF Collection, CommitLegacy, CommitCard, CommitPoll, CommitCash
<1>7. ASSUME NEW s \in Slots, Refunding(s)
      PROVE  \A t \in Slots : Truthful(req[t])'
  <2>1. CASE CommitRefundCash(s) \/ CommitRefundFailed(s) \/ CommitRefundCard(s)
    BY <1>1, <2>1 DEF CommitRefundCash, CommitRefundFailed, CommitRefundCard
  <2>2. CASE ReadRefund(s)
    <3>1. Only(s) /\ req'[s].seen = "none"  BY <1>0, <2>2 DEF ReadRefund, Idle, Begin, Only
    <3>. QED  BY <3>1, <1>2
  <2>3. CASE \/ ReadOrderAgain(s) \/ ReadRefundAgain(s) \/ CommitRefundRequested(s) \/ ReplayRefund(s)
             \/ RefundUnavailable(s) \/ \E st \in StripeRefundStatus : CreateRefund(s, st)
    <3>1. req[s] \in Request /\ req[s].op \in {"refundCash", "refundCard"}
      BY <2>3 DEF ReadOrderAgain, ReadRefundAgain, CommitRefundRequested, ReplayRefund,
                  RefundUnavailable, CreateRefund, At, Typed, TypeOK
    <3>2. Only(s) /\ req'[s].op = req[s].op
      <4>1. CASE ReadOrderAgain(s) \/ ReadRefundAgain(s)
        <5>1. CASE ReadOrderAgain(s)
          <6> DEFINE q == [req[s] EXCEPT !.at = "payment", !.order = order]
          <6>1. q.op = req[s].op  BY <3>1 DEF Request
          <6>2. req' = [req EXCEPT ![s] = q]  BY <5>1 DEF ReadOrderAgain, Begin
          <6> HIDE DEF q
          <6>. QED  BY <1>0, <6>1, <6>2 DEF Only
        <5>2. CASE ReadRefundAgain(s)
          <6> DEFINE q == [req[s] EXCEPT !.at = "commit", !.pay = pay]
          <6>1. q.op = req[s].op  BY <3>1 DEF Request
          <6>2. req' = [req EXCEPT ![s] = q]  BY <5>2 DEF ReadRefundAgain, Begin
          <6> HIDE DEF q
          <6>. QED  BY <1>0, <6>1, <6>2 DEF Only
        <5>. QED  BY <4>1, <5>1, <5>2
      <4>2. CASE CommitRefundRequested(s)
        <5>1. req' = [req EXCEPT ![s] = [req[s] EXCEPT !.at = "stripe"]]
          BY <4>2 DEF CommitRefundRequested, Begin
        <5>. QED  BY <1>0, <3>1, <5>1 DEF Request, Only
      <4>3. ASSUME NEW v, \/ req' = [req EXCEPT ![s] = [req[s] EXCEPT !.at = "failed"]]
                          \/ req' = [req EXCEPT ![s] =
                                        [req[s] EXCEPT !.at = "fresh", !.seen = v]]
            PROVE  Only(s) /\ req'[s].op = req[s].op
        <5>1. PICK q : req' = [req EXCEPT ![s] = q] /\ q.op = req[s].op
          BY <3>1, <4>3 DEF Request
        <5>. QED  BY <1>0, <5>1 DEF Only
      <4>4. CASE ReplayRefund(s) \/ RefundUnavailable(s)
        BY <4>3, <4>4 DEF ReplayRefund, RefundUnavailable, Begin
      <4>5. ASSUME NEW st \in StripeRefundStatus, CreateRefund(s, st)
            PROVE  Only(s) /\ req'[s].op = req[s].op
        BY <4>3, <4>5 DEF CreateRefund, Begin
      <4>. QED  BY <2>3, <4>1, <4>2, <4>4, <4>5
    <3>. QED  BY <3>1, <3>2, <1>2 DEF WorksOnAttempt
  <2>. QED  BY <1>7, <2>1, <2>2, <2>3 DEF Refunding
<1>8. ASSUME NEW s \in Slots, Webhook(s)
      PROVE  \A t \in Slots : Truthful(req[t])'
  <2>1. CASE IgnoreIntentEvent(s) \/ IgnoreRefundEvent(s)
    BY <1>3, <2>1 DEF IgnoreIntentEvent, IgnoreRefundEvent
  <2>2. CASE CommitIntentEvent(s) \/ CommitRefundEvent(s)
    BY <1>1, <2>2 DEF CommitIntentEvent, CommitRefundEvent
  <2>3. CASE ReadIntentEvent(s)
    <3>1. PICK a \in AttemptIds : \E n \in 1..Len(emitted[a]) :
            Only(s) /\ req'[s].att = a /\ req'[s].seen = emitted[a][n]
      BY <1>0, <2>3 DEF ReadIntentEvent, Idle, Begin, Only
    <3>2. PICK n \in 1..Len(emitted[a]) : Only(s) /\ req'[s].att = a /\ req'[s].seen = emitted[a][n]
      BY <3>1
    <3>3. UNCHANGED intent  BY <2>3 DEF ReadIntentEvent, stripe
    <3>. QED  BY <3>2, <3>3, TruthfulRequests DEF ReportsHold
  <2>4. CASE ReadRefundEvent(s)
    <3>1. Only(s) /\ req'[s].op = "refundEvent"  BY <1>0, <2>4 DEF ReadRefundEvent, Idle, Begin, Only
    <3>. QED  BY <3>1, <1>2 DEF WorksOnAttempt
  <2>. QED  BY <1>8, <2>1, <2>2, <2>3, <2>4 DEF Webhook
<1>9. ASSUME NEW s \in Slots, Transition(s)
      PROVE  \A t \in Slots : Truthful(req[t])'
  <2>1. CASE CommitConfirm(s) \/ CommitFulfil(s) \/ CommitCancel(s) \/ CommitReopen(s)
    BY <1>1, <2>1 DEF CommitConfirm, CommitFulfil, CommitCancel, CommitReopen
  <2>2. CASE DeleteOrder(s)  BY <1>3, <2>2 DEF DeleteOrder
  <2>3. CASE ReadPayment(s)
    <3>1. req[s] \in Request  BY DEF Typed, TypeOK
    <3>2. Only(s) /\ req'[s].op = req[s].op /\ req'[s].att = req[s].att /\ req'[s].seen = req[s].seen
      BY <1>0, <2>3, <3>1 DEF ReadPayment, Request, Begin, Only
    <3>3. UNCHANGED intent  BY <2>3 DEF ReadPayment, stripe
    <3>. QED  BY <3>2, <3>3, TruthfulRequests DEF ReportsHold
  <2>4. CASE ReadAttempt(s)
    <3>1. req' \in [Slots -> Request] /\ req'[s].seen = "none"  BY <1>0, <2>4, AttemptRead
    <3>. QED  BY <2>4, <3>1, <1>2, AttemptRead DEF Only
  <2>. QED  BY <1>4, <1>5, <1>9, <2>1, <2>2, <2>3, <2>4 DEF Transition
<1>10. CASE Outside  BY <1>3, <1>10 DEF Outside, IntentMoves, RefundMoves
<1>11. CASE UNCHANGED vars  BY <1>3, <1>11 DEF vars
<1>. QED  BY <1>1, <1>6, <1>7, <1>8, <1>9, <1>10, <1>11 DEF Next, Abort

LEMMA StepReports ==
  ASSUME Typed, ReportsHold, [Next]_vars
  PROVE  ReportsHold'
BY EmittedReports, RequestReports DEF ReportsHold, Truthful

--------------------------------------------------------------------------------
(* Money comes before PAID. *)

LEMMA HistoryGrows ==
  ASSUME [Next]_vars
  PROVE  cash \subseteq cash' /\ legacy' = legacy
<1>1. ASSUME NEW s \in Slots, Transition(s)  PROVE UNCHANGED history
  BY <1>1 DEF Transition, ReadTransition, ReadPayment, ReadAttempt, CancelIntent, CommitConfirm,
              CommitFulfil, CommitCancel, CommitReopen, DeleteOrder
<1>2. ASSUME NEW s \in Slots, Collection(s)  PROVE cash \subseteq cash' /\ legacy' = legacy
  BY <1>2 DEF Collection, ReadLegacy, CommitLegacy, ReadCard, CommitCard, ReadPoll,
              RetrieveIntent, ReadAgain, CommitPoll, ReadCash, CommitCash, history
<1>3. ASSUME NEW s \in Slots, Refunding(s)  PROVE cash' = cash /\ legacy' = legacy
  BY <1>3 DEF Refunding, ReadRefund, ReadOrderAgain, ReadRefundAgain, CommitRefundCash,
              CommitRefundRequested, CreateRefund, ReplayRefund, RefundUnavailable, CommitRefundFailed,
              CommitRefundCard, history
<1>4. ASSUME NEW s \in Slots, Webhook(s)  PROVE UNCHANGED history
  BY <1>4 DEF Webhook, IgnoreIntentEvent, ReadIntentEvent, CommitIntentEvent,
              IgnoreRefundEvent, ReadRefundEvent, CommitRefundEvent
<1>5. ASSUME Outside \/ \E s \in Slots : Abort(s)  PROVE UNCHANGED history
  BY <1>5 DEF Outside, IntentMoves, RefundMoves, Abort
<1>. QED  BY <1>1, <1>2, <1>3, <1>4, <1>5 DEF Next, vars, history

\* Money once taken is never un-taken: refunds are counted separately.
LEMMA MoneyStays ==
  ASSUME Typed, [Next]_vars, MoneyTaken
  PROVE  MoneyTaken'
BY HistoryGrows, FinalIsFinal DEF MoneyTaken, Final

\* Before money was taken nobody holds a report of success.
LEMMA NoSuccessSeen ==
  ASSUME Typed, ReportsHold, ~MoneyTaken, NEW s \in Slots,
         req[s].op \in WorksOnAttempt, req[s].att # 0
  PROVE  PaymentStatusOf(req[s].seen) # "PAID"
<1>1. req[s].att \in AttemptIds
  BY BoundsAssumption DEF Typed, TypeOK, Request, AttemptIds
<1>. QED  BY <1>1 DEF ReportsHold, MoneyTaken, PaymentStatusOf, Final

LEMMA NoPaidApplied ==
  ASSUME Typed, pay.status # "PAID", NEW p, NEW a, NEW was, NEW st,
         PaymentStatusOf(st) # "PAID", ApplyIntent(p, a, was, st)
  PROVE  pay'.status # "PAID"
<1>1. pay \in PaymentRow  BY DEF Typed, TypeOK
<1>2. pay' = pay \/ pay' = [pay EXCEPT !.method = "CARD", !.status = PaymentStatusOf(st)]
  BY DEF ApplyIntent
<1>. QED  BY <1>1, <1>2 DEF PaymentRow

LEMMA NoPaidInserted ==
  ASSUME Typed, pay.status # "PAID", NEW p \in PaymentRow, p.status # "PAID", InsertIfNew(p)
  PROVE  pay'.status # "PAID"
BY DEF InsertIfNew, Write, Stored, PaymentRow

\* A request that neither found a PAID payment nor passed the check that asks for one.
Unpaid(r) == r.pay.status # "PAID" /\ (r.op = "FULFILLED" => r.at = "payment")

LEMMA UnpaidReads ==
  ASSUME Typed, NoPaidBeforeMoney, ~MoneyTaken
  PROVE  /\ Unpaid(Idle)
         /\ EffectivePayment.status # "PAID"
         /\ EffectivePayment \in PaymentRow /\ pay \in PaymentRow /\ NoPayment \in PaymentRow
<1>1. EffectivePayment.status # "PAID"
  BY EffectiveTyped DEF NoPaidBeforeMoney, Typed, TypeOK
<1>. QED  BY <1>1, IdleFits, EffectiveTyped DEF Unpaid, Idle, NoPayment, Typed, TypeOK

LEMMA UnpaidRequests ==
  ASSUME Typed, NoPaidBeforeMoney, ~MoneyTaken, [Next]_vars
  PROVE  \A t \in Slots : Unpaid(req'[t])
<1>0. /\ req \in [Slots -> Request]
      /\ \A t \in Slots : Unpaid(req[t]) /\ req[t] \in Request
  BY DEF Typed, TypeOK, NoPaidBeforeMoney, Unpaid
<1>1. ASSUME NEW s \in Slots, NEW r, Unpaid(r), Begin(s, r)
      PROVE  \A t \in Slots : Unpaid(req'[t])
  <2>1. \A t \in Slots : req'[t] = IF t = s THEN r ELSE req[t]  BY <1>0, <1>1 DEF Begin
  <2>. QED  BY <1>0, <1>1, <2>1
<1>2. ASSUME NEW s \in Slots, Finish(s)
      PROVE  \A t \in Slots : Unpaid(req'[t])
  BY <1>1, <1>2, UnpaidReads DEF Finish, Begin
<1>3. ASSUME UNCHANGED req
      PROVE  \A t \in Slots : Unpaid(req'[t])
  BY <1>0, <1>3
<1>only. ASSUME NEW s \in Slots, \A t \in Slots : t # s => req'[t] = req[t], Unpaid(req'[s])
       PROVE  \A t \in Slots : Unpaid(req'[t])
  BY <1>0, <1>only
<1>4. ASSUME NEW s \in Slots, NEW to \in OrderStatus, ReadTransition(s, to)
      PROVE  \A t \in Slots : Unpaid(req'[t])
  <2>1. /\ \A t \in Slots : t # s => req'[t] = req[t]
        /\ req'[s].op = to /\ req'[s].pay \in {EffectivePayment, NoPayment}
        /\ to = "FULFILLED" => req'[s].at = "payment"
    BY <1>0, <1>4 DEF ReadTransition, Idle, Begin
  <2>. QED  BY <1>only, <2>1, UnpaidReads DEF Unpaid, NoPayment
<1>5. ASSUME NEW s \in Slots, NEW at, NEW st, req[s].op # "FULFILLED",
             Begin(s, [req[s] EXCEPT !.at = at, !.seen = st])
      PROVE  \A t \in Slots : Unpaid(req'[t])
  <2>1. Unpaid([req[s] EXCEPT !.at = at, !.seen = st])  BY <1>0, <1>5 DEF Unpaid, Request
  <2>. QED  BY <1>1, <1>5, <2>1
<1>6. ASSUME NEW s \in Slots, NEW at, req[s].op # "FULFILLED", Begin(s, [req[s] EXCEPT !.at = at])
      PROVE  \A t \in Slots : Unpaid(req'[t])
  <2>1. Unpaid([req[s] EXCEPT !.at = at])  BY <1>0, <1>6 DEF Unpaid, Request
  <2>. QED  BY <1>1, <1>6, <2>1
<1>7. ASSUME NEW s \in Slots, Transition(s)
      PROVE  \A t \in Slots : Unpaid(req'[t])
  <2>1. CASE CommitConfirm(s) \/ CommitFulfil(s) \/ CommitCancel(s) \/ CommitReopen(s)
    BY <1>2, <2>1 DEF CommitConfirm, CommitFulfil, CommitCancel, CommitReopen
  <2>2. CASE DeleteOrder(s)  BY <1>3, <2>2 DEF DeleteOrder
  <2>3. CASE CancelIntent(s)  BY <1>5, <2>3 DEF CancelIntent
  <2>4. CASE ReadPayment(s)
    <3>1. Reread(req[s]) \in {req[s].pay, pay}  BY DEF Reread
    <3>2. req[s].op # "FULFILLED" /\ Reread(req[s]).status # "PAID"
      BY <1>0, <2>4, <3>1 DEF ReadPayment, Permits, CanFulfil, Unpaid, NoPaidBeforeMoney
    <3>3. /\ \A t \in Slots : t # s => req'[t] = req[t]
          /\ req'[s].op = req[s].op /\ req'[s].pay = Reread(req[s])
      BY <1>0, <2>4 DEF ReadPayment, Request, Begin
    <3>. QED  BY <1>only, <3>2, <3>3 DEF Unpaid
  <2>5. CASE ReadAttempt(s)
    <3>1. /\ \A t \in Slots : t # s => req'[t] = req[t]
          /\ req'[s].op # "FULFILLED" /\ req'[s].pay = pay
      BY <2>5, AttemptRead
    <3>. QED  BY <1>only, <3>1 DEF Unpaid, NoPaidBeforeMoney
  <2>. QED  BY <1>4, <1>7, <2>1, <2>2, <2>3, <2>4, <2>5 DEF Transition
<1>8. ASSUME NEW s \in Slots, Collection(s)
      PROVE  \A t \in Slots : Unpaid(req'[t])
  <2>1. CASE CommitLegacy(s) \/ CommitCard(s) \/ CommitPoll(s) \/ CommitCash(s)
    BY <1>2, <2>1 DEF CommitLegacy, CommitCard, CommitPoll, CommitCash
  <2>2. CASE ReadLegacy(s) \/ ReadCard(s) \/ ReadCash(s) \/ ReadPoll(s)
    <3>1. /\ \A t \in Slots : t # s => req'[t] = req[t]
          /\ req'[s].op # "FULFILLED" /\ req'[s].pay \in {EffectivePayment, pay}
      BY <1>0, <2>2 DEF ReadLegacy, ReadCard, ReadCash, ReadPoll, Idle, Begin
    <3>. QED  BY <1>only, <3>1, UnpaidReads DEF Unpaid, NoPaidBeforeMoney
  <2>3. CASE RetrieveIntent(s)  BY <1>5, <2>3 DEF RetrieveIntent, At
  <2>4. CASE ReadAgain(s)
    <3> DEFINE r == [req[s] EXCEPT !.at = "commit", !.pay = pay, !.was = attempt[req[s].att]]
    <3>1. Begin(s, r)  BY <2>4 DEF ReadAgain
    <3>2. Unpaid(r)  BY <1>0, <2>4 DEF ReadAgain, Unpaid, Request, NoPaidBeforeMoney
    <3>. QED  BY <1>1, <3>1, <3>2
  <2>. QED  BY <1>8, <2>1, <2>2, <2>3, <2>4 DEF Collection
<1>9. ASSUME NEW s \in Slots, Refunding(s)
      PROVE  \A t \in Slots : Unpaid(req'[t])
  <2>1. CASE CommitRefundCash(s) \/ CommitRefundFailed(s) \/ CommitRefundCard(s)
    BY <1>2, <2>1 DEF CommitRefundCash, CommitRefundFailed, CommitRefundCard
  <2>2. CASE ReadRefund(s)
    BY <2>2 DEF ReadRefund, CanRefund, NoPaidBeforeMoney
  <2>3. CASE ReadRefundAgain(s)
    <3> DEFINE r == [req[s] EXCEPT !.at = "commit", !.pay = pay]
    <3>1. Begin(s, r)  BY <2>3 DEF ReadRefundAgain
    <3>2. Unpaid(r)  BY <1>0, <2>3 DEF ReadRefundAgain, Unpaid, Request, NoPaidBeforeMoney
    <3>. QED  BY <1>1, <3>1, <3>2
  <2>4. CASE CommitRefundRequested(s) \/ RefundUnavailable(s)
    BY <1>6, <2>4 DEF CommitRefundRequested, RefundUnavailable, At
  <2>5. ASSUME NEW st \in StripeRefundStatus, CreateRefund(s, st)
        PROVE  \A t \in Slots : Unpaid(req'[t])
    BY <1>5, <1>6, <2>5 DEF CreateRefund, At
  <2>6. CASE ReplayRefund(s)  BY <1>5, <1>6, <2>6 DEF ReplayRefund, At
  <2>7. CASE ReadOrderAgain(s)
    <3> DEFINE r == [req[s] EXCEPT !.at = "payment", !.order = order]
    <3>1. Begin(s, r)  BY <2>7 DEF ReadOrderAgain
    <3>2. Unpaid(r)  BY <1>0, <2>7 DEF ReadOrderAgain, Unpaid, Request
    <3>. QED  BY <1>1, <3>1, <3>2
  <2>. QED  BY <1>9, <2>1, <2>2, <2>3, <2>4, <2>5, <2>6, <2>7 DEF Refunding
<1>10. ASSUME NEW s \in Slots, Webhook(s)
       PROVE  \A t \in Slots : Unpaid(req'[t])
  <2>1. CASE IgnoreIntentEvent(s) \/ IgnoreRefundEvent(s)
    BY <1>3, <2>1 DEF IgnoreIntentEvent, IgnoreRefundEvent
  <2>2. CASE CommitIntentEvent(s) \/ CommitRefundEvent(s)
    BY <1>2, <2>2 DEF CommitIntentEvent, CommitRefundEvent
  <2>3. CASE ReadIntentEvent(s) \/ ReadRefundEvent(s)
    <3>1. /\ \A t \in Slots : t # s => req'[t] = req[t]
          /\ req'[s].op # "FULFILLED" /\ req'[s].pay = pay
      BY <1>0, <2>3 DEF ReadIntentEvent, ReadRefundEvent, Idle, Begin
    <3>. QED  BY <1>only, <3>1 DEF Unpaid, NoPaidBeforeMoney
  <2>. QED  BY <1>10, <2>1, <2>2, <2>3 DEF Webhook
<1>11. CASE Outside  BY <1>3, <1>11 DEF Outside, IntentMoves, RefundMoves
<1>12. CASE UNCHANGED vars  BY <1>3, <1>12 DEF vars
<1>. QED  BY <1>2, <1>7, <1>8, <1>9, <1>10, <1>11, <1>12 DEF Next, Abort

LEMMA UnpaidRows ==
  ASSUME Typed, ReportsHold, NoPaidBeforeMoney, ~MoneyTaken, ~MoneyTaken', [Next]_vars
  PROVE  pay'.status # "PAID" /\ order' # "FULFILLED"
<1>0. /\ pay \in PaymentRow /\ pay.status # "PAID" /\ order # "FULFILLED"
      /\ NoPayment.status # "PAID"
      /\ \A t \in Slots : /\ req[t].pay \in PaymentRow /\ req[t].pay.status # "PAID"
                          /\ req[t].op = "FULFILLED" => req[t].at = "payment"
  BY DEF Typed, TypeOK, Request, NoPaidBeforeMoney, NoPayment
<1>1. ASSUME UNCHANGED <<pay, order>>
      PROVE  pay'.status # "PAID" /\ order' # "FULFILLED"
  BY <1>0, <1>1
<1>2. ASSUME NEW s \in Slots, Transition(s)
      PROVE  pay'.status # "PAID" /\ order' # "FULFILLED"
  <2>1. CASE \/ CancelIntent(s) \/ ReadPayment(s) \/ ReadAttempt(s)
             \/ \E to \in OrderStatus : ReadTransition(s, to)
    BY <1>1, <2>1 DEF CancelIntent, ReadPayment, ReadAttempt, ReadTransition, database
  <2>2. CASE CommitConfirm(s)
    BY <1>0, <2>2 DEF CommitConfirm, CreatePaymentForConfirmedOrder, NoPayment
  <2>3. CASE CommitFulfil(s)
    BY <1>0, <2>3 DEF CommitFulfil, At
  <2>4. CASE CommitCancel(s)
    <3>1. order' # "FULFILLED"  BY <2>4 DEF CommitCancel
    <3>2. CASE req[s].att = 0
      BY <1>0, <2>4, <3>1, <3>2, NoPaidInserted DEF CommitCancel
    <3>3. CASE req[s].att # 0
      <4>1. PaymentStatusOf(req[s].seen) # "PAID"
        BY <2>4, <3>3, NoSuccessSeen DEF CommitCancel, At, WorksOnAttempt
      <4>. QED  BY <1>0, <2>4, <3>1, <3>3, <4>1, NoPaidApplied DEF CommitCancel
    <3>. QED  BY <3>2, <3>3
  <2>5. CASE CommitReopen(s)
    BY <1>0, <2>5 DEF CommitReopen, DeletePaymentForReopen
  <2>6. CASE DeleteOrder(s)
    BY <1>0, <2>6 DEF DeleteOrder
  <2>. QED  BY <1>2, <2>1, <2>2, <2>3, <2>4, <2>5, <2>6 DEF Transition
<1>3. ASSUME NEW s \in Slots, Collection(s)
      PROVE  pay'.status # "PAID" /\ order' # "FULFILLED"
  <2>1. CASE \/ ReadLegacy(s) \/ ReadCard(s) \/ ReadPoll(s) \/ RetrieveIntent(s)
             \/ ReadAgain(s) \/ ReadCash(s)
    BY <1>1, <2>1 DEF ReadLegacy, ReadCard, ReadPoll, RetrieveIntent, ReadAgain, ReadCash,
                      database
  <2>2. CASE CommitLegacy(s)
    BY <1>0, <2>2, NoPaidInserted DEF CommitLegacy
  <2>3. CASE CommitCard(s)
    <3> DEFINE p == req[s].pay
               q == Stored(p)
    <3>1. p \in PaymentRow /\ payments \in Nat
      BY <1>0, BoundsAssumption DEF Typed, TypeOK
    <3>2. pay' = [q EXCEPT !.method = "CARD", !.status = "PENDING"] /\ order' = order
      BY <2>3 DEF CommitCard, Write
    <3>3. q = pay \/ q = [p EXCEPT !.id = payments + 1]  BY DEF Stored
    <3>4. "status" \in DOMAIN q
      <4> HIDE DEF p, q
      <4>. QED  BY <1>0, <3>1, <3>3 DEF PaymentRow
    <3> HIDE DEF q
    <3>. QED  BY <1>0, <3>2, <3>4
  <2>4. CASE CommitPoll(s)
    <3>1. PaymentStatusOf(req[s].seen) # "PAID"
      BY <2>4, NoSuccessSeen, BoundsAssumption
         DEF CommitPoll, At, WorksOnAttempt, Typed, Fits, AttemptIds
    <3>. QED  BY <1>0, <2>4, <3>1, NoPaidApplied DEF CommitPoll
  <2>5. CASE CommitCash(s)
    BY <2>5 DEF CommitCash, MoneyTaken
  <2>. QED  BY <1>3, <2>1, <2>2, <2>3, <2>4, <2>5 DEF Collection
<1>4. ASSUME NEW s \in Slots, NEW o, NEW p, NEW st, p.id \in PaymentIds, ApplyRefund(o, p, st)
      PROVE  pay'.status # "PAID" /\ order' # "FULFILLED"
  BY <1>0, <1>4, ApplyRefundRows
<1>5. ASSUME NEW r \in RefundStatus, pay' = [pay EXCEPT !.refund = r], order' \in {order, "CANCELLED"}
      PROVE  pay'.status # "PAID" /\ order' # "FULFILLED"
  BY <1>0, <1>5 DEF PaymentRow
<1>6. ASSUME NEW s \in Slots, Refunding(s)
      PROVE  pay'.status # "PAID" /\ order' # "FULFILLED"
  <2>1. CASE \/ ReadRefund(s) \/ ReadOrderAgain(s) \/ ReadRefundAgain(s) \/ ReplayRefund(s)
             \/ RefundUnavailable(s) \/ \E st \in StripeRefundStatus : CreateRefund(s, st)
    BY <1>1, <2>1 DEF ReadRefund, ReadOrderAgain, ReadRefundAgain, ReplayRefund, RefundUnavailable,
                      CreateRefund, database
  <2>2. CASE CommitRefundCash(s) \/ CommitRefundRequested(s) \/ CommitRefundFailed(s)
    BY <1>5, <2>2 DEF CommitRefundCash, CommitRefundRequested, CommitRefundFailed, RefundStatus
  <2>3. CASE CommitRefundCard(s)
    <3>1. req[s].pay.id \in PaymentIds
      BY <2>3 DEF CommitRefundCard, At, Typed, Fits, WorksOnRefund
    <3>. QED  BY <1>4, <2>3, <3>1 DEF CommitRefundCard
  <2>. QED  BY <1>6, <2>1, <2>2, <2>3 DEF Refunding
<1>7. ASSUME NEW s \in Slots, Webhook(s)
      PROVE  pay'.status # "PAID" /\ order' # "FULFILLED"
  <2>1. CASE IgnoreIntentEvent(s) \/ ReadIntentEvent(s) \/ IgnoreRefundEvent(s) \/ ReadRefundEvent(s)
    BY <1>1, <2>1 DEF IgnoreIntentEvent, ReadIntentEvent, IgnoreRefundEvent, ReadRefundEvent,
                      database
  <2>2. CASE CommitIntentEvent(s)
    <3>1. PaymentStatusOf(req[s].seen) # "PAID"
      BY <2>2, NoSuccessSeen, BoundsAssumption
         DEF CommitIntentEvent, At, WorksOnAttempt, Typed, Fits, AttemptIds
    <3>. QED  BY <1>0, <2>2, <3>1, NoPaidApplied DEF CommitIntentEvent
  <2>3. CASE CommitRefundEvent(s)
    <3>1. req[s].pay.id \in PaymentIds
      BY <2>3 DEF CommitRefundEvent, At, Typed, Fits, WorksOnRefund
    <3>. QED  BY <1>4, <2>3, <3>1 DEF CommitRefundEvent
  <2>. QED  BY <1>7, <2>1, <2>2, <2>3 DEF Webhook
<1>8. ASSUME UNCHANGED vars \/ Outside \/ \E s \in Slots : Abort(s)
      PROVE  pay'.status # "PAID" /\ order' # "FULFILLED"
  BY <1>1, <1>8 DEF vars, database, Outside, IntentMoves, RefundMoves, Abort
<1>. QED  BY <1>2, <1>3, <1>6, <1>7, <1>8 DEF Next

LEMMA StepMoney ==
  ASSUME Typed, ReportsHold, MoneyFirst, [Next]_vars
  PROVE  MoneyFirst'
BY MoneyStays, UnpaidRequests, UnpaidRows DEF MoneyFirst, NoPaidBeforeMoney, Unpaid

--------------------------------------------------------------------------------
(* The theorems. *)

Sound == Typed /\ ReportsHold /\ MoneyFirst

LEMMA InitSound == Init => Sound
<1>. SUFFICES ASSUME Init PROVE Sound  OBVIOUS
<1>1. ReportsHold
  BY DEF Init, ReportsHold, Idle, WorksOnAttempt
<1>2. MoneyFirst
  BY DEF Init, MoneyFirst, MoneyTaken, NoPaidBeforeMoney, NoPayment, Idle
<1>. QED  BY <1>1, <1>2, InitTyped DEF Sound

LEMMA StepSound ==
  ASSUME Sound, [Next]_vars
  PROVE  Sound'
BY StepTyped, StepReports, StepMoney DEF Sound

\* The payment says PAID only after money was taken, in whatever order requests, polls
\* and Stripe's events commit (applyPaymentIntentStateTx, markCashPaid, the backfill).
THEOREM PaidNeedsMoney == Spec => []PaidIsBacked
<1>1. Sound => PaidIsBacked
  BY DEF Sound, MoneyFirst, NoPaidBeforeMoney, PaidIsBacked
<1>. QED  BY <1>1, InitSound, StepSound, PTL DEF Spec

\* No interleaving fulfils an order that brought no money, although the fulfilment
\* commits on a payment read earlier (transitionStatus).
THEOREM FulfilmentNeedsMoney == Spec => []FulfilledIsBacked
<1>1. Sound => FulfilledIsBacked
  BY DEF Sound, MoneyFirst, NoPaidBeforeMoney, FulfilledIsBacked
<1>. QED  BY <1>1, InitSound, StepSound, PTL DEF Spec

--------------------------------------------------------------------------------
(* Attempts tell the truth. *)

\* What an attempt row may claim about its intent.
Claims(status, state) ==
  (status = "SUCCEEDED" => state = "succeeded") /\ (status = "CANCELED" => state = "canceled")

\* The attempt takes its status from what the request saw.
LEMMA TruthApplied ==
  ASSUME Typed, ReportsHold, NEW s \in Slots, NEW p, NEW was,
         req[s].op \in WorksOnAttempt, req[s].att # 0,
         ApplyIntent(p, req[s].att, was, req[s].seen), NEW a \in AttemptIds
  PROVE  attempt'[a] = attempt[a] \/ Claims(attempt'[a], intent[a])
<1> DEFINE st == AttemptStatusOf(req[s].seen)
<1>0. attempt \in [AttemptIds -> AttemptStatus \cup {"NONE"}]  BY DEF Typed, TypeOK
<1>1. attempt' = attempt \/ attempt' = [attempt EXCEPT ![req[s].att] = st]
  BY DEF ApplyIntent
<1>2. Claims(st, intent[req[s].att])
  BY DEF Claims, AttemptStatusOf, ReportsHold, Final
<1> HIDE DEF st
<1>. QED  BY <1>0, <1>1, <1>2

LEMMA AttemptMoves ==
  ASSUME Typed, ReportsHold, [Next]_vars, NEW a \in AttemptIds
  PROVE  \/ attempt'[a] \in {attempt[a], "NONE", "PENDING"}
         \/ Claims(attempt'[a], intent[a])
<1>1. ASSUME UNCHANGED attempt  PROVE attempt'[a] \in {attempt[a], "NONE", "PENDING"}
  BY <1>1
<1>2. ASSUME NEW s \in Slots, Transition(s)
      PROVE  attempt'[a] \in {attempt[a], "NONE", "PENDING"} \/ Claims(attempt'[a], intent[a])
  <2>1. CASE CommitCancel(s)
    <3>1. req[s].att # 0
            => ApplyIntent(req[s].pay, req[s].att, req[s].was, req[s].seen)
      BY <2>1 DEF CommitCancel
    <3>2. req[s].att = 0 => UNCHANGED attempt  BY <2>1 DEF CommitCancel
    <3>3. req[s].op \in WorksOnAttempt  BY <2>1 DEF CommitCancel, At, WorksOnAttempt
    <3>. QED  BY <1>1, <3>1, <3>2, <3>3, TruthApplied
  <2>2. CASE CommitReopen(s) \/ DeleteOrder(s)
    BY <2>2 DEF CommitReopen, DeletePaymentForReopen, DeleteOrder
  <2>. QED  BY <1>1, <1>2, <2>1, <2>2
            DEF Transition, ReadTransition, ReadPayment, ReadAttempt, CancelIntent, CommitConfirm,
                CommitFulfil, database
<1>3. ASSUME NEW s \in Slots, Collection(s)
      PROVE  attempt'[a] \in {attempt[a], "NONE", "PENDING"} \/ Claims(attempt'[a], intent[a])
  <2>1. CASE CommitPoll(s)
    <3>1. ApplyIntent(req[s].pay, req[s].att, req[s].was, req[s].seen)
      BY <2>1 DEF CommitPoll
    <3>2. req[s].op \in WorksOnAttempt /\ req[s].att # 0
      BY <2>1, BoundsAssumption DEF CommitPoll, At, WorksOnAttempt, Typed, Fits, AttemptIds
    <3>. QED  BY <3>1, <3>2, TruthApplied
  <2>2. CASE CommitCard(s)
    <3>1. attempt \in [AttemptIds -> AttemptStatus \cup {"NONE"}]  BY DEF Typed, TypeOK
    <3>. QED  BY <2>2, <3>1 DEF CommitCard
  <2>. QED  BY <1>1, <1>3, <2>1, <2>2
            DEF Collection, ReadLegacy, CommitLegacy, ReadCard, ReadPoll, RetrieveIntent,
                ReadAgain, ReadCash, CommitCash, database
<1>4. ASSUME NEW s \in Slots, Refunding(s)  PROVE UNCHANGED attempt
  BY <1>4 DEF Refunding, ReadRefund, ReadOrderAgain, ReadRefundAgain, CommitRefundCash,
              CommitRefundRequested, CreateRefund, ReplayRefund, RefundUnavailable,
              CommitRefundFailed, CommitRefundCard, database
<1>5. ASSUME NEW s \in Slots, Webhook(s)
      PROVE  attempt'[a] \in {attempt[a], "NONE", "PENDING"} \/ Claims(attempt'[a], intent[a])
  <2>1. CASE CommitIntentEvent(s)
    <3>1. ApplyIntent(req[s].pay, req[s].att, req[s].was, req[s].seen)
      BY <2>1 DEF CommitIntentEvent
    <3>2. req[s].op \in WorksOnAttempt /\ req[s].att # 0
      BY <2>1, BoundsAssumption DEF CommitIntentEvent, At, WorksOnAttempt, Typed, Fits, AttemptIds
    <3>. QED  BY <3>1, <3>2, TruthApplied
  <2>. QED  BY <1>1, <1>5, <2>1
            DEF Webhook, IgnoreIntentEvent, ReadIntentEvent, IgnoreRefundEvent,
                ReadRefundEvent, CommitRefundEvent, database
<1>6. ASSUME UNCHANGED vars \/ Outside \/ \E s \in Slots : Abort(s)  PROVE UNCHANGED attempt
  BY <1>6 DEF vars, database, Outside, IntentMoves, RefundMoves, Abort
<1>. QED  BY <1>1, <1>2, <1>3, <1>4, <1>5, <1>6 DEF Next

LEMMA StepTruth ==
  ASSUME Sound, AttemptTellsTruth, [Next]_vars
  PROVE  AttemptTellsTruth'
<1>1. ASSUME NEW a \in AttemptIds  PROVE Claims(attempt'[a], intent'[a])
  BY AttemptMoves, FinalIsFinal DEF Sound, AttemptTellsTruth, Claims, Final
<1>. QED  BY <1>1 DEF AttemptTellsTruth, Claims

\* No attempt row claims success or cancellation that Stripe does not confirm, whichever
\* request or event wrote it last (applyPaymentIntentStateTx).
THEOREM AttemptsTellTruth == Spec => []AttemptTellsTruth
<1>1. Init => AttemptTellsTruth
  BY DEF Init, AttemptTellsTruth
<1>. QED  BY <1>1, StepTruth, InitSound, StepSound, PTL DEF Spec

--------------------------------------------------------------------------------
(* Refunds. *)

\* A success ever reported for a refund, queued or read, is still its status.
RefundReportsHold ==
  /\ \A id \in PaymentIds :
       /\ refund[id].first = "succeeded" => refund[id].now = "succeeded"
       /\ \A n \in 1..Len(refundEmitted[id]) :
            refundEmitted[id][n] = "succeeded" => refund[id].now = "succeeded"
  /\ \A s \in Slots :
       req[s].op \in WorksOnRefund /\ req[s].seen = "succeeded"
         => refund[req[s].pay.id].now = "succeeded"

\* The refund of payment row p is real if its row claims it.
Backed(p) == p.refund = "REFUNDED" => cashBack[p.id] > 0 \/ refund[p.id].now = "succeeded"

\* Which steps move a refund at Stripe.
LEMMA RefundsMoveIn ==
  ASSUME [Next]_vars
  PROVE  \/ UNCHANGED <<refund, refundEmitted>>
         \/ \E s \in Slots, st \in StripeRefundStatus : CreateRefund(s, st)
         \/ \E id \in PaymentIds, to \in StripeRefundStatus : RefundMoves(id, to)
<1>1. ASSUME NEW s \in Slots, Transition(s)  PROVE UNCHANGED <<refund, refundEmitted>>
  BY <1>1 DEF Transition, ReadTransition, ReadPayment, ReadAttempt, CancelIntent, CommitConfirm,
              CommitFulfil, CommitCancel, CommitReopen, DeleteOrder, stripe
<1>2. ASSUME NEW s \in Slots, Collection(s)  PROVE UNCHANGED <<refund, refundEmitted>>
  BY <1>2 DEF Collection, ReadLegacy, CommitLegacy, ReadCard, CommitCard, ReadPoll,
              RetrieveIntent, ReadAgain, CommitPoll, ReadCash, CommitCash, stripe
<1>3. ASSUME NEW s \in Slots, Refunding(s)
      PROVE  \/ UNCHANGED <<refund, refundEmitted>>
             \/ \E st \in StripeRefundStatus : CreateRefund(s, st)
  BY <1>3 DEF Refunding, ReadRefund, ReadOrderAgain, ReadRefundAgain, CommitRefundCash,
              CommitRefundRequested, ReplayRefund, RefundUnavailable, CommitRefundFailed,
              CommitRefundCard, stripe
<1>4. ASSUME NEW s \in Slots, Webhook(s)  PROVE UNCHANGED <<refund, refundEmitted>>
  BY <1>4 DEF Webhook, IgnoreIntentEvent, ReadIntentEvent, CommitIntentEvent,
              IgnoreRefundEvent, ReadRefundEvent, CommitRefundEvent, stripe
<1>5. ASSUME NEW a \in AttemptIds, NEW to \in IntentStatus, IntentMoves(a, to)
      PROVE  UNCHANGED <<refund, refundEmitted>>
  BY <1>5 DEF IntentMoves
<1>6. ASSUME UNCHANGED vars \/ \E s \in Slots : Abort(s)
      PROVE  UNCHANGED <<refund, refundEmitted>>
  BY <1>6 DEF vars, stripe, Abort
<1>. QED  BY <1>1, <1>2, <1>3, <1>4, <1>5, <1>6 DEF Next, Outside

\* A completed refund stays completed; each step announces at most the status it sets.
LEMMA CompletedStays ==
  ASSUME Typed, RefundReportsHold, [Next]_vars, NEW id \in PaymentIds
  PROVE  /\ refund[id].now = "succeeded" => refund'[id].now = "succeeded"
         /\ refund'[id].first = "succeeded" => refund'[id].now = "succeeded"
         /\ refundEmitted'[id] \in {refundEmitted[id], Append(refundEmitted[id], refund'[id].now)}
<1>0. /\ refund \in [PaymentIds -> [now: StripeRefundStatus \cup {"none"},
                                    first: StripeRefundStatus \cup {"none"},
                                    att: 0..MaxAttempts]]
      /\ refundEmitted \in [PaymentIds -> Seq(StripeRefundStatus)]
  BY DEF Typed, TypeOK
<1>1. CASE UNCHANGED <<refund, refundEmitted>>
  BY <1>1 DEF RefundReportsHold
<1>2. ASSUME NEW s \in Slots, NEW st \in StripeRefundStatus, CreateRefund(s, st)
      PROVE  /\ refund[id].now = "succeeded" => refund'[id].now = "succeeded"
             /\ refund'[id].first = "succeeded" => refund'[id].now = "succeeded"
             /\ refundEmitted'[id] \in {refundEmitted[id],
                                        Append(refundEmitted[id], refund'[id].now)}
  <2>1. PICK r : /\ r.now = st /\ r.first = st
                 /\ refund' = [refund EXCEPT ![req[s].pay.id] = r]
    BY <1>2 DEF CreateRefund
  <2>2. /\ refund[req[s].pay.id].now = "none"
        /\ refundEmitted' = [refundEmitted EXCEPT ![req[s].pay.id] = Append(@, st)]
    BY <1>2 DEF CreateRefund, NoRefund
  <2>. QED  BY <1>0, <2>1, <2>2 DEF RefundReportsHold
<1>3. ASSUME NEW p \in PaymentIds, NEW to \in StripeRefundStatus, RefundMoves(p, to)
      PROVE  /\ refund[id].now = "succeeded" => refund'[id].now = "succeeded"
             /\ refund'[id].first = "succeeded" => refund'[id].now = "succeeded"
             /\ refundEmitted'[id] \in {refundEmitted[id],
                                        Append(refundEmitted[id], refund'[id].now)}
  <2>1. refund[p].now = "pending" /\ refund' = [refund EXCEPT ![p].now = to]
    BY <1>3 DEF RefundMoves
  <2>2. refundEmitted' = [refundEmitted EXCEPT ![p] = Append(@, to)]
    BY <1>3 DEF RefundMoves
  <2>. QED  BY <1>0, <2>1, <2>2 DEF RefundReportsHold
<1>. QED  BY <1>1, <1>2, <1>3, RefundsMoveIn

\* What a request knows of a refund.
Reliable(r) == r.op \in WorksOnRefund /\ r.seen = "succeeded" => refund[r.pay.id].now = "succeeded"

\* A request keeps what it knows, and it keeps being so.
LEMMA KnownStays ==
  ASSUME Typed, RefundReportsHold, [Next]_vars, NEW s \in Slots, req'[s].op = req[s].op,
         req'[s].seen = req[s].seen, req'[s].pay.id = req[s].pay.id
  PROVE  Reliable(req[s])'
BY CompletedStays DEF Reliable, RefundReportsHold, Typed, Fits

LEMMA ReliableRequests ==
  ASSUME Typed, RefundReportsHold, [Next]_vars
  PROVE  \A t \in Slots : Reliable(req[t])'
<1>0. req \in [Slots -> Request] /\ \A t \in Slots : req[t] \in Request
  BY DEF Typed, TypeOK
<1>1. ASSUME NEW s \in Slots, \A t \in Slots : t # s => req'[t] = req[t], Reliable(req[s])'
      PROVE  \A t \in Slots : Reliable(req[t])'
  BY <1>1, KnownStays
<1>2. ASSUME NEW s \in Slots, \A t \in Slots : t # s => req'[t] = req[t],
             req'[s].op \notin WorksOnRefund \/ req'[s].seen = "none"
      PROVE  \A t \in Slots : Reliable(req[t])'
  BY <1>1, <1>2 DEF Reliable
<1>3. ASSUME UNCHANGED req
      PROVE  \A t \in Slots : Reliable(req[t])'
  BY <1>3, KnownStays
<1>4. ASSUME NEW s \in Slots, Finish(s)
      PROVE  \A t \in Slots : Reliable(req[t])'
  BY <1>0, <1>2, <1>4 DEF Finish, Idle
<1>5. ASSUME NEW s \in Slots, NEW at, Begin(s, [req[s] EXCEPT !.at = at])
      PROVE  \A t \in Slots : Reliable(req[t])'
  <2>1. /\ \A t \in Slots : t # s => req'[t] = req[t]
        /\ req'[s].op = req[s].op /\ req'[s].seen = req[s].seen /\ req'[s].pay = req[s].pay
    BY <1>0, <1>5 DEF Begin, Request
  <2>. QED  BY <1>1, <2>1, KnownStays
<1>6. ASSUME NEW s \in Slots, NEW at, NEW st, Begin(s, [req[s] EXCEPT !.at = at, !.seen = st]),
             st = "succeeded" => refund'[req[s].pay.id].now = "succeeded"
      PROVE  \A t \in Slots : Reliable(req[t])'
  <2>1. /\ \A t \in Slots : t # s => req'[t] = req[t]
        /\ req'[s].seen = st /\ req'[s].pay = req[s].pay
    BY <1>0, <1>6 DEF Begin, Request
  <2>. QED  BY <1>1, <1>6, <2>1 DEF Reliable
<1>7. ASSUME NEW s \in Slots, Transition(s)
      PROVE  \A t \in Slots : Reliable(req[t])'
  <2>1. CASE CommitConfirm(s) \/ CommitFulfil(s) \/ CommitCancel(s) \/ CommitReopen(s)
    BY <1>4, <2>1 DEF CommitConfirm, CommitFulfil, CommitCancel, CommitReopen
  <2>2. CASE DeleteOrder(s)  BY <1>3, <2>2 DEF DeleteOrder
  <2>3. ASSUME NEW to \in OrderStatus, ReadTransition(s, to)
        PROVE  \A t \in Slots : Reliable(req[t])'
    <3>1. (\A t \in Slots : t # s => req'[t] = req[t]) /\ req'[s].seen = "none"
      BY <1>0, <2>3 DEF ReadTransition, Begin, Idle
    <3>. QED  BY <1>2, <3>1
  <2>4. CASE CancelIntent(s)
    <3>1. PICK st : req' = [req EXCEPT ![s] = [req[s] EXCEPT !.at = "commit", !.seen = st]]
      BY <2>4 DEF CancelIntent, Begin
    <3>2. (\A t \in Slots : t # s => req'[t] = req[t]) /\ req'[s].op = req[s].op
      BY <1>0, <3>1 DEF Request
    <3>3. req[s].op \notin WorksOnRefund  BY <2>4 DEF CancelIntent, WorksOnRefund
    <3>. QED  BY <1>2, <3>2, <3>3
  <2>5. CASE ReadPayment(s)
    <3>1. /\ \A t \in Slots : t # s => req'[t] = req[t]
          /\ req'[s].op = req[s].op /\ req[s].op \notin WorksOnRefund
      BY <1>0, <2>5 DEF ReadPayment, Begin, Request, OrderStatus, WorksOnRefund
    <3>. QED  BY <1>2, <3>1
  <2>6. CASE ReadAttempt(s)
    <3>1. /\ \A t \in Slots : t # s => req'[t] = req[t]
          /\ req'[s].op \notin WorksOnRefund
      BY <2>6, AttemptRead DEF WorksOnRefund
    <3>. QED  BY <1>2, <3>1
  <2>. QED  BY <1>7, <2>1, <2>2, <2>3, <2>4, <2>5, <2>6 DEF Transition
<1>8. ASSUME NEW s \in Slots, Collection(s)
      PROVE  \A t \in Slots : Reliable(req[t])'
  <2>1. CASE CommitLegacy(s) \/ CommitCard(s) \/ CommitPoll(s) \/ CommitCash(s)
    BY <1>4, <2>1 DEF CommitLegacy, CommitCard, CommitPoll, CommitCash
  <2>2. CASE ReadLegacy(s) \/ ReadCard(s) \/ ReadCash(s) \/ ReadPoll(s)
    <3>1. (\A t \in Slots : t # s => req'[t] = req[t]) /\ req'[s].seen = "none"
      BY <1>0, <2>2 DEF ReadLegacy, ReadCard, ReadCash, ReadPoll, Begin, Idle
    <3>. QED  BY <1>2, <3>1
  <2>3. CASE RetrieveIntent(s) \/ ReadAgain(s)
    <3>1. (\A t \in Slots : t # s => req'[t] = req[t]) /\ req'[s].op = req[s].op
      <4>1. \/ req' = [req EXCEPT ![s] = [req[s] EXCEPT !.at = "fresh",
                                                       !.seen = intent[req[s].att]]]
            \/ req' = [req EXCEPT ![s] = [req[s] EXCEPT !.at = "commit", !.pay = pay,
                                                       !.was = attempt[req[s].att]]]
        BY <2>3 DEF RetrieveIntent, ReadAgain, Begin
      <4>2. req[s] \in Request  BY <1>0
      <4>3. PICK r : req' = [req EXCEPT ![s] = r] /\ r.op = req[s].op
        BY <4>1, <4>2 DEF Request
      <4>. QED  BY <1>0, <4>3
    <3>2. req[s].op \notin WorksOnRefund
      BY <2>3 DEF RetrieveIntent, ReadAgain, At, WorksOnRefund
    <3>. QED  BY <1>2, <3>1, <3>2
  <2>. QED  BY <1>8, <2>1, <2>2, <2>3 DEF Collection
<1>9. ASSUME NEW s \in Slots, Refunding(s)
      PROVE  \A t \in Slots : Reliable(req[t])'
  <2>1. CASE CommitRefundCash(s) \/ CommitRefundFailed(s) \/ CommitRefundCard(s)
    BY <1>4, <2>1 DEF CommitRefundCash, CommitRefundFailed, CommitRefundCard
  <2>2. CASE ReadRefund(s)
    <3>1. (\A t \in Slots : t # s => req'[t] = req[t]) /\ req'[s].seen = "none"
      BY <1>0, <2>2 DEF ReadRefund, Begin, Idle
    <3>. QED  BY <1>2, <3>1
  <2>3. CASE ReadRefundAgain(s)
    <3>1. /\ \A t \in Slots : t # s => req'[t] = req[t]
          /\ req'[s].op = req[s].op /\ req'[s].seen = req[s].seen /\ req'[s].pay = pay
      BY <1>0, <2>3 DEF ReadRefundAgain, Begin, Request
    <3>2. pay.id = req[s].pay.id  BY <2>3 DEF ReadRefundAgain
    <3>. QED  BY <1>1, <3>1, <3>2, KnownStays
  <2>4. CASE CommitRefundRequested(s) \/ RefundUnavailable(s)
    BY <1>5, <2>4 DEF CommitRefundRequested, RefundUnavailable
  <2>5. ASSUME NEW st \in StripeRefundStatus, CreateRefund(s, st)
        PROVE  \A t \in Slots : Reliable(req[t])'
    <3>1. req[s].pay.id \in PaymentIds
      BY <2>5 DEF CreateRefund, At, Typed, Fits, WorksOnRefund
    <3>2. refund'[req[s].pay.id].now = st
      BY <2>5, <3>1 DEF CreateRefund, Typed, TypeOK
    <3>. QED  BY <1>5, <1>6, <2>5, <3>2 DEF CreateRefund
  <2>6. CASE ReplayRefund(s)
    <3>1. req[s].pay.id \in PaymentIds
      BY <2>6 DEF ReplayRefund, At, Typed, Fits, WorksOnRefund
    <3>2. refund' = refund  BY <2>6 DEF ReplayRefund, stripe
    <3>. QED  BY <1>5, <1>6, <2>6, <3>1, <3>2 DEF ReplayRefund, RefundReportsHold
  <2>7. CASE ReadOrderAgain(s)
    <3>1. /\ \A t \in Slots : t # s => req'[t] = req[t]
          /\ req'[s].op = req[s].op /\ req'[s].seen = req[s].seen /\ req'[s].pay = req[s].pay
      BY <1>0, <2>7 DEF ReadOrderAgain, Begin, Request
    <3>. QED  BY <1>1, <3>1, KnownStays
  <2>. QED  BY <1>9, <2>1, <2>2, <2>3, <2>4, <2>5, <2>6, <2>7 DEF Refunding
<1>10. ASSUME NEW s \in Slots, Webhook(s)
       PROVE  \A t \in Slots : Reliable(req[t])'
  <2>1. CASE IgnoreIntentEvent(s) \/ IgnoreRefundEvent(s)
    BY <1>3, <2>1 DEF IgnoreIntentEvent, IgnoreRefundEvent
  <2>2. CASE CommitIntentEvent(s) \/ CommitRefundEvent(s)
    BY <1>4, <2>2 DEF CommitIntentEvent, CommitRefundEvent
  <2>3. CASE ReadIntentEvent(s)
    <3>1. (\A t \in Slots : t # s => req'[t] = req[t]) /\ req'[s].op = "intentEvent"
      BY <1>0, <2>3 DEF ReadIntentEvent, Begin, Idle
    <3>. QED  BY <1>2, <3>1 DEF WorksOnRefund
  <2>4. CASE ReadRefundEvent(s)
    <3>1. pay.id \in PaymentIds  BY <2>4, RowHasId DEF ReadRefundEvent, Typed
    <3>2. PICK n \in 1..Len(refundEmitted[pay.id]) :
            /\ \A t \in Slots : t # s => req'[t] = req[t]
            /\ req'[s].pay = pay /\ req'[s].seen = refundEmitted[pay.id][n]
      BY <1>0, <2>4 DEF ReadRefundEvent, Begin, Idle
    <3>3. refund' = refund  BY <2>4 DEF ReadRefundEvent, stripe
    <3>. QED  BY <1>1, <3>1, <3>2, <3>3 DEF Reliable, RefundReportsHold
  <2>. QED  BY <1>10, <2>1, <2>2, <2>3, <2>4 DEF Webhook
<1>11. CASE Outside  BY <1>3, <1>11 DEF Outside, IntentMoves, RefundMoves
<1>12. CASE UNCHANGED vars  BY <1>3, <1>12 DEF vars
<1>. QED  BY <1>4, <1>7, <1>8, <1>9, <1>10, <1>11, <1>12 DEF Next, Abort

LEMMA StepRefundReports ==
  ASSUME Typed, RefundReportsHold, [Next]_vars
  PROVE  RefundReportsHold'
<1>1. ASSUME NEW id \in PaymentIds, NEW n \in 1..Len(refundEmitted'[id]),
             refundEmitted'[id][n] = "succeeded"
      PROVE  refund'[id].now = "succeeded"
  <2>1. refundEmitted[id] \in Seq(StripeRefundStatus)  BY DEF Typed, TypeOK
  <2>2. CASE refundEmitted'[id] = refundEmitted[id]
    BY <1>1, <2>2, CompletedStays DEF RefundReportsHold
  <2>3. CASE refundEmitted'[id] = Append(refundEmitted[id], refund'[id].now)
    <3>1. CASE n = Len(refundEmitted[id]) + 1  BY <1>1, <2>1, <2>3, <3>1
    <3>2. CASE n # Len(refundEmitted[id]) + 1
      <4>1. n \in 1..Len(refundEmitted[id]) /\ refundEmitted'[id][n] = refundEmitted[id][n]
        BY <2>1, <2>3, <3>2
      <4>. QED  BY <1>1, <4>1, CompletedStays DEF RefundReportsHold
    <3>. QED  BY <3>1, <3>2
  <2>. QED  BY <2>2, <2>3, CompletedStays
<1>. QED  BY <1>1, CompletedStays, ReliableRequests DEF RefundReportsHold, Reliable

\* Cash is handed back by the commit of a cash refund, once.
LEMMA CashBackMovesIn ==
  ASSUME [Next]_vars
  PROVE  UNCHANGED cashBack \/ \E s \in Slots : CommitRefundCash(s)
<1>1. ASSUME NEW s \in Slots, Transition(s)  PROVE UNCHANGED cashBack
  BY <1>1 DEF Transition, ReadTransition, ReadPayment, ReadAttempt, CancelIntent, CommitConfirm,
              CommitFulfil, CommitCancel, CommitReopen, DeleteOrder, history
<1>2. ASSUME NEW s \in Slots, Collection(s)  PROVE UNCHANGED cashBack
  BY <1>2 DEF Collection, ReadLegacy, CommitLegacy, ReadCard, CommitCard, ReadPoll,
              RetrieveIntent, ReadAgain, CommitPoll, ReadCash, CommitCash, history
<1>3. ASSUME NEW s \in Slots, Refunding(s)  PROVE UNCHANGED cashBack \/ CommitRefundCash(s)
  BY <1>3 DEF Refunding, ReadRefund, ReadOrderAgain, ReadRefundAgain, CommitRefundRequested,
              CreateRefund, ReplayRefund, RefundUnavailable, CommitRefundFailed,
              CommitRefundCard, history
<1>4. ASSUME NEW s \in Slots, Webhook(s)  PROVE UNCHANGED cashBack
  BY <1>4 DEF Webhook, IgnoreIntentEvent, ReadIntentEvent, CommitIntentEvent,
              IgnoreRefundEvent, ReadRefundEvent, CommitRefundEvent, history
<1>5. ASSUME UNCHANGED vars \/ Outside \/ \E s \in Slots : Abort(s)  PROVE UNCHANGED cashBack
  BY <1>5 DEF vars, history, Outside, IntentMoves, RefundMoves, Abort
<1>. QED  BY <1>1, <1>2, <1>3, <1>4, <1>5 DEF Next

LEMMA CashBackGrows ==
  ASSUME Typed, [Next]_vars, NEW id \in PaymentIds, cashBack[id] > 0
  PROVE  cashBack'[id] > 0
<1>1. cashBack \in [PaymentIds -> Nat]  BY DEF Typed, TypeOK
<1>2. ASSUME NEW s \in Slots, CommitRefundCash(s)  PROVE cashBack'[id] > 0
  BY <1>1, <1>2 DEF CommitRefundCash
<1>. QED  BY <1>2, CashBackMovesIn

\* A row that a step leaves refunded was so before, or the refund is real by then.
Refunded == pay'.id = pay.id /\ pay.refund = "REFUNDED"
Real     == cashBack'[pay'.id] > 0 \/ refund'[pay'.id].now = "succeeded"

LEMMA RefundApplied ==
  ASSUME Typed, RefundReportsHold, NEW s \in Slots, NEW o, UNCHANGED refund,
         req[s].op \in WorksOnRefund, ApplyRefund(o, req[s].pay, req[s].seen),
         pay'.refund = "REFUNDED"
  PROVE  Refunded \/ Real
<1>1. CASE pay' = pay  BY <1>1 DEF Refunded
<1>2. CASE /\ pay.id = req[s].pay.id
           /\ pay' = [pay EXCEPT !.refund = RefundStatusOf(req[s].seen)]
  <2>1. pay \in PaymentRow  BY DEF Typed, TypeOK
  <2>2. pay'.id = req[s].pay.id /\ RefundStatusOf(req[s].seen) = "REFUNDED"
    BY <1>2, <2>1 DEF PaymentRow
  <2>3. req[s].seen = "succeeded"  BY <2>2 DEF RefundStatusOf
  <2>. QED  BY <2>2, <2>3 DEF RefundReportsHold, Real
<1>. QED  BY <1>1, <1>2 DEF ApplyRefund

LEMMA CollectedRefund ==
  ASSUME Typed, NEW p \in PaymentRow, p.id = 0 => p.refund = "NONE", NEW m, NEW st,
         Write(p, [Stored(p) EXCEPT !.method = m, !.status = st]), pay'.refund = "REFUNDED"
  PROVE  Refunded
<1> DEFINE q == Stored(p)
<1>1. pay' = [q EXCEPT !.method = m, !.status = st]  BY DEF Write
<1>2. p.id # 0 => q = pay  BY DEF Stored
<1>3. p.id = 0 => q.refund = "NONE" /\ "refund" \in DOMAIN q
  BY DEF Stored, PaymentRow
<1>4. pay \in PaymentRow  BY DEF Typed, TypeOK
<1> HIDE DEF q
<1>. QED  BY <1>1, <1>2, <1>3, <1>4 DEF Refunded, PaymentRow

LEMMA RefundedRow ==
  ASSUME Typed, RefundReportsHold, [Next]_vars, pay'.refund = "REFUNDED"
  PROVE  Refunded \/ Real
<1>0. /\ pay \in PaymentRow
      /\ \A t \in Slots : req[t].pay \in PaymentRow /\ (req[t].pay.id = 0 => req[t].pay.refund = "NONE")
  BY DEF Typed, TypeOK, Request, Fits
<1>1. ASSUME UNCHANGED pay  PROVE Refunded
  BY <1>1 DEF Refunded
<1>2. ASSUME NEW p \in PaymentRow, p.id = 0 => p.refund = "NONE", InsertIfNew(p)  PROVE Refunded
  <2>1. CASE Inserted(p)
    <3>1. pay'.refund = "NONE"
      BY <1>2, <2>1 DEF Inserted, InsertIfNew, Write, Stored, PaymentRow
    <3>. QED  BY <3>1
  <2>2. CASE ~Inserted(p)  BY <1>1, <1>2, <2>2 DEF InsertIfNew
  <2>. QED  BY <2>1, <2>2
<1>3. ASSUME NEW s \in Slots, req[s].att # 0, req[s].op \in WorksOnAttempt,
             ApplyIntent(req[s].pay, req[s].att, req[s].was, req[s].seen)
      PROVE  Refunded
  <2>1. req[s].pay.id \in PaymentIds  BY <1>3 DEF Typed, Fits
  <2>2. pay'.id = pay.id /\ pay'.refund = pay.refund  BY <1>3, <2>1, ApplyIntentRows
  <2>. QED  BY <2>2 DEF Refunded
<1>4. ASSUME NEW s \in Slots, Transition(s)  PROVE Refunded
  <2>1. CASE CommitConfirm(s)
    BY <1>1, <2>1 DEF CommitConfirm, CreatePaymentForConfirmedOrder, NoPayment
  <2>2. CASE CommitCancel(s)
    <3>1. CASE req[s].att = 0  BY <1>0, <1>2, <2>2, <3>1 DEF CommitCancel
    <3>2. CASE req[s].att # 0
      BY <1>3, <2>2, <3>2 DEF CommitCancel, At, WorksOnAttempt
    <3>. QED  BY <3>1, <3>2
  <2>3. CASE CommitReopen(s)
    BY <1>1, <2>3 DEF CommitReopen, DeletePaymentForReopen, NoPayment
  <2>4. CASE DeleteOrder(s)  BY <2>4 DEF DeleteOrder, NoPayment
  <2>. QED  BY <1>1, <1>4, <2>1, <2>2, <2>3, <2>4
            DEF Transition, ReadTransition, ReadPayment, ReadAttempt, CancelIntent,
                CommitFulfil, database
<1>5. ASSUME NEW s \in Slots, Collection(s)  PROVE Refunded
  <2>1. CASE CommitLegacy(s)  BY <1>0, <1>2, <2>1 DEF CommitLegacy
  <2>2. CASE CommitCard(s)
    BY <1>0, <2>2, CollectedRefund DEF CommitCard
  <2>3. CASE CommitCash(s)
    BY <1>0, <2>3, CollectedRefund DEF CommitCash
  <2>4. CASE CommitPoll(s)
    <3>1. req[s].att # 0 /\ req[s].op \in WorksOnAttempt
      BY <2>4, BoundsAssumption DEF CommitPoll, At, WorksOnAttempt, Typed, Fits, AttemptIds
    <3>. QED  BY <1>3, <2>4, <3>1 DEF CommitPoll
  <2>. QED  BY <1>1, <1>5, <2>1, <2>2, <2>3, <2>4
            DEF Collection, ReadLegacy, ReadCard, ReadPoll, RetrieveIntent, ReadAgain,
                ReadCash, database
<1>6. ASSUME NEW s \in Slots, Refunding(s)  PROVE Refunded \/ Real
  <2>1. CASE CommitRefundCash(s)
    <3>1. req[s].pay.id \in PaymentIds /\ pay'.id = req[s].pay.id
      BY <1>0, <2>1 DEF CommitRefundCash, At, Typed, Fits, WorksOnRefund, PaymentRow
    <3>. QED  BY <2>1, <3>1 DEF CommitRefundCash, Typed, TypeOK, Real
  <2>2. CASE CommitRefundRequested(s)
    BY <1>0, <2>2 DEF CommitRefundRequested, PaymentRow
  <2>3. CASE CommitRefundFailed(s)
    BY <1>0, <2>3 DEF CommitRefundFailed, PaymentRow
  <2>4. CASE CommitRefundCard(s)
    BY <2>4, RefundApplied DEF CommitRefundCard, At, WorksOnRefund, stripe
  <2>. QED  BY <1>1, <1>6, <2>1, <2>2, <2>3, <2>4
            DEF Refunding, ReadRefund, ReadOrderAgain, ReadRefundAgain, CreateRefund, ReplayRefund,
                RefundUnavailable, database
<1>7. ASSUME NEW s \in Slots, Webhook(s)  PROVE Refunded \/ Real
  <2>1. CASE CommitIntentEvent(s)
    <3>1. req[s].att # 0 /\ req[s].op \in WorksOnAttempt
      BY <2>1, BoundsAssumption DEF CommitIntentEvent, At, WorksOnAttempt, Typed, Fits, AttemptIds
    <3>. QED  BY <1>3, <2>1, <3>1 DEF CommitIntentEvent
  <2>2. CASE CommitRefundEvent(s)
    BY <2>2, RefundApplied DEF CommitRefundEvent, At, WorksOnRefund, stripe
  <2>. QED  BY <1>1, <1>7, <2>1, <2>2
            DEF Webhook, IgnoreIntentEvent, ReadIntentEvent, IgnoreRefundEvent,
                ReadRefundEvent, database
<1>8. ASSUME UNCHANGED vars \/ Outside \/ \E s \in Slots : Abort(s)  PROVE UNCHANGED pay
  BY <1>8 DEF vars, database, Outside, IntentMoves, RefundMoves, Abort
<1>. QED  BY <1>1, <1>4, <1>5, <1>6, <1>7, <1>8 DEF Next

\* The financial status says REFUNDED only after the money went back: the success that
\* any commit writes was reported by Stripe, and what Stripe completed stays completed.
THEOREM RefundsAreReal == Spec => []RefundedIsBacked
<1> DEFINE Inv == Typed /\ RefundReportsHold /\ Backed(pay)
<1>1. Init => Inv
  <2>. SUFFICES ASSUME Init PROVE Inv  OBVIOUS
  <2>1. Typed  BY InitTyped
  <2>2. Backed(pay)  BY DEF Init, Backed, NoPayment
  <2>3. RefundReportsHold  BY DEF Init, RefundReportsHold, NoRefund, Idle
  <2>. QED  BY <2>1, <2>2, <2>3
<1>2. ASSUME Inv, [Next]_vars  PROVE Inv'
  <2>1. Typed' /\ RefundReportsHold'  BY <1>2, StepTyped, StepRefundReports
  <2>2. ASSUME Refunded  PROVE Real
    <3>1. pay.id \in PaymentIds
      BY <1>2, <2>2, RowHasId DEF Refunded, NoPayment
    <3>. QED  BY <1>2, <2>2, <3>1, CompletedStays, CashBackGrows DEF Refunded, Real, Backed
  <2>3. Backed(pay)'  BY <1>2, <2>2, RefundedRow DEF Backed, Real
  <2>. QED  BY <2>1, <2>3
<1>3. Inv => RefundedIsBacked
  BY DEF Backed, RefundedIsBacked, DeriveFinancialStatus
<1>. QED  BY <1>1, <1>2, <1>3, PTL DEF Spec
================================================================================
