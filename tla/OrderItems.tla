------------------------------- MODULE OrderItems -------------------------------
(***************************************************************************)
(* The line items of one order, its stored totals, and the amount its      *)
(* payment froze: OrderService.createOrder, addOrderItem, deleteOrderItem, *)
(* deleteOrder and transitionStatus, with the product rows they read.      *)
(*                                                                         *)
(* Item requests and confirmation read rows first and write them when they *)
(* commit (READ COMMITTED); in between other requests commit.  How         *)
(* overlapping status transitions and payments interact is the subject of  *)
(* OrderPayment: here cancelling, reopening and fulfilling are one step,   *)
(* and a payment is open, paid, or closed by a refund.                     *)
(***************************************************************************)
EXTENDS Integers, FiniteSetsExt

CONSTANTS
  Slots,       \* requests that may be open at the same time
  Products,
  Prices,      \* values of Product.priceCents
  Lines,       \* [qty, discount, tax] of the lines a client sends
  MaxItems,    \* bound: item rows ever inserted
  MaxInt       \* largest value of a PostgreSQL integer column

ASSUME PricesAssumption == Prices \subseteq 0..MaxInt
ASSUME LinesAssumption  == Lines \subseteq [qty: 1..MaxInt, discount: 0..MaxInt, tax: 0..MaxInt]
ASSUME ItemsAssumption  == MaxItems \in Nat /\ MaxInt \in Nat

VARIABLES
  order,       \* Order.status, "ABSENT" before it is created, or "DELETED"
  totals,      \* Order.subtotalCents, discountCents, taxCents, totalCents
  items,       \* OrderItem rows
  inserted,    \* number of item ids handed out
  product,     \* per product: priceCents and active
  payment,     \* the Payment row: amountCents, and how far it is
  req          \* the open request of each slot

vars == <<order, totals, items, inserted, product, payment, req>>

Zero       == [subtotal |-> 0, discount |-> 0, tax |-> 0, total |-> 0]
NoPayment  == [amount |-> 0, is |-> "ABSENT"]
NoItem     == [id |-> 0, product |-> "none", amounts |-> Zero]
Idle       == [op |-> "idle", item |-> NoItem, total |-> 0]

Amounts == [subtotal: 0..MaxInt, discount: 0..MaxInt, tax: 0..MaxInt, total: 0..MaxInt]

TypeOK ==
  /\ order \in {"ABSENT", "PENDING", "CONFIRMED", "FULFILLED", "CANCELLED", "DELETED"}
  /\ totals \in Amounts
  /\ \A i \in items : /\ i.id \in 1..MaxItems /\ i.product \in Products
                      /\ i.amounts \in Amounts
                      /\ \A j \in items : i.id = j.id => i = j
  /\ inserted \in 0..MaxItems
  /\ product \in [Products -> [price: Prices, active: BOOLEAN]]
  /\ payment \in [amount: 0..MaxInt, is: {"ABSENT", "OPEN", "PAID", "CLOSED"}]
  /\ \A s \in Slots : req[s].op \in {"idle", "add", "remove", "confirm"}

Init ==
  /\ order = "ABSENT" /\ totals = Zero /\ items = {} /\ inserted = 0
  /\ product \in [Products -> [price: Prices, active: {TRUE}]]
  /\ payment = NoPayment
  /\ req = [s \in Slots |-> Idle]

--------------------------------------------------------------------------------
(* Amounts *)

LineAmounts(p, line) ==
  LET subtotal == line.qty * product[p].price
  IN  [subtotal |-> subtotal, discount |-> line.discount, tax |-> line.tax,
       total |-> subtotal - line.discount + line.tax]

Plus(x, y)  == [f \in DOMAIN x |-> x[f] + y[f]]
Minus(x, y) == [f \in DOMAIN x |-> x[f] - y[f]]

SumOf(rows) == FoldSet(LAMBDA i, sum : Plus(i.amounts, sum), Zero, rows)

\* "Discount cannot exceed the line subtotal."
Valid(amounts) == amounts.discount <= amounts.subtotal

\* A value outside the column's range makes the statement fail.
Wraps(amounts) == amounts \in [DOMAIN amounts -> Int]           \* mutated form
Storable(amounts) == \A f \in DOMAIN amounts : amounts[f] <= MaxInt

Free(s)     == req[s].op = "idle"
Begin(s, r) == req' = [req EXCEPT ![s] = r]
Finish(s)   == req' = [req EXCEPT ![s] = Idle]
Exists      == order \notin {"ABSENT", "DELETED"}

--------------------------------------------------------------------------------
(* Items *)

\* createOrder: one transaction, of active products; a product may occur twice.
CreateOrder ==
  /\ order = "ABSENT"
  /\ \E n \in 1..MaxItems : \E choice \in [1..n -> Products \X Lines] :
       LET rows == {[id |-> k, product |-> choice[k][1],
                     amounts |-> LineAmounts(choice[k][1], choice[k][2])] : k \in 1..n}
       IN  /\ \A i \in rows : product[i.product].active /\ Valid(i.amounts) /\ Storable(i.amounts)
           /\ Storable(SumOf(rows))
           /\ items' = rows /\ totals' = SumOf(rows) /\ inserted' = n
  /\ order' = "PENDING"
  /\ UNCHANGED <<product, payment, req>>

\* addOrderItem: an inactive product is accepted.
ReadAdd(s) ==
  /\ Free(s) /\ order = "PENDING"
  /\ \E p \in Products, line \in Lines :
       LET amounts == LineAmounts(p, line)
       IN  /\ \A i \in items : i.product # p
           /\ Valid(amounts)
           /\ Begin(s, [Idle EXCEPT !.op = "add", !.item =
                          [id |-> 0, product |-> p, amounts |-> amounts]])
  /\ UNCHANGED <<order, totals, items, inserted, product, payment>>

\* The write checks neither the status nor the products again; totals are
\* incremented in the database.
CommitAdd(s) ==
  /\ req[s].op = "add" /\ Exists /\ inserted < MaxItems
  /\ LET new == [req[s].item EXCEPT !.id = inserted + 1]
     IN  /\ Storable(new.amounts) /\ Storable(Plus(totals, new.amounts))
         /\ items' = items \cup {new}
         /\ totals' = Plus(totals, new.amounts)
  /\ inserted' = inserted + 1
  /\ Finish(s)
  /\ UNCHANGED <<order, product, payment>>

\* deleteOrderItem: the order's status is not read.
ReadRemove(s) ==
  /\ Free(s) /\ Cardinality(items) > 1
  /\ \E i \in items : Begin(s, [Idle EXCEPT !.op = "remove", !.item = i])
  /\ UNCHANGED <<order, totals, items, inserted, product, payment>>

\* The nested delete fails, and the decrements with it, when the row is gone.
Tolerates(i) == i.id > 0                                        \* mutated form
StillThere(i) == i \in items

CommitRemove(s) ==
  /\ req[s].op = "remove" /\ Exists
  /\ StillThere(req[s].item)
  /\ items' = items \ {req[s].item}
  /\ totals' = Minus(totals, req[s].item.amounts)
  /\ Finish(s)
  /\ UNCHANGED <<order, inserted, product, payment>>

\* deleteOrder: items and payment cascade.
DeleteOrder ==
  /\ Exists
  /\ order' = "DELETED" /\ items' = {} /\ totals' = Zero /\ payment' = NoPayment
  /\ UNCHANGED <<inserted, product, req>>

--------------------------------------------------------------------------------
(* The order's status and its payment *)

ReadConfirm(s) ==
  /\ Free(s) /\ order = "PENDING"
  /\ Begin(s, [Idle EXCEPT !.op = "confirm", !.total = totals.total])
  /\ UNCHANGED <<order, totals, items, inserted, product, payment>>

\* createPaymentForConfirmedOrderTx keeps a row it finds; a new one gets the total
\* that was read.
CommitConfirm(s) ==
  /\ req[s].op = "confirm" /\ Exists
  /\ order' = "CONFIRMED"
  /\ payment' = IF payment # NoPayment THEN payment
                ELSE [amount |-> req[s].total, is |-> "OPEN"]
  /\ Finish(s)
  /\ UNCHANGED <<totals, items, inserted, product>>

Fulfil ==
  /\ order = "CONFIRMED" /\ payment.is = "PAID"
  /\ order' = "FULFILLED"
  /\ UNCHANGED <<totals, items, inserted, product, payment, req>>

\* A pending order is cancelled without a look at payments.
Cancel ==
  /\ order = "PENDING" \/ (order = "CONFIRMED" /\ payment.is = "OPEN")
  /\ order' = "CANCELLED"
  /\ UNCHANGED <<totals, items, inserted, product, payment, req>>

Reopen ==
  /\ order = "CANCELLED" /\ payment.is \in {"ABSENT", "OPEN"}
  /\ order' = "PENDING" /\ payment' = NoPayment
  /\ UNCHANGED <<totals, items, inserted, product, req>>

\* Collection and refunds: a completed refund cancels a confirmed order.
PaymentMoves ==
  \/ /\ payment.is = "OPEN" /\ payment' = [payment EXCEPT !.is = "PAID"]
     /\ UNCHANGED <<order, totals, items, inserted, product, req>>
  \/ /\ payment.is = "PAID" /\ payment' = [payment EXCEPT !.is = "CLOSED"]
     /\ order' = IF order = "CONFIRMED" THEN "CANCELLED" ELSE order
     /\ UNCHANGED <<totals, items, inserted, product, req>>

--------------------------------------------------------------------------------
(* Products, and requests that fail *)

\* updateProduct and deleteProduct
ChangeProduct ==
  /\ \E p \in Products, c \in Prices, b \in BOOLEAN :
       product' = [product EXCEPT ![p] = [price |-> c, active |-> b]]
  /\ UNCHANGED <<order, totals, items, inserted, payment, req>>

Abort(s) ==
  /\ ~Free(s) /\ Finish(s)
  /\ UNCHANGED <<order, totals, items, inserted, product, payment>>

Next ==
  \/ CreateOrder \/ DeleteOrder \/ Fulfil \/ Cancel \/ Reopen \/ PaymentMoves \/ ChangeProduct
  \/ \E s \in Slots : \/ ReadAdd(s) \/ CommitAdd(s) \/ ReadRemove(s) \/ CommitRemove(s)
                      \/ ReadConfirm(s) \/ CommitConfirm(s) \/ Abort(s)

Spec == Init /\ [][Next]_vars

--------------------------------------------------------------------------------
(* Properties *)

\* The stored totals are the sums over the stored items, whichever item requests
\* overlap (the increments of addOrderItem and the decrements of deleteOrderItem).
TotalsMatchItems == totals = SumOf(items)

\* The payment asks for what the order costs: its amount is the order's total when the
\* order is confirmed, and items no longer change then (docs/domains/order.md).
PaymentAmountIsTotal == payment # NoPayment => payment.amount = totals.total

================================================================================
