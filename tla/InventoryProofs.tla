----------------------------- MODULE InventoryProofs ------------------------------
(***************************************************************************)
(* Proofs about Inventory.  The inductive invariant joins the properties   *)
(* of the rows with Checked: what an open request has established is still *)
(* true unless the request is stale.  The argument is the same for every   *)
(* action: what it commits it announces (Announces), and a request that    *)
(* read something of it becomes stale (Follows).                           *)
(***************************************************************************)
EXTENDS Inventory, FiniteSetTheorems, TLAPS

Requests == [op: Steps, level: Levels \cup {<<>>}, loc: Locations \cup {"none"},
             delta: Deltas \cup {0}, read: Integer \cup {NoRow}, stale: BOOLEAN]

\* What the open request of slot t has checked.
Checked(t) ==
  /\ req[t].op = "adjust" =>
       /\ req[t].level \in Levels /\ req[t].level[1] \in product
       /\ QuantityOf(req[t].read) + req[t].delta >= 0
       /\ req[t].stale \/ req[t].read = stock[req[t].level]
  /\ req[t].op \in {"archive", "counted", "emptied", "unordered"} => req[t].loc \in Locations
  /\ req[t].op \in {"archive", "emptied", "unordered"} => req[t].stale \/ ~OnHand(req[t].loc)
  /\ req[t].op = "unordered" => req[t].stale \/ ~HasOrder(req[t].loc)
  /\ req[t].op \in {"counted", "emptied", "unordered"} =>
       req[t].stale \/ \E k \in Locations \ {req[t].loc} : Exists(k)

IInv ==
  /\ TypeOK
  /\ StockNotNegative
  /\ NoOrphans
  /\ StockIsLedger
  /\ OrgKeepsLocation
  /\ \A t \in Slots : Checked(t)

\* What changes in the step is in changed.
Announces(changed) ==
  /\ \A v \in Levels : stock'[v] # stock[v] => StockAt(v) \in changed
  /\ \A o \in Orders, l \in Locations : orderAt'[o] = l /\ orderAt[o] # l => OrdersAt(l) \in changed
  /\ \A l \in Locations : Exists(l) /\ ~Exists(l)' => Existing \in changed
  /\ product \subseteq product'

\* The request of slot t stays as it is, and becomes stale if it read something of changed.
Follows(t, changed) ==
  /\ req'[t].op = req[t].op /\ req'[t].level = req[t].level /\ req'[t].loc = req[t].loc
  /\ req'[t].delta = req[t].delta /\ req'[t].read = req[t].read
  /\ req'[t].stale = (req[t].stale \/ Reads(req[t]) \cap changed # {})

--------------------------------------------------------------------------------
(* Requests *)

LEMMA Quantities ==
  ASSUME NEW q \in Integer \cup {NoRow}
  PROVE  QuantityOf(q) \in Int /\ (q # NoRow => q \in Int /\ QuantityOf(q) = q)
  BY BoundsAssumption, NoRowAssumption DEF QuantityOf, Integer

LEMMA IdleTyped == Idle \in Requests /\ Idle.op = "idle" /\ Idle.stale = FALSE
  BY BoundsAssumption DEF Idle, Requests, Steps

LEMMA ReqTyped == TypeOK => req \in [Slots -> Requests]
  BY DEF TypeOK, Requests

LEMMA OvertakenFollows ==
  ASSUME TypeOK, NEW changed
  PROVE  /\ Overtaken(changed) \in [Slots -> Requests]
         /\ \A t \in Slots :
              LET r == Overtaken(changed)[t]
              IN  /\ r.op = req[t].op /\ r.level = req[t].level /\ r.loc = req[t].loc
                  /\ r.delta = req[t].delta /\ r.read = req[t].read
                  /\ r.stale = (req[t].stale \/ Reads(req[t]) \cap changed # {})
  BY ReqTyped DEF Overtaken, Requests

LEMMA CommitsFollows ==
  ASSUME TypeOK, NEW changed, Commits(changed)
  PROVE  req' \in [Slots -> Requests] /\ \A t \in Slots : Follows(t, changed)
  BY OvertakenFollows DEF Commits, Follows

LEMMA FinishFollows ==
  ASSUME TypeOK, NEW s \in Slots, NEW changed, Finish(s, changed)
  PROVE  /\ req' \in [Slots -> Requests] /\ req'[s] = Idle
         /\ \A t \in Slots \ {s} : Follows(t, changed)
  <1>1. req' = [Overtaken(changed) EXCEPT ![s] = Idle]
    BY DEF Finish
  <1>2. req' \in [Slots -> Requests] /\ req'[s] = Idle
        /\ \A t \in Slots \ {s} : req'[t] = Overtaken(changed)[t]
    BY <1>1, OvertakenFollows, IdleTyped
  <1>3. QED
    BY <1>2, OvertakenFollows DEF Follows

LEMMA OpenFollows ==
  ASSUME TypeOK, NEW s \in Slots, NEW r \in Requests, Open(s, r)
  PROVE  /\ req' \in [Slots -> Requests] /\ req'[s] = r
         /\ \A t \in Slots \ {s} : Follows(t, {})
  <1>1. req' \in [Slots -> Requests] /\ req'[s] = r /\ \A t \in Slots \ {s} : req'[t] = req[t]
    BY ReqTyped DEF Open
  <1>2. \A t \in Slots : req[t].stale \in BOOLEAN
    BY ReqTyped DEF Requests
  <1>3. QED
    BY <1>1, <1>2 DEF Follows

LEMMA UnchangedFollows ==
  ASSUME TypeOK, UNCHANGED req
  PROVE  req' \in [Slots -> Requests] /\ \A t \in Slots : Follows(t, {})
  <1>1. \A t \in Slots : req[t].stale \in BOOLEAN
    BY ReqTyped DEF Requests
  <1>2. QED
    BY <1>1, ReqTyped DEF Follows

\* A step that leaves the rows alone announces nothing.
LEMMA RowsAnnounced ==
  ASSUME UNCHANGED <<product, stock, orderAt>>, NEW changed,
         \A l \in Locations : Exists(l) => Exists(l)'
  PROVE  Announces(changed)
  BY DEF Announces

LEMMA ExistsUnchanged ==
  ASSUME UNCHANGED location
  PROVE  \A l \in Locations : Exists(l)' = Exists(l)
  BY DEF Exists

LEMMA CheckedIdle ==
  ASSUME NEW t \in Slots, req[t] = Idle
  PROVE  Checked(t)
  BY IdleTyped DEF Checked

\* A request that follows the step has still checked what it had checked.
LEMMA CheckedFollows ==
  ASSUME TypeOK, NEW changed, Announces(changed),
         NEW t \in Slots, Follows(t, changed), Checked(t)
  PROVE  Checked(t)'
  <1> DEFINE r == req[t]
  <1>1. r.stale \in BOOLEAN
    BY ReqTyped DEF Requests
  <1>2. /\ req'[t].op = r.op /\ req'[t].level = r.level /\ req'[t].loc = r.loc
        /\ req'[t].delta = r.delta /\ req'[t].read = r.read
        /\ req'[t].stale = (r.stale \/ Reads(r) \cap changed # {})
    BY DEF Follows
  <1> HIDE DEF r
  <1>3. r.op = "adjust" =>
          /\ r.level \in Levels /\ r.level[1] \in product'
          /\ QuantityOf(r.read) + r.delta >= 0
          /\ req'[t].stale \/ r.read = stock'[r.level]
    <2>1. SUFFICES ASSUME r.op = "adjust"
                   PROVE  /\ r.level \in Levels /\ r.level[1] \in product'
                          /\ QuantityOf(r.read) + r.delta >= 0
                          /\ req'[t].stale \/ r.read = stock'[r.level]
      OBVIOUS
    <2>2. /\ r.level \in Levels /\ r.level[1] \in product
          /\ QuantityOf(r.read) + r.delta >= 0
          /\ r.stale \/ r.read = stock[r.level]
      BY <2>1 DEF Checked, r
    <2>3. StockAt(r.level) \in Reads(r)
      BY <2>1 DEF Reads
    <2>4. QED
      BY <1>1, <1>2, <2>2, <2>3 DEF Announces
  <1>4. r.op \in {"archive", "counted", "emptied", "unordered"} => r.loc \in Locations
    BY DEF Checked, r
  <1>5. \A l \in Locations : r.op \in {"archive", "emptied", "unordered"} /\ r.loc = l
                             => req'[t].stale \/ ~OnHand(l)'
    <2>1. SUFFICES ASSUME NEW l \in Locations, r.op \in {"archive", "emptied", "unordered"},
                          r.loc = l, ~req'[t].stale
                   PROVE  ~OnHand(l)'
      OBVIOUS
    <2>2. ~OnHand(l)
      BY <1>1, <1>2, <2>1 DEF Checked, r
    <2>3. \A p \in Products : StockAt(<<p, l>>) \in Reads(r)
      BY <2>1 DEF Reads
    <2>4. \A p \in Products : stock'[<<p, l>>] = stock[<<p, l>>]
      BY <1>1, <1>2, <2>1, <2>2, <2>3 DEF Announces, Levels
    <2>5. QED
      BY <2>2, <2>4 DEF OnHand
  <1>6. \A l \in Locations : r.op = "unordered" /\ r.loc = l => req'[t].stale \/ ~HasOrder(l)'
    <2>1. SUFFICES ASSUME NEW l \in Locations, r.op = "unordered", r.loc = l, ~req'[t].stale
                   PROVE  ~HasOrder(l)'
      OBVIOUS
    <2>2. ~HasOrder(l)
      BY <1>1, <1>2, <2>1 DEF Checked, r
    <2>3. OrdersAt(l) \in Reads(r)
      BY <2>1 DEF Reads
    <2>4. QED
      BY <1>1, <1>2, <2>1, <2>2, <2>3 DEF Announces, HasOrder
  <1>7. r.op \in {"counted", "emptied", "unordered"} =>
          req'[t].stale \/ \E k \in Locations \ {r.loc} : Exists(k)'
    <2>1. SUFFICES ASSUME r.op \in {"counted", "emptied", "unordered"}, ~req'[t].stale
                   PROVE  \E k \in Locations \ {r.loc} : Exists(k)'
      OBVIOUS
    <2>2. \E k \in Locations \ {r.loc} : Exists(k)
      BY <1>1, <1>2, <2>1 DEF Checked, r
    <2>3. Existing \in Reads(r)
      BY <2>1 DEF Reads
    <2>4. QED
      BY <1>1, <1>2, <2>1, <2>2, <2>3 DEF Announces
  <1>8. QED
    BY <1>2, <1>3, <1>4, <1>5, <1>6, <1>7 DEF Checked, QuantityOf, OnHand, HasOrder, Exists
--------------------------------------------------------------------------------
(* Steps that only read *)

LEMMA RowsKept ==
  ASSUME UNCHANGED <<product, stock, ledger, tainted>>,
         \A l \in Locations : Exists(l) => Exists(l)',
         StockNotNegative, NoOrphans, StockIsLedger, OrgKeepsLocation
  PROVE  StockNotNegative' /\ NoOrphans' /\ StockIsLedger' /\ OrgKeepsLocation'
  <1>1. StockNotNegative'
    BY DEF StockNotNegative
  <1>2. NoOrphans'
    BY DEF NoOrphans, Levels
  <1>3. StockIsLedger'
    BY DEF StockIsLedger, StockAt, QuantityOf
  <1>4. OrgKeepsLocation'
    BY DEF OrgKeepsLocation, Existing
  <1>5. QED
    BY <1>1, <1>2, <1>3, <1>4

LEMMA ReadStep ==
  ASSUME IInv, NEW s \in Slots, NEW r \in Requests, Open(s, r),
         UNCHANGED <<location, product, stock, ledger, orderAt, tainted>>, Checked(s)'
  PROVE  IInv'
  <1>1. TypeOK /\ req' \in [Slots -> Requests] /\ \A t \in Slots \ {s} : Follows(t, {})
    BY OpenFollows DEF IInv
  <1>2. \A l \in Locations : Exists(l)' = Exists(l)
    BY ExistsUnchanged
  <1>3. Announces({})
    BY <1>2, RowsAnnounced
  <1>4. TypeOK'
    BY <1>1 DEF TypeOK, Requests
  <1>5. \A t \in Slots \ {s} : Checked(t)'
    BY <1>1, <1>3, CheckedFollows DEF IInv
  <1>6. QED
    BY <1>2, <1>4, <1>5, RowsKept DEF IInv

LEMMA AbortStep ==
  ASSUME IInv, NEW s \in Slots, Abort(s)
  PROVE  IInv'
  <1>1. Open(s, Idle) /\ UNCHANGED <<location, product, stock, ledger, orderAt, tainted>>
    BY DEF Abort, Open
  <1>2. req'[s] = Idle
    BY <1>1, IdleTyped, OpenFollows DEF IInv
  <1>3. Checked(s)'
    BY <1>2, IdleTyped DEF Checked
  <1>4. QED
    BY <1>1, <1>3, IdleTyped, ReadStep

LEMMA ReadLevelStep ==
  ASSUME IInv, NEW s \in Slots, ReadLevel(s)
  PROVE  IInv'
  <1>1. PICK v \in Levels, d \in Deltas :
          /\ v[1] \in product /\ Exists(v[2])
          /\ QuantityOf(stock[v]) + d >= 0
          /\ Open(s, [Idle EXCEPT !.op = "adjust", !.level = v, !.delta = d, !.read = stock[v]])
    BY DEF ReadLevel
  <1> DEFINE r == [Idle EXCEPT !.op = "adjust", !.level = v, !.delta = d, !.read = stock[v]]
  <1>2. stock[v] \in Integer \cup {NoRow}
    BY DEF IInv, TypeOK
  <1>3. r \in Requests /\ r.op = "adjust" /\ r.level = v /\ r.delta = d /\ r.read = stock[v]
    BY <1>2, IdleTyped DEF Requests, Steps
  <1>4. UNCHANGED <<location, product, stock, ledger, orderAt, tainted>>
    BY DEF ReadLevel
  <1> HIDE DEF r
  <1>5. req'[s] = r
    BY <1>1, <1>3, OpenFollows DEF IInv, r
  <1>6. Checked(s)'
    BY <1>1, <1>3, <1>4, <1>5 DEF Checked, QuantityOf
  <1>7. QED
    BY <1>1, <1>3, <1>4, <1>6, ReadStep DEF r

LEMMA CheckArchiveStep ==
  ASSUME IInv, NEW s \in Slots, CheckArchive(s)
  PROVE  IInv'
  <1>1. PICK l \in Locations : /\ Exists(l) /\ ~OnHand(l)
                               /\ Open(s, [Idle EXCEPT !.op = "archive", !.loc = l])
    BY DEF CheckArchive, assertNoInventoryOnHand
  <1> DEFINE r == [Idle EXCEPT !.op = "archive", !.loc = l]
  <1>2. r \in Requests /\ r.op = "archive" /\ r.loc = l
    BY IdleTyped DEF Requests, Steps
  <1>3. UNCHANGED <<location, product, stock, ledger, orderAt, tainted>>
    BY DEF CheckArchive
  <1> HIDE DEF r
  <1>4. req'[s] = r
    BY <1>1, <1>2, OpenFollows DEF IInv, r
  <1>5. Checked(s)'
    BY <1>1, <1>2, <1>3, <1>4 DEF Checked, OnHand, QuantityOf
  <1>6. QED
    BY <1>1, <1>2, <1>3, <1>5, ReadStep DEF r

\* More than one location: some other one exists.
LEMMA AnotherExists ==
  ASSUME NEW l \in Locations, NotOnly(l)
  PROVE  \E k \in Locations \ {l} : Exists(k)
  <1> DEFINE all == {k \in Locations : Exists(k)}
  <1>1. Cardinality(all) > 1
    BY DEF NotOnly
  <1>2. SUFFICES ASSUME all \subseteq {l} PROVE FALSE
    OBVIOUS
  <1>3. all = {} \/ all = {l}
    BY <1>2
  <1> HIDE DEF all
  <1>4. Cardinality({}) = 0 /\ Cardinality({l}) = 1
    BY FS_EmptySet, FS_Singleton
  <1>5. QED
    BY <1>1, <1>3, <1>4

LEMMA CountLocationsStep ==
  ASSUME IInv, NEW s \in Slots, CountLocations(s)
  PROVE  IInv'
  <1>1. PICK l \in Locations : /\ Exists(l) /\ NotOnly(l)
                               /\ Open(s, [Idle EXCEPT !.op = "counted", !.loc = l])
    BY DEF CountLocations
  <1> DEFINE r == [Idle EXCEPT !.op = "counted", !.loc = l]
  <1>2. r \in Requests /\ r.op = "counted" /\ r.loc = l
    BY IdleTyped DEF Requests, Steps
  <1>3. UNCHANGED <<location, product, stock, ledger, orderAt, tainted>>
    BY DEF CountLocations
  <1> HIDE DEF r
  <1>4. req'[s] = r
    BY <1>1, <1>2, OpenFollows DEF IInv, r
  <1>5. \E k \in Locations \ {l} : Exists(k)'
    BY <1>1, <1>3, AnotherExists, ExistsUnchanged
  <1>6. Checked(s)'
    BY <1>2, <1>4, <1>5 DEF Checked
  <1>7. QED
    BY <1>1, <1>2, <1>3, <1>6, ReadStep DEF r

\* The next check of a deletion: op becomes the one that names what has been checked.
LEMMA NextCheck ==
  ASSUME IInv, NEW s \in Slots, NEW op \in Steps, Open(s, [req[s] EXCEPT !.op = op]),
         UNCHANGED <<location, product, stock, ledger, orderAt, tainted>>,
         \/ /\ req[s].op = "counted" /\ op = "emptied" /\ ~OnHand(req[s].loc)
         \/ /\ req[s].op = "emptied" /\ op = "unordered" /\ ~HasOrder(req[s].loc)
  PROVE  IInv'
  <1> DEFINE r == [req[s] EXCEPT !.op = op]
  <1>1. req[s] \in Requests
    BY ReqTyped DEF IInv
  <1>2. r \in Requests /\ r.op = op /\ r.loc = req[s].loc /\ r.stale = req[s].stale
    BY <1>1 DEF Requests
  <1>3. req'[s] = r
    BY <1>2, OpenFollows DEF IInv
  <1> HIDE DEF r
  <1>4. Checked(s)
    BY DEF IInv
  <1> DEFINE l == req[s].loc  stale == req[s].stale
  <1>5. l \in Locations /\ ~ (op = "unordered" /\ HasOrder(l))
        /\ (stale \/ ~OnHand(l)) /\ (stale \/ \E k \in Locations \ {l} : Exists(k))
    BY <1>4 DEF Checked
  <1>6. \A k \in Locations : /\ Exists(k)' = Exists(k) /\ OnHand(k)' = OnHand(k)
                             /\ HasOrder(k)' = HasOrder(k)
    BY ExistsUnchanged DEF OnHand, HasOrder, QuantityOf
  <1>7. req'[s].loc = l /\ req'[s].stale = stale /\ req'[s].op = op
    BY <1>2, <1>3
  <1>8. PICK k \in Locations : k = l
    BY <1>5
  <1>9. /\ k = req'[s].loc /\ ~ (op = "unordered" /\ HasOrder(k)')
        /\ (req'[s].stale \/ ~OnHand(k)')
        /\ (req'[s].stale \/ \E j \in Locations \ {k} : Exists(j)')
    BY <1>5, <1>6, <1>7, <1>8
  <1>10. op \in {"emptied", "unordered"}
    OBVIOUS
  <1>11. Checked(s)'
    BY <1>7, <1>9, <1>10 DEF Checked, OnHand, HasOrder
  <1>12. QED
    BY <1>2, <1>11, ReadStep DEF r

LEMMA CountStockStep ==
  ASSUME IInv, NEW s \in Slots, CountStock(s)
  PROVE  IInv'
  BY NextCheck DEF CountStock, assertNoInventoryOnHand, Steps

LEMMA CountOrdersStep ==
  ASSUME IInv, NEW s \in Slots, CountOrders(s)
  PROVE  IInv'
  BY NextCheck DEF CountOrders, assertNoLocationHistory, Steps
--------------------------------------------------------------------------------
(* Steps that commit *)

\* The requests of a step that announces what it commits.
LEMMA CommitStep ==
  ASSUME IInv, TypeOK', NEW changed, Announces(changed),
         \A t \in Slots : req'[t] = Idle \/ Follows(t, changed),
         StockNotNegative', NoOrphans', StockIsLedger', OrgKeepsLocation'
  PROVE  IInv'
  <1>1. \A t \in Slots : req'[t] = Idle => Checked(t)'
    BY IdleTyped DEF Checked
  <1>2. \A t \in Slots : Follows(t, changed) => Checked(t)'
    BY CheckedFollows DEF IInv
  <1>3. QED
    BY <1>1, <1>2 DEF IInv

\* tainted only grows, by what the request of slot s has read and changed.
LEMMA FinishTaints ==
  ASSUME NEW s \in Slots, NEW changed, Finish(s, changed)
  PROVE  /\ tainted \subseteq tainted'
         /\ req[s].stale => changed \cap Reads(req[s]) \subseteq tainted'
  BY DEF Finish

LEMMA CommitAdjustStep ==
  ASSUME IInv, NEW s \in Slots, CommitAdjust(s)
  PROVE  IInv'
  <1> DEFINE r == req[s]  v == req[s].level  changed == {StockAt(v)}
             n == NewQuantity(r)  sum == AddsDelta(v, r.delta)
  <1>1. /\ r.op = "adjust" /\ Exists(v[2]) /\ n \in Integer /\ sum \in (-MaxLedger)..MaxLedger
        /\ stock' = [stock EXCEPT ![v] = n] /\ ledger' = [ledger EXCEPT ![v] = sum]
        /\ Finish(s, changed) /\ UNCHANGED <<location, product, orderAt>>
    BY DEF CommitAdjust, Storable
  <1>2. /\ v \in Levels /\ v[1] \in product
        /\ n >= 0
        /\ r.stale \/ r.read = stock[v]
    BY <1>1 DEF IInv, Checked, NewQuantity
  <1>3. req' \in [Slots -> Requests] /\ req'[s] = Idle /\ \A t \in Slots \ {s} : Follows(t, changed)
    BY <1>1, FinishFollows DEF IInv
  <1>4. tainted \subseteq tainted' /\ (r.stale => StockAt(v) \in tainted')
    <2>1. StockAt(v) \in Reads(r)
      BY <1>1 DEF Reads
    <2>2. QED
      BY <1>1, <2>1, FinishTaints
  <1>5. /\ sum = ledger[v] + r.delta /\ n = QuantityOf(r.read) + r.delta
        /\ n \in Int /\ n # NoRow
    BY <1>1, BoundsAssumption, NoRowAssumption DEF NewQuantity, AddsDelta, Integer
  <1>6. TypeOK /\ StockNotNegative /\ NoOrphans /\ StockIsLedger /\ OrgKeepsLocation
    BY DEF IInv
  <1>7. \A l \in Locations : Exists(l)' = Exists(l)
    BY <1>1, ExistsUnchanged
  <1> HIDE DEF n, sum, changed
  <1>8. TypeOK'
    BY <1>1, <1>2, <1>3, <1>6 DEF TypeOK, Requests
  <1>9. \A w \in Levels : /\ w = v => stock'[w] = n /\ ledger'[w] = sum
                          /\ w # v => stock'[w] = stock[w] /\ ledger'[w] = ledger[w]
    BY <1>1, <1>2, <1>6 DEF TypeOK
  <1>10. StockNotNegative'
    BY <1>2, <1>6, <1>9 DEF StockNotNegative
  <1>11. NoOrphans'
    BY <1>1, <1>2, <1>6, <1>7, <1>9 DEF NoOrphans, Levels
  <1>12. StockIsLedger'
    <2>1. ASSUME NEW w \in Levels, StockAt(w) \notin tainted'
          PROVE  QuantityOf(stock'[w]) = ledger'[w]
      <3>1. StockAt(w) \notin tainted
        BY <1>4, <2>1
      <3>2. CASE w # v
        BY <1>6, <1>9, <3>1, <3>2 DEF StockIsLedger
      <3>3. CASE w = v
        <4>1. r.read = stock[v]
          BY <1>2, <1>4, <2>1, <3>3
        <4>2. QuantityOf(stock[v]) = ledger[v]
          BY <1>2, <1>6, <3>1, <3>3 DEF StockIsLedger
        <4>3. n = sum
          BY <1>5, <4>1, <4>2
        <4>4. QED
          BY <1>5, <1>9, <3>3, <4>3 DEF QuantityOf
      <3>4. QED
        BY <3>2, <3>3
    <2>2. QED
      BY <2>1 DEF StockIsLedger, StockAt, QuantityOf
  <1>13. OrgKeepsLocation'
    BY <1>4, <1>6, <1>7 DEF OrgKeepsLocation, Existing
  <1>14. Announces(changed)
    BY <1>1, <1>7, <1>9 DEF Announces, changed
  <1>15. QED
    BY <1>3, <1>8, <1>10, <1>11, <1>12, <1>13, <1>14, CommitStep

LEMMA CreateProductStep ==
  ASSUME IInv, CreateProduct
  PROVE  IInv'
  <1>1. PICK p \in Products \ product :
          /\ product' = product \cup {p}
          /\ \/ UNCHANGED <<stock, ledger, req>>
             \/ \E l \in Locations, q \in Deltas :
                  /\ Exists(l) /\ q \in 0..MaxLedger /\ Storable(q)
                  /\ stock' = [stock EXCEPT ![<<p, l>>] = q]
                  /\ ledger' = [ledger EXCEPT ![<<p, l>>] = InitialStock(<<p, l>>, q)]
                  /\ Commits({StockAt(<<p, l>>)})
    BY DEF CreateProduct
  <1>2. UNCHANGED <<location, orderAt, tainted>>
    BY DEF CreateProduct
  <1>3. TypeOK /\ StockNotNegative /\ NoOrphans /\ StockIsLedger /\ OrgKeepsLocation
    BY DEF IInv
  <1>4. \A l \in Locations : Exists(l)' = Exists(l)
    BY <1>2, ExistsUnchanged
  <1>5. product' \subseteq Products
    BY <1>1, <1>3 DEF TypeOK
  <1>6. CASE UNCHANGED <<stock, ledger, req>>
    <2>1. TypeOK'
      BY <1>2, <1>3, <1>5, <1>6 DEF TypeOK
    <2>2. StockNotNegative' /\ StockIsLedger' /\ OrgKeepsLocation' /\ NoOrphans'
      BY <1>1, <1>2, <1>3, <1>4, <1>6
      DEF StockNotNegative, StockIsLedger, StockAt, QuantityOf, OrgKeepsLocation, Existing, NoOrphans, Levels
    <2>3. Announces({})
      BY <1>1, <1>2, <1>4, <1>6 DEF Announces
    <2>4. \A t \in Slots : Follows(t, {})
      BY <1>3, <1>6, UnchangedFollows
    <2>5. QED
      BY <2>1, <2>2, <2>3, <2>4, CommitStep
  <1>7. ASSUME NEW l \in Locations, NEW q \in Deltas,
               Exists(l), q \in 0..MaxLedger, Storable(q),
               stock' = [stock EXCEPT ![<<p, l>>] = q],
               ledger' = [ledger EXCEPT ![<<p, l>>] = InitialStock(<<p, l>>, q)],
               Commits({StockAt(<<p, l>>)})
        PROVE  IInv'
    <2> DEFINE v == <<p, l>>  changed == {StockAt(v)}
    <2>1. v \in Levels /\ v[1] = p /\ v[2] = l
      BY DEF Levels
    <2>2. stock[v] = NoRow /\ ledger[v] = 0
      BY <1>1, <1>3, <2>1 DEF NoOrphans
    <2>3. InitialStock(v, q) = q
      BY <2>2, <1>7, BoundsAssumption DEF InitialStock, AddsDelta
    <2>4. req' \in [Slots -> Requests] /\ \A t \in Slots : Follows(t, changed)
      BY <1>3, <1>7, CommitsFollows
    <2> HIDE DEF v
    <2>5. q \in Integer /\ q \in (-MaxLedger)..MaxLedger /\ q \in Int /\ q >= 0
      BY <1>7, BoundsAssumption DEF Storable
    <2>6. stock' = [stock EXCEPT ![v] = q] /\ ledger' = [ledger EXCEPT ![v] = q]
      BY <1>7, <2>3 DEF v
    <2>7. \A w \in Levels : /\ w = v => stock'[w] = q /\ ledger'[w] = q
                            /\ w # v => stock'[w] = stock[w] /\ ledger'[w] = ledger[w]
      BY <1>3, <2>6 DEF TypeOK
    <2>8. TypeOK'
      BY <1>2, <1>3, <1>5, <2>1, <2>4, <2>5, <2>6 DEF TypeOK, Requests
    <2>9. StockNotNegative' /\ NoOrphans'
      BY <1>1, <1>3, <1>4, <1>7, <2>1, <2>5, <2>7 DEF StockNotNegative, NoOrphans, Levels
    <2>10. StockIsLedger'
      BY <1>2, <1>3, <2>5, <2>7, NoRowAssumption DEF StockIsLedger, StockAt, QuantityOf
    <2>11. OrgKeepsLocation'
      BY <1>2, <1>3, <1>4 DEF OrgKeepsLocation, Existing
    <2>12. Announces(changed)
      BY <1>1, <1>2, <1>4, <2>7 DEF Announces
    <2>13. QED
      BY <2>4, <2>8, <2>9, <2>10, <2>11, <2>12, CommitStep
  <1>8. QED
    BY <1>1, <1>6, <1>7
\* A location appears or changes its status; the other rows stay as they are.
LEMMA LocationStep ==
  ASSUME IInv, NEW changed, NEW l \in Locations, NEW to \in LocationStatus,
         location' = [location EXCEPT ![l] = to],
         UNCHANGED <<product, stock, ledger, orderAt>>, tainted' = tainted,
         req' \in [Slots -> Requests], \A t \in Slots : req'[t] = Idle \/ Follows(t, changed)
  PROVE  IInv'
  <1>1. TypeOK
    BY DEF IInv
  <1>2. TypeOK'
    BY <1>1 DEF TypeOK, Requests
  <1>3. \A k \in Locations : Exists(k) => Exists(k)'
    BY <1>1 DEF TypeOK, Exists
  <1>4. Announces(changed)
    BY <1>3, RowsAnnounced
  <1>5. QED
    BY <1>2, <1>3, <1>4, RowsKept, CommitStep DEF IInv

LEMMA CreateLocationStep ==
  ASSUME IInv, CreateLocation
  PROVE  IInv'
  BY CommitsFollows, LocationStep, StatusAssumption DEF CreateLocation, IInv

LEMMA SetStatusStep ==
  ASSUME IInv, SetStatus
  PROVE  IInv'
  BY UnchangedFollows, LocationStep, StatusAssumption DEF SetStatus, IInv

LEMMA CommitArchiveStep ==
  ASSUME IInv, NEW s \in Slots, CommitArchive(s)
  PROVE  IInv'
  <1>1. /\ req[s].op = "archive" /\ Finish(s, {})
        /\ location' = [location EXCEPT ![req[s].loc] = "ARCHIVED"]
        /\ UNCHANGED <<product, stock, ledger, orderAt>>
    BY DEF CommitArchive
  <1>2. req[s].loc \in Locations
    BY <1>1 DEF IInv, Checked
  <1>3. tainted' = tainted
    BY <1>1 DEF Finish
  <1>4. req' \in [Slots -> Requests] /\ \A t \in Slots : req'[t] = Idle \/ Follows(t, {})
    BY <1>1, FinishFollows DEF IInv
  <1>5. QED
    BY <1>1, <1>2, <1>3, <1>4, LocationStep DEF LocationStatus

LEMMA CommitDeleteStep ==
  ASSUME IInv, NEW s \in Slots, CommitDelete(s)
  PROVE  IInv'
  <1> DEFINE l == req[s].loc
             changed == {Existing, OrdersAt(l)} \cup {StockAt(<<p, l>>) : p \in Products}
  <1>1. /\ req[s].op = "unordered" /\ Exists(l)
        /\ location' = [location EXCEPT ![l] = "DELETED"]
        /\ stock' = Cascades(stock, l, NoRow) /\ ledger' = Cascades(ledger, l, 0)
        /\ orderAt' = [o \in Orders |-> IF orderAt[o] = l THEN "NULL" ELSE orderAt[o]]
        /\ Finish(s, changed) /\ UNCHANGED product
    BY DEF CommitDelete
  <1>2. /\ TypeOK /\ StockNotNegative /\ NoOrphans /\ StockIsLedger /\ OrgKeepsLocation
        /\ Checked(s)
    BY DEF IInv
  <1>3. l \in Locations /\ (req[s].stale \/ \E k \in Locations \ {l} : Exists(k))
    BY <1>1, <1>2 DEF Checked
  <1>4. req' \in [Slots -> Requests] /\ req'[s] = Idle /\ \A t \in Slots \ {s} : Follows(t, changed)
    BY <1>1, <1>2, FinishFollows
  <1>5. tainted \subseteq tainted' /\ (req[s].stale => Existing \in tainted')
    <2>1. Existing \in Reads(req[s])
      BY <1>1 DEF Reads
    <2>2. QED
      BY <1>1, <2>1, FinishTaints
  <1> HIDE DEF l
  <1>6. \A v \in Levels : /\ v[2] = l => stock'[v] = NoRow /\ ledger'[v] = 0
                          /\ v[2] # l => stock'[v] = stock[v] /\ ledger'[v] = ledger[v]
    BY <1>1 DEF Cascades
  <1>7. \A k \in Locations : k # l => Exists(k)' = Exists(k)
    BY <1>1, <1>2, <1>3 DEF TypeOK, Exists
  <1>8. TypeOK'
    <2>1. stock' \in [Levels -> Integer \cup {NoRow}]
      BY <1>1, <1>2 DEF Cascades, TypeOK
    <2>2. ledger' \in [Levels -> (-MaxLedger)..MaxLedger]
      BY <1>1, <1>2, BoundsAssumption DEF Cascades, TypeOK
    <2>3. QED
      BY <1>1, <1>2, <1>4, <2>1, <2>2 DEF TypeOK, Requests
  <1>9. StockNotNegative' /\ NoOrphans'
    BY <1>1, <1>2, <1>6, <1>7 DEF StockNotNegative, NoOrphans, Levels
  <1>10. StockIsLedger'
    BY <1>2, <1>5, <1>6 DEF StockIsLedger, StockAt, QuantityOf
  <1>11. OrgKeepsLocation'
    BY <1>3, <1>5, <1>7 DEF OrgKeepsLocation, Existing
  <1>12. Announces(changed)
    <2>1. \A v \in Levels : stock'[v] # stock[v] => StockAt(v) \in changed
      <3>1. \A v \in Levels : v[2] = l => v[1] \in Products /\ StockAt(v) = StockAt(<<v[1], l>>)
        BY DEF Levels, StockAt
      <3>2. QED
        BY <1>6, <3>1
    <2>2. ~ \E o \in Orders, k \in Locations : orderAt'[o] = k /\ orderAt[o] # k
      BY <1>1, LocationsAssumption
    <2>3. QED
      BY <1>1, <2>1, <2>2 DEF Announces
  <1>13. QED
    BY <1>4, <1>8, <1>9, <1>10, <1>11, <1>12, CommitStep
LEMMA PlaceOrderStep ==
  ASSUME IInv, PlaceOrder
  PROVE  IInv'
  <1>1. PICK o \in Orders, l \in Locations :
          /\ orderAt' = [orderAt EXCEPT ![o] = l]
          /\ Commits({OrdersAt(k) : k \in Locations \cap {l, orderAt[o]}})
    BY DEF PlaceOrder
  <1> DEFINE changed == {OrdersAt(k) : k \in Locations \cap {l, orderAt[o]}}
  <1>2. UNCHANGED <<location, product, stock, ledger, tainted>>
    BY DEF PlaceOrder
  <1>3. TypeOK
    BY DEF IInv
  <1>4. req' \in [Slots -> Requests] /\ \A t \in Slots : Follows(t, changed)
    BY <1>1, <1>3, CommitsFollows
  <1>5. TypeOK'
    BY <1>1, <1>2, <1>3, <1>4 DEF TypeOK, Requests
  <1>6. \A k \in Locations : Exists(k)' = Exists(k)
    BY <1>2, ExistsUnchanged
  <1>7. Announces(changed)
    <2>1. \A x \in Orders, k \in Locations : orderAt'[x] = k /\ orderAt[x] # k => k = l
      BY <1>1, <1>3 DEF TypeOK
    <2>2. OrdersAt(l) \in changed
      OBVIOUS
    <2>3. QED
      BY <1>2, <1>6, <2>1, <2>2 DEF Announces
  <1>8. QED
    BY <1>2, <1>4, <1>5, <1>6, <1>7, RowsKept, CommitStep DEF IInv

LEMMA RemoveOrderStep ==
  ASSUME IInv, RemoveOrder
  PROVE  IInv'
  <1>1. PICK o \in Orders :
          /\ orderAt' = [orderAt EXCEPT ![o] = "ABSENT"]
          /\ Commits({OrdersAt(k) : k \in Locations \cap {orderAt[o]}})
    BY DEF RemoveOrder
  <1> DEFINE changed == {OrdersAt(k) : k \in Locations \cap {orderAt[o]}}
  <1>2. UNCHANGED <<location, product, stock, ledger, tainted>>
    BY DEF RemoveOrder
  <1>3. TypeOK
    BY DEF IInv
  <1>4. req' \in [Slots -> Requests] /\ \A t \in Slots : Follows(t, changed)
    BY <1>1, <1>3, CommitsFollows
  <1>5. TypeOK'
    BY <1>1, <1>2, <1>3, <1>4 DEF TypeOK, Requests
  <1>6. \A k \in Locations : Exists(k)' = Exists(k)
    BY <1>2, ExistsUnchanged
  <1>7. Announces(changed)
    <2>1. ~ \E x \in Orders, k \in Locations : orderAt'[x] = k /\ orderAt[x] # k
      BY <1>1, <1>3, LocationsAssumption DEF TypeOK
    <2>2. QED
      BY <1>2, <1>6, <2>1 DEF Announces
  <1>8. QED
    BY <1>2, <1>4, <1>5, <1>6, <1>7, RowsKept, CommitStep DEF IInv

LEMMA StutterStep ==
  ASSUME IInv, UNCHANGED vars
  PROVE  IInv'
  BY DEF vars, IInv, TypeOK, StockNotNegative, NoOrphans, StockIsLedger, OrgKeepsLocation, Checked,
         StockAt, Existing, QuantityOf, Exists, OnHand, HasOrder

--------------------------------------------------------------------------------
LEMMA InitHolds == Init => IInv
  <1> SUFFICES ASSUME Init PROVE IInv
    OBVIOUS
  <1>1. TypeOK
    <2>1. req \in [Slots -> Requests]
      BY IdleTyped DEF Init
    <2>2. location \in [Locations -> LocationStatus \cup {"ABSENT", "DELETED"}] /\ product \in SUBSET Products
      BY DEF Init, LocationStatus
    <2>3. ledger \in [Levels -> (-MaxLedger)..MaxLedger] /\ stock \in [Levels -> Integer \cup {NoRow}]
      BY BoundsAssumption DEF Init
    <2>4. orderAt \in [Orders -> Locations \cup {"ABSENT", "NULL"}]
      BY DEF Init
    <2>5. QED
      BY <2>1, <2>2, <2>3, <2>4 DEF TypeOK, Requests
  <1>2. StockNotNegative /\ NoOrphans /\ StockIsLedger
    BY DEF Init, StockNotNegative, NoOrphans, StockIsLedger, QuantityOf
  <1>3. OrgKeepsLocation
    BY DEF Init, OrgKeepsLocation, Exists, LocationStatus
  <1>4. \A t \in Slots : Checked(t)
    BY CheckedIdle DEF Init
  <1>5. QED
    BY <1>1, <1>2, <1>3, <1>4 DEF IInv

LEMMA NextHolds == IInv /\ [Next]_vars => IInv'
  <1>1. SUFFICES ASSUME IInv, [Next]_vars PROVE IInv'
    OBVIOUS
  <1>2. ASSUME NEW s \in Slots,
               \/ ReadLevel(s) \/ CommitAdjust(s) \/ CheckArchive(s) \/ CommitArchive(s)
               \/ CountLocations(s) \/ CountStock(s) \/ CountOrders(s) \/ CommitDelete(s) \/ Abort(s)
        PROVE  IInv'
    BY <1>1, <1>2, ReadLevelStep, CommitAdjustStep, CheckArchiveStep, CommitArchiveStep,
       CountLocationsStep, CountStockStep, CountOrdersStep, CommitDeleteStep, AbortStep
  <1>3. QED
    BY <1>1, <1>2, CreateProductStep, CreateLocationStep, SetStatusStep, PlaceOrderStep,
       RemoveOrderStep, StutterStep DEF Next

THEOREM Invariance == Spec => []IInv
  BY InitHolds, NextHolds, PTL DEF Spec

\* Rows and open requests keep their types; a quantity fits its column.
THEOREM Typing == Spec => []TypeOK
  BY Invariance, PTL DEF IInv

\* However adjustments overlap, with checks made on quantities that have been replaced,
\* no quantity becomes negative: what is written is what was checked (createAdjustmentWithTx).
THEOREM NotNegative == Spec => []StockNotNegative
  BY Invariance, PTL DEF IInv

\* A level is the sum of its adjustments as long as only requests with current reads
\* wrote it.
THEOREM LedgerHolds == Spec => []StockIsLedger
  BY Invariance, PTL DEF IInv

\* An adjustment that overlaps the deletion of its location leaves no row behind.
THEOREM RowsHaveOwners == Spec => []NoOrphans
  BY Invariance, PTL DEF IInv

\* The last location is deleted only by a deletion whose count is stale.
THEOREM LocationRemains == Spec => []OrgKeepsLocation
  BY Invariance, PTL DEF IInv
--------------------------------------------------------------------------------
\* Which step archives or deletes a location, and whose request it ends.
LEMMA WhoClosesLocation ==
  ASSUME IInv, Next, NEW l \in Locations, Exists(l),
         location'[l] \in {"ARCHIVED", "DELETED"} \ {location[l]}
  PROVE  \E t \in Slots :
           /\ req[t].op \in {"archive", "unordered"} /\ req[t].loc = l
           /\ \A u \in Slots \ {t} : req'[u].op = req[u].op
  <1>1. TypeOK
    BY DEF IInv
  <1>2. location'[l] # location[l] /\ location'[l] \in {"ARCHIVED", "DELETED"} /\ location[l] # "ABSENT"
    BY DEF Exists, LocationStatus
  <1>3. PICK t \in Slots : CommitArchive(t) \/ CommitDelete(t)
    BY <1>1, <1>2, StatusAssumption DEF Next, CreateProduct, CreateLocation, SetStatus, PlaceOrder, RemoveOrder, ReadLevel,
       CommitAdjust, CheckArchive, CountLocations, CountStock, CountOrders, Abort, TypeOK, LocationStatus
  <1>4. req[t].op \in {"archive", "unordered"} /\ \E changed : Finish(t, changed)
    BY <1>3 DEF CommitArchive, CommitDelete
  <1>5. req[t].loc = l
    BY <1>1, <1>2, <1>3 DEF CommitArchive, CommitDelete, TypeOK
  <1>6. \A u \in Slots \ {t} : req'[u].op = req[u].op
    BY <1>1, <1>4, FinishFollows DEF Follows
  <1>7. QED
    BY <1>4, <1>5, <1>6

\* Stock on hand keeps its location: updateLocation and deleteLocation close one with
\* stock only when the count they made has become stale.
THEOREM StockIsKept == Spec => StockKeepsLocation
  <1>1. ASSUME IInv, [Next]_vars, NEW l \in Locations, NEW s \in Slots,
               Exists(l), OnHand(l), location'[l] \in {"ARCHIVED", "DELETED"} \ {location[l]},
               req[s].op # "idle", req'[s].op = "idle"
        PROVE  req[s].stale
    <2>1. Next
      BY <1>1 DEF vars
    <2>2. req[s].op \in {"archive", "unordered"} /\ req[s].loc = l
      BY <1>1, <2>1, WhoClosesLocation
    <2>3. QED
      BY <1>1, <2>2 DEF IInv, Checked
  <1>2. IInv /\ [Next]_vars =>
          [\A l \in Locations, s \in Slots :
             Exists(l) /\ OnHand(l) /\ location'[l] \in {"ARCHIVED", "DELETED"} \ {location[l]}
             /\ req[s].op # "idle" /\ req'[s].op = "idle" => req[s].stale]_vars
    BY <1>1
  <1>3. QED
    BY <1>2, Invariance, PTL DEF Spec, StockKeepsLocation

\* An order keeps the location it was placed at: deleteLocation takes it away only when
\* the count of orders it made has become stale.
THEOREM OrdersAreKept == Spec => OrderKeepsLocation
  <1>1. ASSUME IInv, [Next]_vars, NEW o \in Orders, NEW s \in Slots,
               orderAt[o] \in Locations, orderAt'[o] = "NULL",
               req[s].op = "unordered", req'[s].op = "idle"
        PROVE  req[s].stale
    <2>1. TypeOK
      BY <1>1 DEF IInv
    <2>2. orderAt'[o] # orderAt[o]
      BY <1>1, LocationsAssumption
    <2>3. PICK t \in Slots : CommitDelete(t)
      BY <1>1, <2>1, <2>2, LocationsAssumption DEF Next, vars, CreateProduct, CreateLocation, SetStatus,
         PlaceOrder, RemoveOrder, ReadLevel, CommitAdjust, CheckArchive, CommitArchive, CountLocations,
         CountStock, CountOrders, Abort, TypeOK
    <2>4. req[t].op = "unordered" /\ req[t].loc = orderAt[o] /\ \E changed : Finish(t, changed)
      BY <2>2, <2>3 DEF CommitDelete
    <2>5. \A u \in Slots \ {t} : req'[u].op = req[u].op
      BY <2>1, <2>4, FinishFollows DEF Follows
    <2>6. t = s
      BY <1>1, <2>5
    <2>7. HasOrder(req[s].loc)
      BY <2>4, <2>6 DEF HasOrder
    <2>8. QED
      BY <1>1, <2>7 DEF IInv, Checked
  <1>2. IInv /\ [Next]_vars =>
          [\A o \in Orders, s \in Slots :
             orderAt[o] \in Locations /\ orderAt'[o] = "NULL" /\ req[s].op = "unordered" /\ req'[s].op = "idle"
               => req[s].stale]_vars
    BY <1>1
  <1>3. QED
    BY <1>2, Invariance, PTL DEF Spec, OrderKeepsLocation

--------------------------------------------------------------------------------
(* Reports *)

Pick(s) == CHOOSE x \in s : TRUE

\* A sum goes through a set one chosen element after the other.
SumsUp(h, g, S) == h = [s \in SUBSET S |-> IF s = {} THEN 0 ELSE g[Pick(s)] + h[s \ {Pick(s)}]]

\* MapThenSumSet(LAMBDA x : g[x], S).
SumOver(g, S) == (CHOOSE h : SumsUp(h, g, S))[S]

\* Sums of no element or of one that counts nothing.
LEMMA SumOfNone ==
  ASSUME NEW g, NEW S, \A x \in S : g[x] = 0, S = {} \/ \E x : S = {x}
  PROVE  SumOver(g, S) = 0
  <1> DEFINE k == [s \in SUBSET S |-> 0]
             h == CHOOSE h : SumsUp(h, g, S)
  <1>1. SumsUp(k, g, S)
    <2>1. ASSUME NEW s \in SUBSET S, s # {} PROVE g[Pick(s)] + k[s \ {Pick(s)}] = 0
      BY <2>1 DEF Pick
    <2> HIDE DEF k
    <2>2. k = [s \in SUBSET S |-> IF s = {} THEN 0 ELSE g[Pick(s)] + k[s \ {Pick(s)}]]
      BY <2>1 DEF k
    <2>3. QED
      BY <2>2 DEF SumsUp
  <1>2. SumsUp(h, g, S)
    <2> HIDE DEF k
    <2>1. QED
      BY <1>1
  <1> HIDE DEF h
  <1>3. h[{}] = 0
    BY <1>2 DEF SumsUp
  <1>4. ASSUME NEW x, S = {x} PROVE h[S] = 0
    <2>1. Pick(S) = x /\ S \ {x} = {}
      BY <1>4 DEF Pick
    <2>2. h[S] = g[x] + h[{}]
      BY <1>2, <1>4, <2>1 DEF SumsUp
    <2>3. QED
      BY <1>3, <1>4, <2>2
  <1>5. h[S] = 0
    BY <1>3, <1>4
  <1>6. QED
    BY <1>5 DEF h, SumOver

LEMMA SameSums ==
  ASSUME NEW f, NEW g, NEW S, \A x \in S : f[x] = g[x]
  PROVE  SumOver(f, S) = SumOver(g, S)
  <1>1. \A s \in SUBSET S : s # {} => f[Pick(s)] = g[Pick(s)]
    BY DEF Pick
  <1>2. ASSUME NEW h PROVE SumsUp(h, f, S) <=> SumsUp(h, g, S)
    <2>1. [s \in SUBSET S |-> IF s = {} THEN 0 ELSE f[Pick(s)] + h[s \ {Pick(s)}]]
            = [s \in SUBSET S |-> IF s = {} THEN 0 ELSE g[Pick(s)] + h[s \ {Pick(s)}]]
      BY <1>1
    <2>2. QED
      BY <2>1 DEF SumsUp
  <1>3. (CHOOSE h : SumsUp(h, f, S)) = (CHOOSE h : SumsUp(h, g, S))
    BY <1>2
  <1>4. QED
    BY <1>3 DEF SumOver

\* The two reports add up the same rows: a product without levels is one row that counts nothing.
LEMMA LowStock == TypeOK => LowStockAgrees
  <1> SUFFICES ASSUME TypeOK PROVE LowStockAgrees
    OBVIOUS
  <1> DEFINE quantity == [row \in LeftJoin |-> IF row \in Levels THEN stock[row] ELSE 0]
             RowsOf(p)   == {row \in LeftJoin : row[1] = p}
             LevelsOf(p) == {p} \X {l \in Locations : stock[<<p, l>>] # NoRow}
             total(p)    == MapThenSumSet(LAMBDA row : quantity[row], RowsOf(p))
  <1>1. ASSUME NEW p \in product PROVE total(p) = TotalQuantity(p)
    <2>1. p \in Products
      BY DEF TypeOK
    <2>2. \A v \in Levels : v # <<p, "NULL">>
      BY LocationsAssumption DEF Levels
    <2>3. total(p) = SumOver(quantity, RowsOf(p))
      BY DEF MapThenSumSet, MapThenFoldSet, SumOver, SumsUp, Pick
    <2>4. TotalQuantity(p) = SumOver(stock, LevelsOf(p))
      BY DEF TotalQuantity, MapThenSumSet, MapThenFoldSet, SumOver, SumsUp, Pick
    <2>5. CASE LevelsOf(p) # {}
      <3>1. ASSUME NEW row \in RowsOf(p) PROVE row \in LevelsOf(p)
        <4>1. row \in InnerJoin
          <5>1. SUFFICES ASSUME row \notin InnerJoin PROVE FALSE
            OBVIOUS
          <5>2. PICK q \in product : row = <<q, "NULL">> /\ \A l \in Locations : stock[<<q, l>>] = NoRow
            BY <5>1 DEF LeftJoin
          <5>3. q = p
            BY <5>2
          <5>4. QED
            BY <2>5, <5>2, <5>3
        <4>2. PICK q \in Products, l \in Locations : row = <<q, l>>
          BY <4>1 DEF InnerJoin, Levels
        <4>3. q = p /\ stock[<<p, l>>] # NoRow
          BY <4>1, <4>2 DEF InnerJoin
        <4>4. QED
          BY <4>2, <4>3
      <3>2. ASSUME NEW v \in LevelsOf(p) PROVE v \in RowsOf(p)
        BY <1>1, <2>1 DEF LeftJoin, InnerJoin, Levels
      <3>3. RowsOf(p) = LevelsOf(p)
        <4> HIDE DEF RowsOf, LevelsOf
        <4>1. QED
          BY <3>1, <3>2
      <3>4. \A row \in RowsOf(p) : quantity[row] = stock[row]
        BY <2>1, <3>3 DEF Levels
      <3> HIDE DEF quantity, RowsOf, LevelsOf, total
      <3>5. SumOver(quantity, RowsOf(p)) = SumOver(stock, RowsOf(p))
        BY <3>4, SameSums
      <3>6. QED
        BY <2>3, <2>4, <3>3, <3>5
    <2>6. CASE LevelsOf(p) = {}
      <3>1. \A l \in Locations : stock[<<p, l>>] = NoRow
        BY <2>6
      <3>2. RowsOf(p) = {<<p, "NULL">>}
        BY <1>1, <2>1, <2>2, <3>1 DEF LeftJoin, InnerJoin, Levels
      <3>3. \A row \in RowsOf(p) : quantity[row] = 0
        BY <2>2, <3>2
      <3> HIDE DEF quantity, RowsOf, LevelsOf, total
      <3>4. SumOver(quantity, RowsOf(p)) = 0 /\ SumOver(stock, LevelsOf(p)) = 0
        BY <2>6, <3>2, <3>3, SumOfNone
      <3>5. QED
        BY <2>3, <2>4, <3>4
    <2>7. QED
      BY <2>5, <2>6
  <1>2. {row[1] : row \in LeftJoin} = product
    <2>1. ASSUME NEW row \in LeftJoin PROVE row[1] \in product
      BY DEF LeftJoin, InnerJoin
    <2>2. ASSUME NEW p \in product PROVE \E row \in LeftJoin : row[1] = p
      <3>1. p \in Products
        BY DEF TypeOK
      <3>2. CASE \A l \in Locations : stock[<<p, l>>] = NoRow
        <4>1. <<p, "NULL">> \in LeftJoin
          BY <2>2, <3>2 DEF LeftJoin
        <4>2. QED
          BY <4>1
      <3>3. CASE \E l \in Locations : stock[<<p, l>>] # NoRow
        <4>1. PICK l \in Locations : stock[<<p, l>>] # NoRow
          BY <3>3
        <4>2. <<p, l>> \in LeftJoin
          BY <2>2, <3>1, <4>1 DEF LeftJoin, InnerJoin, Levels
        <4>3. QED
          BY <4>2
      <3>4. QED
        BY <3>2, <3>3
    <2>3. QED
      BY <2>1, <2>2
  <1>3. LowStockCount = Cardinality({p \in {row[1] : row \in LeftJoin} : total(p) <= Threshold[p]})
    BY DEF LowStockCount
  <1>4. {p \in {row[1] : row \in LeftJoin} : total(p) <= Threshold[p]} = LowStockRows
    <2> HIDE DEF total
    <2>1. QED
      BY <1>1, <1>2 DEF LowStockRows
  <1>5. QED
    BY <1>3, <1>4 DEF LowStockAgrees

\* The query that groups the left join counts the products that the loop over products
\* loaded with their levels counts (getLowStockProductCount), in every state.
THEOREM ReportsAgree == Spec => []LowStockAgrees
  BY Invariance, LowStock, PTL DEF IInv
================================================================================
