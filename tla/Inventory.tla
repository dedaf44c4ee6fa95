-------------------------------- MODULE Inventory --------------------------------
(***************************************************************************)
(* Stock per product and location, the adjustments recorded about it, the  *)
(* locations themselves and the orders placed at them: InventoryService,   *)
(* ProductService.createProduct, LocationService, and what OrderService    *)
(* does with an order's location.                                          *)
(*                                                                         *)
(* A request reads before it writes, in READ COMMITTED transactions or in  *)
(* none, so other requests commit in between.  The ghost field stale of an *)
(* open request says that something it read has since been changed, and    *)
(* tainted collects what stale requests have written: the properties say   *)
(* that everything else is as if requests ran one after the other.         *)
(*                                                                         *)
(* Requests are those of members with access to all locations; what a      *)
(* restricted member asks for is a subset (location-scope.ts).             *)
(***************************************************************************)
EXTENDS Integers, FiniteSetsExt

CONSTANTS
  Slots,       \* requests that may be open at the same time
  Products,
  Locations,
  Settable,    \* statuses requests give a location: ACTIVE and INACTIVE differ in no action
  Orders,
  Deltas,      \* what adjustments add
  Threshold,   \* Product.reorderThreshold
  MaxInt,      \* largest value of a PostgreSQL integer column
  MaxLedger,   \* bound: size of a level's sum of adjustments
  NoRow        \* in place of the quantity of a level that has no row

LocationStatus == {"ACTIVE", "INACTIVE", "ARCHIVED"}

ASSUME StatusAssumption == Settable \subseteq LocationStatus
ASSUME DeltasAssumption == Deltas \subseteq Int
ASSUME BoundsAssumption == MaxInt \in Nat /\ MaxLedger \in Nat
ASSUME NoRowAssumption == NoRow \notin Int
ASSUME LocationsAssumption == {"NULL", "ABSENT", "none"} \cap Locations = {}
ASSUME ThresholdAssumption == Threshold \in [Products -> Nat]

VARIABLES
  location,    \* Location.status, "ABSENT" before creation, "DELETED" after
  product,     \* Product rows
  stock,       \* InventoryLevel.quantity, NoRow when there is no row
  ledger,      \* sum of the delta of the InventoryAdjustment rows of a level
  orderAt,     \* Order.locationId, "ABSENT" without the order
  req,         \* the open request of each slot
  tainted      \* ghost: what requests with stale reads have written

vars == <<location, product, stock, ledger, orderAt, req, tainted>>

Levels  == Products \X Locations
Integer == (-MaxInt - 1)..MaxInt
Idle    == [op |-> "idle", level |-> <<>>, loc |-> "none", delta |-> 0, read |-> NoRow, stale |-> FALSE]
Steps   == {"idle", "adjust", "archive", "counted", "emptied", "unordered"}

TypeOK ==
  /\ location \in [Locations -> LocationStatus \cup {"ABSENT", "DELETED"}]
  /\ product \in SUBSET Products
  /\ stock \in [Levels -> Integer \cup {NoRow}]
  /\ ledger \in [Levels -> (-MaxLedger)..MaxLedger]
  /\ orderAt \in [Orders -> Locations \cup {"ABSENT", "NULL"}]
  /\ req \in [Slots -> [op: Steps, level: Levels \cup {<<>>}, loc: Locations \cup {"none"},
                        delta: Deltas \cup {0}, read: Integer \cup {NoRow}, stale: BOOLEAN]]

\* A row is inserted with quantity 0.
QuantityOf(q) == IF q = NoRow THEN 0 ELSE q

Exists(l)   == location[l] \in LocationStatus
OnHand(l)   == \E p \in Products : QuantityOf(stock[<<p, l>>]) > 0
HasOrder(l) == \E o \in Orders : orderAt[o] = l

\* An organization starts with a location and a product nobody has counted yet.
Init ==
  /\ \E l \in Locations : location = [k \in Locations |-> IF k = l THEN "ACTIVE" ELSE "ABSENT"]
  /\ \E p \in Products : product = {p}
  /\ stock = [v \in Levels |-> NoRow] /\ ledger = [v \in Levels |-> 0]
  /\ orderAt = [o \in Orders |-> "ABSENT"]
  /\ req = [s \in Slots |-> Idle] /\ tainted = {}

--------------------------------------------------------------------------------
(* What requests have read, and what a commit changes *)

StockAt(v)  == <<"stock", v[1], v[2]>>
OrdersAt(l) == <<"orders", l>>
Existing    == <<"locations">>

Reads(r) ==
  CASE r.op = "adjust"    -> {StockAt(r.level)}
    [] r.op = "archive"   -> {StockAt(<<p, r.loc>>) : p \in Products}
    [] r.op = "counted"   -> {Existing}
    [] r.op = "emptied"   -> {Existing} \cup {StockAt(<<p, r.loc>>) : p \in Products}
    [] r.op = "unordered" -> {Existing, OrdersAt(r.loc)} \cup {StockAt(<<p, r.loc>>) : p \in Products}
    [] OTHER              -> {}

\* Requests in the other slots, now stale if they had read something of changed.
Overtaken(changed) ==
  [s \in Slots |-> [req[s] EXCEPT !.stale = @ \/ Reads(req[s]) \cap changed # {}]]

Free(s)           == req[s].op = "idle"
Open(s, r)        == req' = [req EXCEPT ![s] = r]
Commits(changed)  == req' = Overtaken(changed)
Finish(s, changed) ==
  /\ req' = [Overtaken(changed) EXCEPT ![s] = Idle]
  /\ tainted' = IF req[s].stale THEN tainted \cup (changed \cap Reads(req[s])) ELSE tainted

--------------------------------------------------------------------------------
(* Adjustments *)

\* createAdjustment: the upsert with an empty update is a SELECT, and an INSERT of
\* quantity 0 when there is no row; the check is on the quantity that was read.
ReadLevel(s) ==
  /\ Free(s)
  /\ \E v \in Levels, d \in Deltas :
       /\ v[1] \in product /\ Exists(v[2])
       /\ QuantityOf(stock[v]) + d >= 0
       /\ Open(s, [Idle EXCEPT !.op = "adjust", !.level = v, !.delta = d, !.read = stock[v]])
  /\ UNCHANGED <<location, product, stock, ledger, orderAt, tainted>>

\* An inserted row must still be the only one, an updated row must still be there;
\* the quantity written is computed from the one read.
RowAsRead(r)     == r.read = NoRow <=> stock[r.level] = NoRow
Increments(r)    == QuantityOf(stock[r.level]) + r.delta   \* mutated form
NewQuantity(r)   == QuantityOf(r.read) + r.delta
AddsDelta(v, d)  == ledger[v] + d

\* The statement fails on a quantity the column cannot hold.
AnyInteger(q) == q \in Int                                              \* mutated form
Storable(q)   == q \in Integer

CommitAdjust(s) ==
  LET r == req[s]  v == req[s].level
  IN  /\ r.op = "adjust" /\ Exists(v[2])
      /\ RowAsRead(r)
      /\ Storable(NewQuantity(r))
      /\ AddsDelta(v, r.delta) \in (-MaxLedger)..MaxLedger
      /\ stock' = [stock EXCEPT ![v] = NewQuantity(r)]
      /\ ledger' = [ledger EXCEPT ![v] = AddsDelta(v, r.delta)]
      /\ Finish(s, {StockAt(v)})
      /\ UNCHANGED <<location, product, orderAt>>

\* createProduct, with or without initial stock: one transaction, and nobody else
\* sees the product before it commits.
Uncounted(v, q)    == ledger[v]                                         \* mutated form
InitialStock(v, q) == AddsDelta(v, q)

CreateProduct ==
  /\ \E p \in Products \ product :
       /\ product' = product \cup {p}
       /\ \/ UNCHANGED <<stock, ledger, req>>
          \/ \E l \in Locations, q \in Deltas :
               /\ Exists(l) /\ q \in 0..MaxLedger /\ Storable(q)
               /\ stock' = [stock EXCEPT ![<<p, l>>] = q]
               /\ ledger' = [ledger EXCEPT ![<<p, l>>] = InitialStock(<<p, l>>, q)]
               /\ Commits({StockAt(<<p, l>>)})
  /\ UNCHANGED <<location, orderAt, tainted>>

--------------------------------------------------------------------------------
(* Locations *)

CreateLocation ==
  /\ \E l \in Locations, status \in Settable :
       location[l] = "ABSENT" /\ location' = [location EXCEPT ![l] = status]
  /\ Commits({Existing})
  /\ UNCHANGED <<product, stock, ledger, orderAt, tainted>>

\* updateLocation with status ARCHIVED: the stock is counted, then the row updated.
NoCheck(l) == l \in Locations                                           \* mutated form
assertNoInventoryOnHand(l) == ~OnHand(l)

CheckArchive(s) ==
  /\ Free(s) /\ "ARCHIVED" \in Settable
  /\ \E l \in Locations : /\ Exists(l) /\ assertNoInventoryOnHand(l)
                          /\ Open(s, [Idle EXCEPT !.op = "archive", !.loc = l])
  /\ UNCHANGED <<location, product, stock, ledger, orderAt, tainted>>

CommitArchive(s) ==
  /\ req[s].op = "archive" /\ Exists(req[s].loc)
  /\ location' = [location EXCEPT ![req[s].loc] = "ARCHIVED"]
  /\ Finish(s, {})
  /\ UNCHANGED <<product, stock, ledger, orderAt>>

\* updateLocation with another status: nothing is counted.
SetStatus ==
  /\ \E l \in Locations, status \in Settable \ {"ARCHIVED"} :
       Exists(l) /\ location' = [location EXCEPT ![l] = status]
  /\ UNCHANGED <<product, stock, ledger, orderAt, req, tainted>>

\* deleteLocation: three counts one after the other, then the deletion.
CountAny(l)  == Cardinality({k \in Locations : Exists(k)}) >= 1          \* mutated form
NotOnly(l)   == Cardinality({k \in Locations : Exists(k)}) > 1

CountLocations(s) ==
  /\ Free(s)
  /\ \E l \in Locations : /\ Exists(l) /\ NotOnly(l)
                          /\ Open(s, [Idle EXCEPT !.op = "counted", !.loc = l])
  /\ UNCHANGED <<location, product, stock, ledger, orderAt, tainted>>

CountStock(s) ==
  /\ req[s].op = "counted" /\ assertNoInventoryOnHand(req[s].loc)
  /\ Open(s, [req[s] EXCEPT !.op = "emptied"])
  /\ UNCHANGED <<location, product, stock, ledger, orderAt, tainted>>

IgnoresOrders(l)           == l \in Locations                           \* mutated form
assertNoLocationHistory(l) == ~HasOrder(l)

CountOrders(s) ==
  /\ req[s].op = "emptied" /\ assertNoLocationHistory(req[s].loc)
  /\ Open(s, [req[s] EXCEPT !.op = "unordered"])
  /\ UNCHANGED <<location, product, stock, ledger, orderAt, tainted>>

\* Levels and adjustments cascade; orders keep a null location.
KeepsRows(rows, l, none) == rows                                        \* mutated form
Cascades(rows, l, none)  == [v \in Levels |-> IF v[2] = l THEN none ELSE rows[v]]

CommitDelete(s) ==
  LET l == req[s].loc
  IN  /\ req[s].op = "unordered" /\ Exists(l)
      /\ location' = [location EXCEPT ![l] = "DELETED"]
      /\ stock' = Cascades(stock, l, NoRow)
      /\ ledger' = Cascades(ledger, l, 0)
      /\ orderAt' = [o \in Orders |-> IF orderAt[o] = l THEN "NULL" ELSE orderAt[o]]
      /\ Finish(s, {Existing, OrdersAt(l)} \cup {StockAt(<<p, l>>) : p \in Products})
      /\ UNCHANGED product

--------------------------------------------------------------------------------
(* Orders at a location, and requests that fail *)

\* createOrder and updateOrder: a location of any status is accepted.
PlaceOrder ==
  /\ \E o \in Orders, l \in Locations :
       /\ Exists(l) /\ orderAt[o] # l
       /\ orderAt' = [orderAt EXCEPT ![o] = l]
       /\ Commits({OrdersAt(k) : k \in Locations \cap {l, orderAt[o]}})
  /\ UNCHANGED <<location, product, stock, ledger, tainted>>

\* OrderService.deleteOrder
RemoveOrder ==
  /\ \E o \in Orders :
       /\ orderAt[o] # "ABSENT"
       /\ orderAt' = [orderAt EXCEPT ![o] = "ABSENT"]
       /\ Commits({OrdersAt(k) : k \in Locations \cap {orderAt[o]}})
  /\ UNCHANGED <<location, product, stock, ledger, tainted>>

Abort(s) ==
  /\ ~Free(s) /\ req' = [req EXCEPT ![s] = Idle]
  /\ UNCHANGED <<location, product, stock, ledger, orderAt, tainted>>

Next ==
  \/ CreateProduct \/ CreateLocation \/ SetStatus \/ PlaceOrder \/ RemoveOrder
  \/ \E s \in Slots : \/ ReadLevel(s) \/ CommitAdjust(s) \/ CheckArchive(s) \/ CommitArchive(s)
                      \/ CountLocations(s) \/ CountStock(s) \/ CountOrders(s) \/ CommitDelete(s)
                      \/ Abort(s)

Spec == Init /\ [][Next]_vars

--------------------------------------------------------------------------------
(* Reports *)

\* getAggregatedInventorySnapshot and getLowStockProductCount for restricted members:
\* products loaded with their levels and added up in memory.
TotalQuantity(p) ==
  MapThenSumSet(LAMBDA v : stock[v], {p} \X {l \in Locations : stock[<<p, l>>] # NoRow})
LowStockRows == {p \in product : TotalQuantity(p) <= Threshold[p]}

\* getLowStockProductCount: the query groups the left join of products and levels,
\* where a product without levels is a row with a null quantity.
InnerJoin == {v \in Levels : v[1] \in product /\ stock[v] # NoRow}        \* mutated form
LeftJoin  == InnerJoin \cup {<<p, "NULL">> : p \in {q \in product : \A l \in Locations : stock[<<q, l>>] = NoRow}}
LowStockCount ==
  LET quantity == [row \in LeftJoin |-> IF row \in Levels THEN stock[row] ELSE 0]
      total(p) == MapThenSumSet(LAMBDA row : quantity[row], {row \in LeftJoin : row[1] = p})
  IN  Cardinality({p \in {row[1] : row \in LeftJoin} : total(p) <= Threshold[p]})

--------------------------------------------------------------------------------
(* Properties *)

\* "Negative adjustments cannot drive stock below zero": neither does any overlap of
\* adjustments whose check used an old quantity (createAdjustmentWithTx).
StockNotNegative == \A v \in Levels : stock[v] # NoRow => stock[v] >= 0

\* A level is the sum of the adjustments recorded for it, unless an adjustment was
\* computed from a quantity another one had replaced: then its write undoes the other's.
StockIsLedger == \A v \in Levels : StockAt(v) \notin tainted => QuantityOf(stock[v]) = ledger[v]

\* Levels and recorded adjustments belong to a location and a product that exist: no
\* overlap of an adjustment with a deletion brings a row of the location back.
NoOrphans ==
  \A v \in Levels : stock[v] # NoRow \/ ledger[v] # 0 => Exists(v[2]) /\ v[1] \in product

\* The organization keeps a location, unless a deletion had counted one that another
\* deletion removed (deleteLocation, "Cannot delete the only location").
OrgKeepsLocation == (\E l \in Locations : Exists(l)) \/ Existing \in tainted

\* The two ways of counting low-stock products agree (getLowStockProductCount).
LowStockAgrees == LowStockCount = Cardinality(LowStockRows)

\* Only a stale request archives or deletes a location with stock on hand
\* (assertNoInventoryOnHand of updateLocation and deleteLocation).
StockKeepsLocation ==
  [][\A l \in Locations, s \in Slots :
       Exists(l) /\ OnHand(l) /\ location'[l] \in {"ARCHIVED", "DELETED"} \ {location[l]}
       /\ req[s].op # "idle" /\ req'[s].op = "idle" => req[s].stale]_vars

\* Only a stale deletion takes an order's location away (assertNoLocationHistory).
OrderKeepsLocation ==
  [][\A o \in Orders, s \in Slots :
       orderAt[o] \in Locations /\ orderAt'[o] = "NULL" /\ req[s].op = "unordered" /\ req'[s].op = "idle"
         => req[s].stale]_vars
================================================================================
