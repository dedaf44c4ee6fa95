# Ledger Light Admin: TLA+ models and proofs

Ledger Light Admin is a multi-tenant back office for small retailers: a NestJS
API over PostgreSQL (Prisma), Stripe for card payments, a Next.js frontend and an
MCP server that is one more client of the API. The backend is one process per
container and keeps no state in memory; what can go wrong goes wrong between the
statements of a request, between a transaction and Stripe, between a token and the
rows it was made from, or between the answers a client receives. This directory
models those places.

Contents: [inventory](#1-inventory) · [plan](#2-plan) · [modules and code](#3-modules-and-code) ·
[runs](#4-runs) · [proofs](#5-proofs) · [only model-checked](#6-what-is-only-model-checked) ·
[not modelled](#7-what-is-not-modelled) · [observations](#8-observations-without-a-run)

## 1. Inventory

| Component | State | Operations that change it | Hard behaviour | What makes it correct |
|---|---|---|---|---|
| Payment lifecycle, `domain/payment/payment.service.ts`, `payment.utils.ts` | `Payment` (one per order), `PaymentAttempt` | initiate/confirm card payment, mark cash paid, refund, backfill of rows for orders older than payments, applying Stripe's reports | Stripe is called inside, outside and between transactions; reads outlive the rows they read | PAID only with money; REFUNDED only with a refund; what Stripe did ends up recorded |
| Order lifecycle, `domain/order/order.service.ts` | `Order.status`, `placedAt` | create, transition (confirm, fulfil, cancel, reopen), delete | transitions read the payment, call Stripe to cancel, then write | fulfilled only if paid; refunds freeze the order; pending orders have no payment |
| Order items, same file | `OrderItem`, four totals on `Order` | create, add, remove | increments and decrements computed from stale reads; 32-bit columns | totals are the sums of the items; the payment asks for the total |
| Stripe webhooks, `payment-webhook.controller.ts` | `StripeWebhookReceipt` | two handlers | at least once, any order, concurrent duplicates | an event is applied at most once; late events do no harm |
| Stripe client, `infra/stripe` | at Stripe | create, cancel, fetch intent; create refund | idempotency keys replay old answers; answers get lost | see payment lifecycle |
| Inventory, `domain/inventory` | `InventoryLevel`, `InventoryAdjustment` | adjust | reads a level, writes an absolute quantity | level = sum of adjustments; never negative |
| Products, `domain/product` | `Product` | create (with initial stock), update, deactivate | price changes under an order in progress | items keep the price they were made with |
| Locations, `domain/location` | `Location` | create, update, change status, delete | three counts, then a deletion that cascades | a location remains; stock and orders keep theirs |
| Team, `domain/team` | `Membership`, `MembershipLocation`, `InviteToken` | invite, resend, accept, change role or locations, deactivate, reactivate | owners counted outside the transaction; roles compared as read | an active owner remains; an invited member keeps an invitation; a deactivated member stays out |
| Sessions, `domain/auth`, `frontend/middlewares/auth.ts`, `frontend/app/api/auth`, `mcp-server/src/auth` | `RefreshToken`, cookies, the MCP server's token state, claims inside access tokens | login, refresh, logout, redirects | claims are a snapshot; several tabs or tools renew at once; late answers | a lost role is believed for one token life; who has an access token can renew it |
| Guards and location scope, `common/guards`, `common/organization` | none | pure functions of the claims | an empty location list means no restriction | nobody hands out more than they have |
| Lists: `infra/prisma/prisma.service.ts`, `inventory.service.ts`, `frontend/hooks/use-cursor-pagination.ts` | the hook's page, cursor stack and requests | next, previous, refresh, change of filters | rows change between pages, or have the same value; answers arrive in any order, or not at all | a walk shows every row once; the page shows what was asked for |
| Dashboard, `domain/dashboard` | none | read-only | local time, days on which clocks change | periods tile; every order has its bar |
| Customers, audit log, monitoring, pages, tools, migrations | rows without protocol, or none | single-row writes, reads | none beyond the above | see section 7 |

How they interact: `OrderService.transitionStatus` calls `PaymentService` inside
its own transaction (create on confirm, cancel the active attempt on cancel,
delete on reopen). `PaymentService` calls Stripe: creating an intent and
cancelling one happen inside a database transaction; fetching an intent and
creating a refund happen outside. Stripe calls back through the webhook
controller. A completed refund writes the order (`CONFIRMED` becomes
`CANCELLED`). Items and confirmation meet in `Order.totalCents`, which the
confirmation copies into `Payment.amountCents`. Products bring their initial stock
into inventory; deleting a location cascades into levels, adjustments and membership
scopes and takes the location away from orders. All services meet the team through the claims
in the access token, which the browser's cookies or the MCP server's `TokenManager` hold.

The database runs at PostgreSQL's default READ COMMITTED: nothing in
`infra/prisma` or in the `$transaction` calls chooses another level. Every model
below relies on this, on row locks that last until the commit, on unique indexes
and on foreign keys of `backend/prisma/schema.prisma`.

## 2. Plan

All of it is done; what the modules leave out is in section 7.

1. `PaymentStatus`, `OrderPayment`, `OrderLifecycle`: the core, with the abstract
   lifecycle it implements while requests do not overlap; `OrderItems`.
2. `Inventory`: levels, adjustments, locations, orders at locations.
3. `AccessRules`, `Team`: who may do what; memberships, owners, invitations.
4. `Auth`, `Browser`, `TokenManager`, composed by `Sessions`.
5. `Pagination`, `Browsing`: lists in the backend and the hook that shows them.
6. `Dashboard`: the arithmetic of sales periods.
7. Proofs: `OrderPaymentProofs`, `OrderPaymentSequential`, and a `...Proofs` module for
   each of `OrderItems`, `Inventory`, `Team` (with the access rules), `Sessions`, `Browsing`, `Dashboard`.

Every invariant and action property of the passing runs, and the refinement, is now also a theorem.
Worth doing next: overlapping replacements of membership locations as actions of `Team`; which of
the properties of section 5 that assume one slot survive overlaps if an overtaken request is named in
the property, as `Inventory` and `Team` do it; theorems of `OrderLifecycle` on its own.

| Module | EXTENDS or instantiates | Checked by |
|---|---|---|
| `PaymentStatus` | | `payment_*` runs |
| `OrderLifecycle` | | as a PROPERTY of `payment_sequential` |
| `OrderPayment` | `PaymentStatus`, instantiates `OrderLifecycle` | `MCOrderPayment`; theorems |
| `OrderItems` | | `MCOrderItems`; theorems |
| `Inventory` | | `MCInventory`; theorems |
| `AccessRules` | | through `Team`; theorems |
| `Team` | `AccessRules` | `MCTeam`; theorems |
| `Browser`, `TokenManager` | `Auth` | through `Sessions` |
| `Sessions` | `Browser`, `TokenManager` | `MCSessions`; theorems |
| `Pagination` | | through `Browsing` |
| `Browsing` | `Pagination` | `MCBrowsing`; theorems |
| `Dashboard` | | theorems |

## 3. Modules and code

### PaymentStatus
The Prisma enums, Stripe's statuses, `mapPaymentIntentState` and `mapRefundState`
(`PaymentStatusOf`, `AttemptStatusOf`, `RefundStatusOf`), `deriveFinancialStatus`,
the constant sets of `payment.service.ts`, and the transition table of
`transitionStatus`. Pure; no variables.

### OrderPayment
One order and everything that touches it. Correspondence of state:

| Variable | Code |
|---|---|
| `order`, `placed` | `Order.status` (or deleted), `placedAt` not null |
| `pay` | the order's `Payment`: a record of id, `paymentStatus`, `method`, `refundStatus`; `NoPayment` without a row |
| `payments` | how many payment ids were handed out (reopening deletes a row, confirming creates another) |
| `attempt` | `PaymentAttempt.status` by attempt; ids grow with `createdAt`, so the largest is `attempts[0]` |
| `received` | `StripeWebhookReceipt` |
| `intent`, `owner`, `emitted` | Stripe: the intent's status, the payment id in its metadata, the snapshots its events carry |
| `refund`, `refundEmitted` | Stripe: the refund made under the key `refund:<payment id>` and its events; `first` is the answer that a retry under the same key replays |
| `req` | the open request of each slot: which operation, how far, and the local variables of the handler that are read later |
| `cash`, `cashBack`, `legacy` | history only: cash that came in and went out, and orders fulfilled before payments existed |

A handler is a sequence of steps, split exactly where it awaits something that
lets others act on what it has already read:

| Handler | Steps |
|---|---|
| `transitionStatus` | `ReadTransition`; to fulfil, reopen or cancel a confirmed order `ReadPayment`; to cancel or reopen one with a payment `ReadAttempt`, and with a reusable attempt `CancelIntent`; then `CommitConfirm`, `CommitFulfil`, `CommitCancel` or `CommitReopen` |
| `deleteOrder` | `DeleteOrder` |
| `getPaymentByOrderId` | `ReadLegacy`, `CommitLegacy` (nothing to write unless a row is backfilled) |
| `initiateCardPayment` | `ReadCard`, `CommitCard` (with a reusable attempt it writes nothing) |
| `confirmCardPayment` | `ReadPoll`, `RetrieveIntent`, `ReadAgain`, `CommitPoll` |
| `markCashPaid` | `ReadCash`, `CommitCash` |
| `refundPayment`, cash | `ReadRefund`, `ReadOrderAgain`, `ReadRefundAgain`, `CommitRefundCash` |
| `refundPayment`, card | `ReadRefund`, `CommitRefundRequested`, `CreateRefund` / `ReplayRefund` / `RefundUnavailable`, then `ReadOrderAgain`, `ReadRefundAgain` and `CommitRefundCard`, or `CommitRefundFailed` |
| `handleWebhookPaymentIntent` | `ReadIntentEvent`, `ReadAgain`, `CommitIntentEvent`, or `IgnoreIntentEvent` when no attempt is found |
| `handleWebhookRefund` | `ReadRefundEvent`, `CommitRefundEvent`, or `IgnoreRefundEvent` |

Each Prisma call that reads is a step, together with the `include`s of that call. A read whose result the
handler only passes on as an id is folded into the next one.

Why the writes of one transaction are one step: the first write locks the order
or payment row until the commit, readers see none of it before, and no other
transaction that writes the same row can come in between. What the transaction
*read* before its first write stays stale, and the steps keep it in `req`. An
update by primary key fails when the row is gone (`Writable`, `pay.id = p.id`); then the
request can only `Abort`, as it does in the code when Prisma throws. With `Crashes`, a request may
abort at any step, and what its earlier transactions committed stays.

`IntentMoves` and `RefundMoves` are the outside world: the customer's browser
confirming an intent, banks, and Stripe settling a refund. An intent's secret is
returned after the commit, so an intent whose transaction rolled back is never
paid: it stays in `requires_payment_method`, sends none of the events the controller handles, and no attempt row
names it, so that no handler would find it. `CommitCard` therefore creates intent and attempt row together,
and the model has no such orphans; what they cost is clutter at Stripe.

### OrderLifecycle
The abstract specification: status, payment status and refund status as the API
shows them, each request one atomic action. `OrderPayment!Lifecycle` instantiates
it with the mapping `status <- order`, `payment <- pay.status`,
`refunded <- pay.refund`.

### OrderItems
`createOrder`, `addOrderItem`, `deleteOrderItem`, `deleteOrder` and the confirmation that
freezes the amount, with product rows that change underneath. Additions, removals
and confirmations are a read and a commit; the other transitions and the payment
are one step each and reduced to open, paid and closed, because their interleavings are
`OrderPayment`'s subject. Amounts are integers up to `MaxInt`, the largest value
of the column: a statement that would exceed it fails, as PostgreSQL's does.

### Inventory
Levels, the sums of their adjustments, locations and orders at them. Correspondence of state:

| Variable | Code |
|---|---|
| `location` | `Location.status`; `ABSENT` before creation, `DELETED` after |
| `product` | `Product` rows |
| `stock` | `InventoryLevel.quantity`, `NoRow` without a row |
| `ledger` | the sum of `delta` over a level's `InventoryAdjustment` rows |
| `orderAt` | `Order.locationId`, `NULL` after the location was deleted |
| `req` | the open request of each slot: what it has read and intends |
| `tainted` | ghost, see below |

| Handler | Steps |
|---|---|
| `createAdjustment` (and its upsert) | `ReadLevel`, `CommitAdjust` |
| `createProduct` with or without initial stock | `CreateProduct`; nobody sees the product before the commit |
| `createLocation`, `updateLocation` to a status other than ARCHIVED | `CreateLocation`, `SetStatus` |
| `updateLocation` to ARCHIVED | `CheckArchive`, `CommitArchive` |
| `deleteLocation` | `CountLocations`, `CountStock`, `CountOrders`, `CommitDelete` |
| `createOrder`, `updateOrder`, `deleteOrder` as far as the location goes | `PlaceOrder`, `RemoveOrder` |
| `getLowStockProductCount`, both branches | `LowStockCount`, `LowStockRows` |

The code reads, checks and writes without locking what it read, so a request may be
overtaken. The ghost `stale` of an open request becomes true when another commit changes
something it has read (`Reads`), and `tainted` collects what stale requests then wrote. The
properties say that *only* that can go wrong: a level differs from its ledger
only where a stale adjustment wrote, and so on. Some hold in spite of stale reads:
`StockNotNegative` (what is written is what was checked) and `NoOrphans` (the foreign keys).
The upsert of `createAdjustmentWithTx` has an empty `update`; it is taken to run as Prisma's
`SELECT` followed by an `INSERT`, not as a native `ON CONFLICT`, so two first adjustments
collide on the unique index (`RowAsRead`). Requests of members restricted
to some locations are a subset of those modelled. The DTOs take any of the three statuses; `Settable` says which an
instance uses. ACTIVE and INACTIVE differ in no action, so the run uses ACTIVE and ARCHIVED; the proofs cover all three.

### AccessRules
Pure: role permissions, `PermissionsGuard.canActivate`, the route permissions of team,
dashboard and order transitions, the role tiers, what a membership's location list
means (`ScopeOf`, `Visible`), what a request may give (`Resolved`), and what the team and dashboard
pages of the frontend offer. The route enumerations name the permissions the
decorators declare.

### Team
One organization's memberships (`status`, `role`), `password` of the user, `invites`,
and `claims`, the role in each user's access token, which may be out of date. An invitation whose time is over (`EXPIRED`)
is told from one that was used or replaced (`SPENT`). Users in the constant `Elsewhere` may at any time become members
of another organization, which gives them a password, and cease to be: their login here succeeds or not by free choice, and
nothing in this organization looks at it.

| Handler | Steps |
|---|---|
| `inviteMember` | `ReadInvite`, then `BeginInvite`, `CommitInvite`, or `CommitActivate` for a member who comes back with a password |
| `resendInvitation` | `ReadResend`, `BeginInvite`, `CommitInvite` |
| `reactivateMember` | `ReadReactivate`, then as above |
| `updateMemberRole` | `ReadRole`, `CountOwners` when an owner is taken, `CommitRole` |
| `deactivateMember` | `ReadDeactivate`, `CountOwners` for an owner, `CommitDeactivate` |
| `acceptInvitation` | `ReadAccept`, `CommitAccept` |
| login or refresh, end of a token, end of an invitation | `LogIn`, `TokenExpires`, `ExpireInvite` |
| `acceptInvitation` in another organization | `JoinsElsewhere` |

`BeginInvite` is the transaction's update of the membership with the statement that
expires older invitations, which sees those committed by then; the row stays
`Locked` until `CommitInvite`. `stale` and `tainted` are as in `Inventory`.

### Auth, Browser, TokenManager and Sessions
`Auth` has the auth routes statement by statement (`CreateSession`, `CheckSession`, `Sign`,
`RevokeAll`, `Fail`), the membership they read and what team management does to it
(`BeginDeactivate`, `Deactivate`, `Reactivate`, `ChangeMembership`), and the age of claims in ticks. A client puts its
request in `call` and finds the answer there.

`Browser`: tabs that share three cookies.

| Code | Actions |
|---|---|
| `middlewares/auth.ts` | `Redirect`, `Admit`, `AskRefresh`, `Refreshed` |
| login page and route | `LoginPage`, `Submit`, `LoggedIn` |
| logout route, with its clearing of cookies | `SignOut`, `SignedOut` |
| refresh route, used when somebody logged in accepts an invitation | `Renew`, `Renewed` |
| browser: navigation, restart (session cookies go), seven days later | `Visit`, `Restart`, `RunsOut` |

`TokenManager`: the MCP server's one state, shared by the running tools: `Ask`, `UseCached`,
`AskAgain`, `TokenRefreshed`, `RefreshFailed`, `ToolLoggedIn`.

`Sessions` composes them over the same `Auth`: the account is used either by a browser or by
the tools (`uses`); every step of time ages all tokens together.

### Pagination and Browsing
`Pagination` is how the backend cuts a list: `KeysetPage` (`paginateMany` with
`buildCursorWhere`), `RowsPage` (`paginateRows`, in memory) and their totals. Sorting is specified and not computed:
`InOrder` is the one listing of a set that ascends by key and id, as `normalizeOrderBy` makes the database's lists.
The lists cut by `paginateRows` are never given an id to break ties: `RowsPages` is the set of pages that *some* listing
by the key alone (`Listings`) gives, chosen anew at every read. `Browsing` is
`useCursorPagination` with the footer's buttons over a changing table.

| Variable | Code |
|---|---|
| `filter` | the hook's filter key, from the address |
| `shown` | `data`, `total`, `nextCursor`, with the filters and cursor they were asked with (ghost) |
| `stack`, `loading` | `cursorStack`, `loading` |
| `req` | the requests under way; `ReadPage` and `Count` are `findMany` and `count` |
| `walk`, `upset` | ghosts: what going through the pages has shown; a request failed or overlapped |

`ChangeFilter` is the effect that follows the filters, with the cleanup that cancels its
predecessor (`Cancels`); `goNext`, `goPrevious`, `refresh` are not cancelled. `Refuse` is an
HTTP error, of which the pages' `fetchPage` makes an empty last page that is applied like any other; the members page
throws instead, and so does a lost connection (`Fail`). `Answer`, `Fail`, `Ignore` are the continuation of the fetch. `WalkAfter` maintains the ghost.

### Dashboard
Pure: `resolveSalesPeriod`, `buildSalesBuckets`, `getBucketIndex` in local time. Days are
numbered (day 0 is a Monday), months are any increasing sequence of first days, and on some days the
clock skips or repeats an hour; `AtHour` and `getHours` are what JavaScript's `Date` makes of such days.

## 4. Runs

Passing runs explore their instance completely.

| Run | Instance | States | Shows |
|---|---|---|---|
| `payment_sequential` | 1 slot, 2 payments, 2 attempts, 1 non-final event per intent, all initial statuses, polls, events in any order, crashes | 7.2 million | while requests do not overlap: the implementation of `OrderLifecycle`, `RefundedIsBacked`, `NeverOverRefunded`, `RefundedIsClosed`, `PendingHasNoPayment`, `RefundFreezesOrder` |
| `payment_concurrent` | 2 slots, 1 payment, 1 attempt, events in any order | 6.5 million | `PaidIsBacked`, `FulfilledIsBacked`, `AttemptTellsTruth` under every interleaving |
| `payment_liveness` | 1 slot, 2 attempts, crashes, events of one object in order | 105 thousand | `ChargeIsRecorded`, `RefundIsRecorded` |
| `order_items` | 2 slots, 2 products, 2 prices, 2 kinds of line, 3 items, columns up to 6 | 597 thousand | `TotalsMatchItems` |
| `inventory` | 2 slots, 2 products, 2 locations, 1 order, adjustments of one unit, columns up to 1, 2 statuses | 1.9 million | `StockNotNegative`, `StockIsLedger`, `NoOrphans`, `OrgKeepsLocation`, `LowStockAgrees`, `StockKeepsLocation`, `OrderKeepsLocation` |
| `team` | 2 slots, an owner and a second user who may be a member elsewhere, 2 roles, 2 invitations | 2.3 million | `ActiveHasPassword`, `OwnerRemains`, `OneInvite`, `InvitedHasInvite`, `OnlyOwnersTakeOwners`, `DeactivationHolds` |
| `sessions` | 2 tabs or 2 tools, 2 claims, 1 login, tokens of 2 ticks | 416 thousand | `ClaimsAreRecent`, `OldSessionsStayDead`, `TokensCanBeRenewed`, `RequestsEnd` |
| `browsing` | 3 rows on pages of one, tied or not, 2 filters, 2 of 3 requests overlap, 1 change of a row | 2.0 million | `WalkIsComplete`, `KeysetNeverRepeats`, `ShownIsAskedFor` |
| `late_events` | as liveness, without crashes, events in any order | violation | `ChargeIsRecorded`: fails when the declined try's event arrives after the success |
| `reopened_charge` | 1 slot | violation | `ChargeHasRecord`: cancel and reopen while the intent is processing |
| `refund_race` | 2 slots | violation | `RefundFreezesOrder`: fulfil overlaps with a refund request |
| `item_removed_late` | 1 slot | violation | `PaymentAmountIsTotal`: an item leaves a confirmed order |

The four violations are disagreements between the code and the domain documents
in `docs/domains`; `PROJECT.json` quotes the lines under "findings".

**Properties of payments that hold only while requests do not overlap.** The code checks the
refund status, the pending card payment and the old order status when it reads and not when
it writes. `RefundFreezesOrder`, `NeverOverRefunded`,
`RefundedIsClosed` and `PendingHasNoPayment` therefore are claims about one request at a
time. One slot does not mean one actor: customer, banks, Stripe, events of earlier
attempts and crashes between a request's own transactions interleave with every
step, and with retries of interrupted requests. `OrderPaymentSequential` proves them for every
instance with one slot.

**Properties with an exception.** `Inventory` and `Team` go further: requests overlap at
will, and each property names, through `stale` or `tainted`, the one overlap in which the code does
not keep it. `TokensCanBeRenewed` and the properties of `Browsing` do so with `orphaned`, `dropped`,
`upset` and `walk`, and `WalkIsComplete` with ties (`Untied`). Every exception happens in the run's instance (the property without it is violated there),
except that of `OneInvite`: it takes a third invitation, so the run shows that two never coexist, and
the proof covers the rest. A property with an exception does not guard against the hazard its exception
names: it says that nothing else goes wrong. The "hazards" of `PROJECT.json` say which hazards are left open in this way. `InvitedHasInvite`,
`ActiveHasPassword`, `StockNotNegative`, `NoOrphans` and `KeysetNeverRepeats` have no exception for stale reads or overlaps.

**Bounds.** `MaxPayments = 2`: a reopened order gets a second payment while
events and attempts of the first are still around; a third adds no new relation
(old against current). `MaxAttempts = 2`: a newer attempt replaces an older one
whose events still arrive. `MaxEvents = 1`: one decline or one processing report
before the final one, enough for two events in the wrong order. In
`payment_concurrent` one payment and one attempt suffice for two overlapping
requests on the same rows; the proofs of section 5 cover all other values of the bounds.
In `order_items`, three items and two slots allow two additions or
removals to overlap with a third item present, and `MaxInt = 6` is exceeded by
the subtotal of two dear lines (4 + 4), so the range guard of the column bites.
In `inventory`, two slots let any two requests overlap, and other slots repeat that; quantities 0
and 1 are what the checks tell apart (nothing, something), and the column limit of 1 is reached. Two locations are the
fewest of which one can be deleted. In `team` the founder is an owner, the second user may become
one, and two invitations are an old and a new one. In `sessions` a token of two ticks is fresh, then within
the buffer, then gone; one login suffices for what two clients can do to one session (a second would be
another session of the same kind), and the three safety properties are proved for every number of clients,
logins and ticks. In `browsing`, three rows on pages of one make
a first, a middle and a last page, and three requests are the fewest that go through them and
leave one to overlap.

**Symmetry** is declared only for sets of model values, and only in runs without
liveness; `sessions` and the liveness runs have none.

`CHECK_DEADLOCK FALSE` everywhere: an order may be finished, a user may do nothing, a bound may be used up, and then
nothing has to happen.

**Fairness of payments** (`FairSpec` of `OrderPayment`). A request that has begun runs on or fails (weak fairness
of `Proceeds`): Node's event loop drives every handler to its end. Stripe delivers
an event again until the endpoint has answered 2xx, which it does after the
transaction (strong fairness of taking up an event and of ending one; strong, also for the second read in between (`RereadsEvent`),
because other requests or crashes may get in between, arbitrarily often but not
for ever). Staff, customers and banks owe nothing. `payment_liveness`
assumes that the events of one Stripe object are delivered in order (`Ordered`);
`late_events` shows that the assumption is needed. One slot also excludes
that a poll carries an old snapshot past a newer event: see section 8.

**Fairness of sessions** (`FairSpec` of `Sessions`). Time passes (weak fairness of `Tick`), and for each client what
it waits for goes on: its request is answered or the connection fails, its page is redirected, its tool takes the next
step (weak fairness of `GoesOn`). `fetch` and axios have no timeout of their own; that a connection
fails in the end is TCP's doing. No user has to act, and management, restarts and the ends of sessions may come at any time.

## 5. Proofs

Every theorem holds for all values of the constants that the named assumptions
beside them allow; TLC evaluates the assumptions in every run.

### OrderPaymentProofs
For every number of slots, payments, attempts and events, with or without crashes and ordering:

| Theorem | Statement |
|---|---|
| `TypeCorrect` | `Spec => []TypeOK` |
| `PaidNeedsMoney` | `Spec => []PaidIsBacked` |
| `FulfilmentNeedsMoney` | `Spec => []FulfilledIsBacked` |
| `AttemptsTellTruth` | `Spec => []AttemptTellsTruth` |
| `RefundsAreReal` | `Spec => []RefundedIsBacked` |

They rest on the assumptions stated with the constants (`BoundsAssumption`,
`OperationsAssumption`, `RegimeAssumption`), which TLC evaluates in every run.

None of the four invariants is inductive, since what a request will write sits in
`req` and in Stripe's queues. The strengthening, bottom up:

- `Typed` is `TypeOK` together with `Fits` for each request: a request of a given kind at a given
  step has an attempt, a payment and a snapshot of the right sort. Without it the
  mappings of `PaymentStatus` could be applied to nonsense.
- `ReportsHold`: a *final* status in any queue or in any request's hands
  is still the intent's status. It is inductive because Stripe never leaves
  `succeeded` or `canceled` (`FinalIsFinal`). Non-final snapshots may be stale, and
  that is why order of events matters for liveness and not for these invariants.
- `MoneyFirst`: either money was taken, or neither the payment row, nor the order,
  nor any request in flight carries `PAID` or an intended fulfilment. This is what
  makes the stale read of `transitionStatus` harmless for `FulfilledIsBacked`: whoever read
  `PAID` read it after the money, and money taken stays taken (`MoneyStays`).
- `RefundReportsHold`: a `succeeded` refund in a queue, in a request or as Stripe's
  replayed first answer is completed at Stripe; with `CashBackGrows` the row can show
  `REFUNDED` only for a reason that lasts (`RefundedRow`).

The invariant's proof has a lemma per group of steps that can disturb a
conjunct (what reads can carry, what commits can write), and the step lemmas (`StepTyped`,
`StepReports`, `StepMoney`, `StepRefundReports`) combine them.

`RefundsAreReal` holds with any number of slots, whereas the run checks it with one:
the proof is stronger than the run here.

### OrderPaymentSequential
What needs requests that do not overlap. The hypothesis is `OneAtATime` (any two slots are the
same one) and nothing else: payments, attempts, events, their order and crashes are arbitrary.

| Theorem | Statement (under `OneAtATime`) |
|---|---|
| `LifecycleImplemented` | `Spec => ImplementsLifecycle`, which is `Lifecycle!Spec` |
| `PendingStaysUnpaid`, `RefundClosesOrder` | `[]PendingHasNoPayment`, `[]RefundedIsClosed` |
| `RefundsAreCovered` | `[]NeverOverRefunded` |
| `RefundHoldsOrder` | the action property `RefundFreezesOrder` |

The invariant `Serial` has four parts beside those of `OrderPaymentProofs`:

- `RequestsAgree`: what the open request has read and checked (for a transition also how far it has: `Looked`), said
  of the *current* rows. It survives
  because nobody else writes the database; what Stripe and the customer do meanwhile touches intents
  and queues only (`StillAgrees`). This is where overlapping requests would break the proof.
- `RowsAgree`: how payment row, attempts, intents and payment ids go together; an attempt belongs to
  the current payment, so a late event of a deleted payment finds no row.
- `RefundsAgree`: a refund at Stripe has a charge of its payment and leaves a trace in its row, and a failure
  is the last thing Stripe reports of it.
- `CashAgrees`: how often cash was handed back for a payment. It goes back once, and a second time only when
  Stripe's report of a failed card refund arrived in between and reset the row.

The refinement is shown step by step: a lemma `...Advances` for each commit says which action of
`OrderLifecycle` it is, all reads, calls to Stripe and moves of the outside world are stutters, and `StepAdvances`
collects them. The two properties of the lifecycle itself (`Closed`) then follow for the lifecycle's steps
alone (`LifecycleCloses`) and are carried over.

### OrderItemsProofs
`Typing` and `TotalsAreSums` (`Spec => []TotalsMatchItems`), for any products, prices, kinds of lines,
numbers of items and slots. The totals are sums over a set by a fold of the library, which takes its
elements in the order in which `CHOOSE` picks them. The module first shows that a fold over a finite set exists, is
unique (`FoldDefined`, `FoldUnique`) and, if the operation does not mind the order, takes in one more element by
one more application (`FoldMore`). The induction is over a *set* of good subsets, by the well-foundedness of
strict inclusion (`SetInduction`), so no operator has to be instantiated. Then adding a row adds its amounts and
removing it subtracts them (`SumMore`, `SumLess`).

The typing needs the sums as well: a removal subtracts what was read earlier, and the result stays
within the column only because the row is checked to be there still, so that its amounts are part of the total.

### InventoryProofs
`Typing`, `NotNegative`, `LedgerHolds`, `RowsHaveOwners`, `LocationRemains`, `ReportsAgree` (`Spec => []...`) and the action
properties `StockIsKept`, `OrdersAreKept`. The invariant joins the properties with `Checked`: what an
open request has established (the quantity it read, that nothing is on hand, that another location exists) is
still true *or* the request is stale. Without it the commits, which check nothing
again, could not be related to the rows. The argument is the same for every action: what a commit
changes it announces (`Announces`), and whoever had read something of it becomes stale (`Follows`).
`ReportsAgree` (the SQL count of low stock and the one in memory) needs only the types: the left join has one row
for each level of a product, and one empty row for a product without levels.

### TeamProofs
`Typing`, `ActivesHavePasswords`, `OwnersRemain`, `InvitesAreUnique`, `InvitesOutlast`, and the action properties
`OwnersFallToOwners`, `DeactivatedStayOut`. Again each open request is `Checked`, and `Current` unless stale;
a commit touches one membership (`Touches`). What never becomes stale is what makes
`ActiveHasPassword` hold without exception: passwords are never taken away, so a request
that found one may rely on it. `InvitedHasInvite` holds without exception for a similar reason: whoever uses
or replaces an invitation touches only those of its own member (`Sent`), and whoever replaces one creates another in
the same transaction, in which the membership becomes INVITED.

### SessionsProofs
`Typing`, `RecentClaims`, `DeadSessions`, `RenewableTokens`. `ClaimsAreRecent` is inductive with
`ActiveIsRecent` (an active membership's claims have age 0): a new token is as recent as
the rows, tokens are only copied (`CopiesAreRecent`), and time ages claims and tokens together. `TokensCanBeRenewed`
needs `Apart` (browser and tools do not share the account), `LoginsAnswered` (who waits for a login gets a
session with it) and `RefreshHasSession`.

### BrowsingProofs
`Typing`, `ShownAsAsked`, `WalksAreComplete`, `KeysetPagesDoNotRepeat`: `Spec => []...` of `TypeOK`,
`ShownIsAskedFor`, `WalkIsComplete`, `KeysetNeverRepeats`, for finitely many rows and any page size, filters, changes and
requests. Bottom up:

- Sorting. A finite set of rows has a listing in order, by induction over finite sets (`SortedExists`); so
  `InOrder` is one (`InOrderFacts`).
- Pages. A page is a set of rows between two cursors, without repetition and no longer than the limit; it says that there is
  a next page exactly as the code does (`KeysetFacts`, `RowsFacts`). For `RowsPages` this is shown for every listing by the key, and
  that a page follows the one before only where no two of the rows concerned tie. From here on nothing looks into a sequence.
- `IInv`, enough for `ShownAsAsked`: a request under way that overlaps with no other is the only one, asks with the
  filters of the page, and its cursor fits the stack (`Alone`). It holds because whoever sends beside
  another marks both, and the cleanup removes only the filters' own predecessors.
- `Typed`: the types, with the one bound that is not obvious: the cursor stack and the pending Nexts together
  are never more than the requests made (`Stacked`).
- `Answering`: what a request that overlaps with no other has read is right, but for the rows
  touched since the walk began: its page (`Fresh`) and its total (`Counted`). A row that changes joins the touched ones,
  so each of these facts survives a change (`FreshKept`, `CountedKept`, `WalkedKept`).
- `Walking`: the rows seen so far are those before the current cursor, each once (`OnceEach`, for keyset lists and
  for lists no shown row of which has changed), and at least as many as the footer has counted (`AllShown`). `WalkStarts`,
  `WalkGoesOn` and `WalkEnds` are its three cases; the last relates the footer's arithmetic to the rows,
  and is where a shown row that goes away makes the claim false and the property's exception necessary. Ties in a list put
  in order in memory are the other exception (`Untied`; the lemmas carry it as `Apart`); a request that failed, with an
  HTTP error or without an answer, ends the walk.

### TeamProofs: access rules, and DashboardProofs
Theorems about operators, for all arguments, without a run. The first three are in `TeamProofs`.

- `NobodyGrantsMore`: who may give or manage a role has all its permissions and can open every route it opens.
- `OfferedIsAccepted`: what the team and dashboard pages offer a role, `canActivate` and the
  hierarchy accept, but for the profile of another owner (section 8).
- `ScopeNeverWidens`: a restricted member gives others only locations of its own scope, also
  when the request names none (which for a membership would mean all).
- `PeriodsTile`: a period contains its anchor, previous and next touch it, and `isCurrentPeriod` is right.
- `OrdersHaveBuckets`: every order of a period has a bar, the one of its interval, on days of
  23, 24 and 25 hours, except that a repeated hour's second pass is counted in the first's.

## 6. What is only model-checked

Liveness: `ChargeIsRecorded`, `RefundIsRecorded` and `RequestsEnd`. They hold by fairness, and fairness and
ENABLED are beyond the prover. Everything else that a passing run checks is proved; the runs
remain the check that the properties are not empty and that the invariants were worth proving.

## 7. What is not modelled

The maps cover a small part of the repository's lines. Most of the rest has no behaviour to
state: generated API types (twice 4200 lines), demo data (2600), rendering, dialogs and forms of the frontend, DTOs with
their validation decorators, modules and configuration, and tests. What remains beside the modules:

- *Customers*: create, update and archive are single-row statements. The list is one of those `Browsing` stands for.
- *Audit log*: entries are written in the transaction they describe and nothing reads them back into the domain.
- *Dashboard counters*: single queries. The low-stock count is in `Inventory`.
- *Monitoring, logging, exception filters, health*: no effect on domain state.
- *Inventory levels created, updated or deleted directly* (`createLevel`, `updateLevel`, `deleteLevel`): no route leads there.
- *Team*: `updateMember` (names), `updateMemberLocations` as an action of `Team` (in `Auth` it is a change of
  claims; what may be given is `Resolved`), what other organizations do with a user beyond a password and a login (`Elsewhere`), mails.
- *Sessions*: passwords and hashing, the copies of the access token that mounted pages hold (they age like the cookie), organizations to choose from.
- *Pagination*: the branch that hands the cursor to Prisma for lists ordered by a relation (inventory levels by the product's name).
- *MCP tools*: one call of the API each.
- *Frontend*: the browser's part of a card payment is in `OrderPayment`'s `IntentMoves`; detail pages, forms and the address helpers are left out.
- *Migrations and seeds*: run once.
- *Within the modelled components*: timestamps other than `placedAt`, failure texts
  (except that a new text makes an unchanged failure worth writing), audit rows, amounts and
  currency in `OrderPayment`, webhook signatures, `updateOrder` (metadata, except its location, which is in `Inventory`), reasons and notes of
  adjustments, names and addresses.
- *Serialization failures and deadlock victims* of PostgreSQL are covered by `Crashes` and the `Abort` actions.

## 8. Observations without a run

Met while modelling; each follows from a read that is not repeated at the write, or from two
pieces of code that see things differently, and is not contradicted by a document unless the entry says so.

**Payments and orders**

- `initiateCardPayment` after a decline makes a new intent while the old one, which
  Stripe still accepts, is never cancelled: a customer with the old form open can pay twice.
- With overlapping requests, `markCashPaid` can overwrite a card payment that
  started after its check, although `docs/domains/payment.md:119` has it rejected while one is pending; with one request
  at a time that line is a guard of `CommitCash`'s request, so no run is spent on it. Two cash refunds can both pass `assertPaymentCanRefund`.
- Also without an overlap, a late event of a card attempt that was abandoned for cash writes its status and method over the paid row.
- `confirmCardPayment` may fetch an intent, be overtaken by the event of its
  success, and write the older snapshot over it; the next poll repairs it.
- A refund retried after a failure gets Stripe's *first* answer again. If that answer was
  `pending`, the row says `PENDING` although Stripe has failed the refund and sends no further event.
- A crash between `REQUESTED` and the call to Stripe leaves an order that can be neither
  refunded again nor cancelled nor fulfilled.
- `addOrderItem` accepts an inactive product, which `createOrder` rejects; nothing but
  the check keeps a product from occurring twice; two overlapping removals can leave an order empty.
- An item added while the order is being confirmed is missing from the payment's amount.

**Inventory and locations**

- Of two overlapping adjustments one is lost: its record stays, its effect does not.
- `docs/domains/location.md:45` has historical references block a deletion; `deleteLocation` asks for stock and orders only, and
  the adjustments go with the location.
- An archived location still accepts adjustments and orders.
- Deleting the only location a member is restricted to leaves an empty list, which means no
  restriction. A restricted manager's `deleteLocation` counts only the locations of their own scope.

**Team**

- `inviteMember` of a deactivated owner by a manager overwrites the owner's role, although owners are
  for owners to manage (`docs/domains/team-role-management.md:77`).
- An invited user who has a password but no active membership left, here or elsewhere, cannot log in (`auth.service.ts:68`), and so
  cannot accept: `inviteMember` invites them all the same (`team.service.ts:336-344`), and
  `docs/domains/team-role-management.md:91` has existing users accept once they are authenticated. They hold an invitation
  (`InvitedHasInvite`), which is all the code ensures.
- Deactivation leaves invitations valid; an acceptance that overlaps with it reactivates the member.
- Overlapping replacements of a member's locations leave the union of both lists.
- The frontend offers an owner the profile and scope of another owner, which the backend refuses; Resend and
  Reactivate are offered without a look at the roles; the navigation shows Customers and Orders to inventory clerks, who may read neither.

**Sessions**

- After a browser restart, the end of a session or a late answer to a refresh, an access token can be left without its
  companions: the login page and the middleware then redirect to each other until it expires.
- A logout with an expired access token revokes nothing, though the cookies are cleared; the page stays when the
  answer is not a success.
- A login refused for want of a membership leaves its session row; one that falls between the revocation and the commit of
  `deactivateMember` survives until the reactivation.
- A `TokenManager` refresh that fails late discards what another tool has just stored. Neither its requests nor the frontend's auth requests have a timeout.
- The login page's `checkAuth` looks for a cookie that scripts cannot see.

**Lists and the dashboard**

- Late answers to Next, Previous and Refresh overwrite what a change of filters has shown, and a late Previous can
  empty the cursor stack. A failed request for new filters leaves the old rows; an HTTP error shows an empty last page instead,
  as if there were no rows, on every list page but the members'.
- Lists put in order in memory (`inventory.service.ts:144-159`, `259-297`, `319-336`) have no tie-break: rows of equal value may be skipped or
  repeated from page to page although none has changed.
- The footer ends a walk when the count of rows shown reaches the total, also when rows already shown have gone since.
- `paginateRows` starts again at the first row when the cursor's row is gone.
- Lists ordered by a field, a second field and the id compare the field and the id only, and can skip or repeat rows.
- `handleSelectCustomer` has no cancellation; a debounced search and a filter can overwrite each other's address.
- A dashboard anchor given as a date alone is read as midnight UTC.
