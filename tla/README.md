# A TLA+ model of OneBite

OneBite is a NestJS back end for restaurants: customers order on the web, by phone or on a
tablet in the store, pay through Stripe, and the kitchen works on the orders and hands them to
customers or to Uber couriers. All state is in one Postgres database (Prisma); the process
keeps only the list of connected kitchen screens, a cached Uber token and its timers. Every
request is a chain of awaited queries, so the handlers of one process, and of several, interleave
between any two queries. That is where this code can go wrong, and what the modules here model.

## Inventory

| Component | State it keeps | Operations | Interacts with |
|---|---|---|---|
| Kitchen orders (`modules/kitchen`) | `orders`, `order_items`, `audit_entries` | updateStatus, updateArrival, updateDelivery, generatePickup, editItems, refire, manualCreate, demoSeed, reads | stream hub; called by the webhooks |
| Stream hub (`common/stream`) | connected screens (in memory) | register, unregister, broadcast | kitchen handlers, Stripe webhook |
| Payments (`modules/payments`) | `payment_links` | createCart, phonePaymentLink, createPaymentLink, createCheckoutSession, reports | Stripe, Make, menu prices |
| Webhooks (`modules/webhooks`) | `processed_webhook_events`, and rows of the others | stripeWebhook, Connect webhook, deliveryWebhook | payments, kitchen, delivery, platform |
| Tablet sessions and chat (`modules/tablet`, `modules/chat`) | `tablet_sessions` | touchSession, checkTimeout, handleChat, reset | the agent service |
| Courier delivery (`modules/delivery`) | `delivery_requests`, the Uber token | quote, create, createDeliveryAfterPayment | Uber Direct, kitchen |
| Platform onboarding (`modules/platform`) | tenants, Connect accounts | create tenant, createConnectAccount, refresh | Stripe Connect |
| Group orders (`modules/group-orders`) | `group_orders`, their items | create, add item, remove item, updateStatus | customers |
| Reviews (`modules/reviews`) | reviews, replies, access tokens | create, reply, markRead, requestAccess, remove | mailer |
| Menu, inventory, promotions, reservations, legacy orders | one table each | row-wise create, read, update, delete | payments read menu prices, menu removes inventory |
| Customers, settings, locations, public bootstrap | one table each | single statements, the customer's login | |
| Tenant resolution and authentication (`common/tenant`, `modules/auth`) | tokens, held by clients | decide the tenant and the rights of a request | all controllers |
| Agent, voice, health, application shell | none | stubs, wiring, error envelopes, API documentation | |

What is hard in them, and what makes them correct:

* **Kitchen orders.** A handler decides on a row it read one round trip before it writes, writes
  with `updateMany ... where {id, tenantId}` and appends the audit entry in a third query.
  Correct means: a status never lacks its timestamp, an absent customer is never served, terminal
  statuses are left only in known ways, no restaurant's handler touches another's order, and the
  timeline explains the status.
* **Payments and webhooks.** Stripe delivers at least once and concurrently; handlers fail
  between queries; the courier is ordered by a job that lives in memory. Correct means: a payment
  is applied exactly once, the row tells what was charged, every payment reaches the kitchen.
* **Tablet sessions.** One row per tablet is read and then wholly overwritten. Correct means: the
  question limit holds, paid and active sessions survive.
* **Stream.** Initial list, registration and broadcasts interleave. Correct means: a screen
  sees all changes of its own restaurant, and no other's.
* **Couriers.** Uber's answer, Uber's events, other providers and manual requests all write the
  delivery row, in any order, and events reach the kitchen's order in a second step. Correct
  means: row and order agree, about the right courier.
* **Connect accounts.** Creations overlap, and refreshes from Stripe finish in any order. Correct
  means: an onboarded account is kept, its status moves on, only a ready account is charged.
* **Group orders, reviews, rows.** A check, a list or a read comes one query before the write that
  relies on it. Correct means: closed groups are left alone, what is marked read was read, the
  last mailed link works, and no request undoes a field that it does not name.
* **Tenants.** Five places of a request may name a restaurant, and they are consulted at two times.
  Correct means: a handler serves the one active restaurant of its user.
* **Cents.** Amounts are rounded item by item and reported from other columns than those charged.
  Correct means: what Stripe charges line by line is what the reports show.

`PROJECT.json` lists every hazard at its line.

## Modules and how they correspond to the code

`OrderLifecycle` — the row of `orders` and the pure functions on it: `computeNextStatus` (its
table is the relation `Allowed`; "ready" is decided before the table), the arrival guard of
updateStatus, the stamps, what a courier event writes. Timestamps are the set of the non-null
ones. Channels web, phone and ai are one value, `remote`: the code kept here never tells them
apart.

`KitchenOrders` — the handlers. A handler is a record `reqs[r]`; `ReadX` is its getOrder and the
decision taken on it, `WriteX` its updateMany, `AppendAudit` its third query, `Die` a failed query
or a restart in between. A handler keeps only its `aim`, the decision. `Create` and `DemoSeed` are
the upserts by id alone, which may overwrite an existing order, even another restaurant's.
`view` and `mixed` are history variables: has the row changed, or been re-created, since the
handler read it? They let a property say exactly which race may break it. The items of an order
are abstracted to `edited`.

`AtomicKitchen` — what the kitchen's handlers promise: each acts at once, on the order as it is.
`KitchenOrders` implements it (`ImplementsAtomic`): the rows are the same, and `raced` is the set of
orders that a handler is about to write although somebody changed the row after its read. On
these an overtaken handler may write what no longer suits the order (`Overwrite`), but it
keeps the owner, the kind, and every stamp, arrival, code and edit. Reads, audit entries and the handlers
themselves are invisible, so a step that moves none of the rows, nor `raced`, is a stutter.

`PaymentFlow` — carts, requests for Checkout sessions and payment links, Stripe, the webhook with
its three awaits (`Claim` = the insert into `processed_webhook_events`, `Apply` = the transaction,
`Answer`) and the courier job. Amounts are abstracted to the menu price they are computed from and
to whether they are the subtotal or the total. `Pay`, `Payable` and `ChangePrice` are external.
A paid delivery is assumed to have a quote of Uber, so that `OrderCourier` goes through to the call.

`TabletSession` — touchSession with its two queries (`Query1`, `Query2`), the chat that calls it
twice around an answer, and the chat's reset. The upsert is taken to be the database's own
(INSERT ... ON CONFLICT): the other way Prisma may do it, the losing insert fails and its
handler ends, which is `Die`.

`KitchenStream` — screens, the hub and the tail of every handler that changes an order: read
again, broadcast the order, list, broadcast the list. An order is its version number and, in
`written`, the restaurant that each version was written for: creations and paid orders take over
an order whosever it was (`kitchen.service.ts:356`), updates change and broadcast only their own
restaurant's (`ChangeNothing`, and the last branch of `ReadBack`). `screen` is what the connected
client shows (external); `best`, `due` and `unsent` are history.

`CourierDelivery` — quotes, the job createDeliveryAfterPayment query by query, Uber (external: it
accepts a call, even one that timed out, and sends events), and deliveryWebhook with its two
steps (`WriteRow`, `Notify`). Of the kitchen's order it keeps `told`, the last courier event
applied. `torn` is history: the orders whose row and event come from overlapping or broken steps.
`Overwrite` is POST delivery/request, which unlinks the row, and POST delivery/webhook, which stores
the delivery id that its caller gives, another order's included; `claims` is the history of these links.
createDelivery sends Uber no id of the order, so its events need not name one; `Naming` says
whether they may. Quotes count how often quote and address were stored; their contents are left
out.

`IdealPayment` — what payments promise: a checkout is charged at most once, settled at most once
after that, which queues its order, and only then sends one courier. `PaymentFlow` implements it
(`ImplementsIdeal`): a checkout is a request's session, `for` gives the order of every request
that was begun, `charged` is what Stripe was paid, `settled` the number of audit entries of the payment, `kitchen` the orders, `sent` the couriers.
Every other variable of `PaymentFlow` (rows, claims, handlers, jobs, failures) is
invisible, so whatever it does without moving these is a stutter.

`CheckoutPricing` — the same payments in cents, one request after another: rounding of decimals
and basis points, line items, fees, the columns of the row and what the two reports add up.

`ConnectOnboarding` — createConnectAccount in its three awaits, Stripe (external: it changes an
account's status and sends an event each time), and the refresh, fetch then store, behind both
the webhook and connect-status. A status is the number of its changes, ready while odd. `raced`
and `overtaken` are history, as `view` in `KitchenOrders`.

`GroupOrders` — one group order, its items, its deadline. `BeginX` is the query that finds the
order fit, the next action the write; `MarkExpired` is the write that addItem makes on its way to
a refusal.

`ReviewConversation` — the messages of two reviews, the admin's list and its marking, single and
per review, and removals in two statements. `ReviewAccess` — find, write and mail of an access
link, per restaurant and for one e-mail address, which is the key of the table.

`RowUpdates` — the create, update and remove of the menu, promotions, reservations, legacy orders and reviews,
with inventory beside the menu. The menu patches the fields that a request names; the
others merge the request into the row they read. Two fields stand for all columns.

`UberToken` — the cached token, its expiry and slack, callers that refresh it without a lock.

`TenantContext` — restaurants, memberships, tokens from the five places that issue one, and a
request through the middleware, the chain of guards and its handler. Its constant `Route` is the set of guard chains;
`Routes` gives it, controller by controller and method by method, as the decorators do.

`BackOffice` — the eight parts from `CheckoutPricing` to `TenantContext` side by side. They share no
state, so its specification is the conjunction of theirs, and the theorems are about it. It lifts the
parts' properties to names of its own.

`MC*` modules hold the instances for TLC. `MCBackOffice` adds to `BackOffice` only a `focus`: exploring
the product of parts that share nothing shows no more than exploring each, so `focus` chooses the
one that moves, and each of its behaviours is one of `BackOffice` in which the other parts rest.

`X_proofs` — the theorems about module X: `KitchenOrders_proofs`, `PaymentFlow_proofs`,
`CourierDelivery_proofs`, `KitchenStream_proofs`, `TabletSession_proofs`. `BackOfficeKeys_proofs`
has those about accounts, links, tokens and guards of `BackOffice`, `BackOfficeRows_proofs` those
about its groups, conversations and tables, `BackOfficePrices_proofs` those about its cents and, from all
three, the types of all its parts.

`KitchenOrders` and `AtomicKitchen` describe the same rows, so what is asked of a row (`Requested`,
`ComputeNextStatus`, the stamps) is defined once, in `OrderLifecycle`.

`KitchenOrders`, `AtomicKitchen` and `CourierDelivery` extend `OrderLifecycle`. The other modules meet at named
points and share no variables: `PaymentFlow` abstracts the kitchen's work to one action and ends
at the call of Uber where `CourierDelivery` begins; `KitchenOrders` has the webhook's order
creation (`Create`) and the courier events as inputs.

## Runs

| Run | Instance | What it shows |
|---|---|---|
| `kitchen_orders` | 1 order id, 2 restaurants, 2 requests, all operations and kinds of orders | stamps, served-after-arrival, audit trail, terminal statuses, isolation when the row moves between a read and a write; `KitchenOrders` implements `AtomicKitchen`, so also that the items of a served order are frozen |
| `payment_safety` | 2 carts, 2 requests, 2 prices, 2 concurrent deliveries, 2 failures anywhere | an event is applied once; the row tells the charge; kitchen work is kept; `PaymentFlow` implements `IdealPayment` |
| `payment_liveness` | 1 cart, 2 requests, failures before the claim | every payment reaches the kitchen and every paid delivery a courier |
| `payment_claim_lost` | 1 request, 1 failure anywhere | expected violation: a claimed event is answered but never applied |
| `tablet_safety` | 3 requests, clock to 3, limit 1, warning at 1, expiry at 2 | question limit, paid and active sessions |
| `tablet_new_session` | 2 requests | expected violation: a new session inherits the question count |
| `stream_updates` | 2 restaurants, 2 orders that either may take over, 3 handlers, 1 screen | all own changes are sent, nothing written for the other |
| `courier_events` | 2 orders, 1 of them quoted twice, 1 delivery, 2 handlers, named and unnamed events, rows written by hand with and without the delivery's id | row and kitchen's order agree, about their own courier or one the restaurant has linked; quote and address fit |
| `courier_status` | 1 order, 1 delivery, 2 handlers, unnamed events | expected violation: the status handled last is kept, not the latest |
| `back_office` | 2 calls, restaurants or clerks in each part, prices of 2 items, every route | closed groups, read marks, mailed links, onboarded accounts, their status, readiness at checkout, merged and torn rows, live tokens, own active restaurant, cents charged and reported |
| `connect_event_lost` | 1 account, 1 handler | expected violation: an account event is answered although Stripe could not be asked |
| `stream_quiet` | 1 order, 1 handler, 1 screen | expected violation: the gap between list and registration |

Why the bounds are enough. A kitchen handler touches one row, so one order id shows every
interleaving on a row; two handlers make an overtaken decision, two restaurants are what a row can
move between, and the theorems remove these bounds. For payments, two requests give the
one-order-two-sessions and the two-orders cases, two copies of an event its concurrent duplicate,
and two failures a failed retry. One tablet suffices because the row's key holds tenant and tablet;
three requests give a chat whose two touches are overtaken twice; time runs past the expiry.
A screen is independent of others, so one is enough; three handlers give two that overlap on one
order while the other restaurant changes its own, and a creation, an update and another
restaurant's creation between the update's write and its second read, or an order that is taken over
and taken back. For couriers, two handlers
overlap on one order while another order's row is there to be confused with it, and to be linked to
its delivery; quoting twice
allows the new quote between the job's two reads; other providers report one status (`Reported`),
since which one makes no difference to a row marked `torn`. In `back_office`, two calls are enough
to overtake each other once in every place, and all properties there are about one check and one write; One and
Other name the calls and the restaurants, which every part treats alike, so permuting them is
a symmetry. An account's status changes twice (ready, and no more), a token lives for three ticks
with one of slack in five, long enough to be replaced once; the prices, in tenths of a cent, are one that rounds
to nothing, one that rounds half up, one whose tax rounds, and a removed item; 825 and 500 basis points are a tax rate that
rounds and the default fee; quotes are negative, free or not, and a quantity of zero is
there to be refused. One client and one request at a time
suffice for tenants, since requests share only the restaurants, and those change at any
time. In the payment, tablet, stream, Connect and back-office runs every
request is made a bounded number of times, so the instances do come to an end: CHECK_DEADLOCK is FALSE there.

Fairness, in `payment_liveness` only: Stripe delivers an event until it is answered with a 2xx
(its documented retry, on which the 2xx answers of `webhooks.controller.ts` rely), and the event
loop goes on with a handler, or a setImmediate job, whose await has completed. Nothing is assumed
of customers, kitchen or restaurant. Failures are bounded: a database that always fails applies
nothing.

## What is proved

Every invariant and every action property of the passing runs is also a theorem, checked by TLAPS,
for every value of the constants; and so are the two refinements, of `IdealPayment` and of
`AtomicKitchen`. Only the two liveness properties are not. The inductive invariants were checked by
TLC on small instances first.

Assumptions on the constants, each named in the module that declares them:

* sets are of the kind the code handles (`OpsAssumption`, `KindsAssumption`, `ReportedAssumption`,
  `NamingAssumption`), prices are positive (`PriceAssumption`), bounds and
  limits are numbers (`FailuresAssumption`, `QuotesAssumption`, `LimitsAssumption`, `BoundAssumption`);
* the three ids of demoSeed differ (`DemoIdsDistinct`);
* "none", which stands for a null column, is no id (`JobAssumption`, `IdAssumption`);
* the menu is finite and none of its items is named like the two lines that a checkout adds
  (`ItemAssumption`); prices, quantities, quotes and rates are integers of any sign (`NumberAssumption`).

A theorem has no other hypothesis, except AckedIsApplied: there no handler may fail between its claim
and its transaction (`"apply" \notin FailPoints`). With such failures it is false, which is the run
`payment_claim_lost`.

**KitchenOrders.** Effect lemmas reduce the fifteen actions to four: an upsert, a begun handler,
a row write by one handler, and a step that leaves the rows alone. Every other proof splits on these.

1. `TypeOK` is inductive as it stands.
2. `CurrentDecision`: while `view[r] = "current"`, the aim of handler r is still what it
   would decide for the row as it is. Inductive with TypeOK. `TerminalLeft`, `NoFalseWaiting`
   and `ServedItemsFrozen` are properties of a single step, but they hold only because of it: the
   writes do not look at the row again.
3. `Sound`: rows outside `mixed` have their stamps and were not served to an absent customer, and
   *every pending write keeps that so*, even one that was overtaken. This strengthening is needed
   because overtaken writes happen; it holds because stamps are only added and an arrival is never
   undone while an order is not re-created. It gives `ServedAfterArrival` and `StampedStatus`.
4. `StatusExplained` needs `ArrivalExplained`: the status that a pending updateArrival will write
   back is explained already. Entries and debts of entries never disappear (`DebtsStay`).
5. `ImplementsAtomic` rests on `CurrentDecision` again: a write whose view is current writes what an
   atomic handler would (`CurrentIsAtomic`), so it is `Handle`; an overtaken one keeps what `Overwrite`
   keeps (`WrittenKeeps`) and its order was in `raced` (`WriteRaces`, which also says how a write changes
   that set). A write that changes nothing, and a handler that dies, are at most `Settle`; upserts are
   `Create`. The run checks this instead of `ServedItemsFrozen`, which stays a theorem: for a served
   order the guard of `ItemsEdited` is false, so they are only edited by `Overwrite`.

**PaymentFlow.**

1. `TypeOK` is inductive only with three facts about references: a begun request has a row, what was
   paid is a stored session, only events of payments are handled (`Typed`). Without the first,
   StoreLink could patch a row that is not there.
2. `AppliedOnce` needs `OneApplier`: of the deliveries of one event at most one gets past the
   claim, whatever fails; and `Booked`, the accounts of each session: no audit entry before the
   claim's handler applies it, one while it has yet to answer, and never more couriers, ordered or
   enqueued, than entries.
3. `PaidMeansCharged` is inductive with `Typed`. `SettledOnce` needs `OnlyStored`: the row of an
   order with a single stored session is what that session was opened with, and PAID once its payment
   was applied.
4. `KitchenWorkKept` counts payments, so it needs that they are finitely many and that an order the
   kitchen knows has an entry (`WorkIsBooked`): a second `Apply` for the order is then of another session.
5. `AckedIsApplied`, under its hypothesis, needs that every claimed event is applied or has a handler
   about to apply it (`ClaimIsWork`), and that only claimed events are acknowledged.
6. `ImplementsIdeal` goes action by action: BeginRequest is Open, Pay is Charge,
   Apply is Settle, OrderCourier is Send, KitchenWorks is Work, the rest are stutters. The guards
   of the abstract actions, "not settled yet" and "settled, not sent", are `Booked`.

**CourierDelivery.** `OwnCourier` is inductive with `Known`: rows, events, handlers and claims only
name deliveries that a job has ordered. `AddressOfQuote` needs `QuoteIsOld`, that a job's quote is not newer
than the order's last. `RowAndKitchenAgree` needs `Agreed`: outside `torn`, what a handler has
yet to tell the kitchen is what the row says already.

**KitchenStream.** `NoForeignOrders` follows from `OwnOnly`: what is listed, on its way or shown was
written for one restaurant. `EveryChangeIsSent` speaks of screens once the handlers are through; in between it
needs `Carried`: what is due to a screen of the restaurant that has the order was sent, or a handler of
that restaurant still carries a version as new. That in turn needs `DueIsWritten`: no version is
written or due that the table has not reached, so a new version has one restaurant.

**TabletSession.** `Held`: what handlers hold was given out, at a time that has passed.
`ViewIsRow`: a handler that was not overtaken has read the row as it is; with it `PaidSessionKept` and
`ActiveSessionKept` follow for each write. `Counted`: answered questions never exceed the row's
count plus what overtaken writes lost, which gives `AnsweredWithinLimit`.

**BackOffice**, one inductive invariant per part:

| Invariant | Property | Why it is needed |
|---|---|---|
| `Onboarding` | OneAccount, ReadyWhenCharged, StatusMovesOn | without a race only one call creates, before any account is stored, and the stored one is the row's; an answer fetched but not stored is no newer than Stripe, and no older than the row unless overtaken |
| `Links` | LatestMailOpens | calls that overlap are marked; a call that was alone mails the token that is stored, and only an unmailed one replaces it |
| `Tokens` | TokenAlive | a token is granted before its answer is read, so that the delay is not negative |
| `Requests` | ServedForOwnRestaurant | a restaurant that was resolved is active, unless its status changed since; `RouteKinds` shows that every route of the decorators has one of the four kinds of guards |
| `Choosing` | ClosedGroupKept | a request that no change of status has overtaken finds the group as active as it read it |
| `Replying` | ReadMeansListed | what is in a conversation being read was listed, or came since |
| `Keeping` | OrphanExplained, UnaskedFieldsKept | what a clerk read is still there unless the clerk was overtaken; only the menu has an inventory |
| `Priced` | ChargedIsReported | a session has a row, and unless a link came after it the session's lines add up to the row's columns; the types say that the columns are not negative |

`ChargedIsReported` needs what a sum over a cart is, for any finite menu. `SumFunction` folds over
the finite set of a function's domain, and the induction theorems of the library cannot be used, since they
take an operator. `BackOfficePrices_proofs` does that induction with a set in the operator's place: `SetInduction`
says that a set of subsets which holds every subset whose strict subsets it holds is all of them,
because a least subset outside of it would exist (`WFMin`; strict inclusion is well founded on a finite
set). With it come the existence and uniqueness of the fold (`SumExists`, `SumUnique`), its equation
(`SumRec`), that the order in which elements are taken does not matter (`SumRemove`), and that sums of positive
amounts are positive. `LinesAddUp` then says that the lines of a checkout add up to subtotal, tax and delivery
fee: the two lines that it adds are no items, and a line that is absent is one of nothing.

`KeysTyped`, `RowsTyped` and the types in `Priced` make `TypeCorrect`, the types of all eight parts.

Only model-checked:

* `PaidGetsOrder` and `PaidDeliveryGetsCourier`: liveness under fairness is outside what TLAPS proves;
* the expected violations, which are not theorems.

No module uses RECURSIVE operators.

## Findings

* `webhooks.controller.ts:135` claims an event before, and outside, the transaction that applies
  it. A failure in between loses the payment: the retry is answered as a duplicate.
* `tablet.service.ts:119` carries the question count of an expired session into the new one, which
  then refuses its first question.
* `webhooks.controller.ts:264` stores the status of an Uber event without comparing it with the
  stored one; an event handled late puts an older status back, which `GET delivery/:orderId/status`
  then returns as the latest.
* `webhooks.controller.ts:186` claims a Connect event before it is handled, and
  `platform.service.ts:320` swallows a failure of Stripe: the event is answered, never sent again,
  and the account's new status is not stored until somebody polls it.
* `kitchen.controller.ts:28` lists the orders before it registers the screen: a change broadcast
  in between is not streamed to it.

Races that the properties name as exceptions rather than findings, since no text of the repository
promises more: overtaken decisions leave terminal statuses or edit served orders; "ready" and
late courier events revive finished orders; a second checkout request overwrites a paid row; a
link after a checkout leaves the checkout's tax and fees beside its own subtotal; two overlapping
creations of a Connect account replace the first; overlapping refreshes store the older status last;
an overtaken addition reaches a closed group order; a torn removal of a menu item leaves its inventory;
a POST delivery/webhook that names another order's delivery links the two, so that an event without
an order id may be booked on either (`webhooks.controller.ts:242` takes the first row it finds); a late
"pending" (of Uber's answer, `delivery.service.ts:247`, or of an event) takes the customer's row back while the
kitchen keeps what it was told.

Seen while reading, and not the subject of a run: requestAccess and myReviews lower-case the
e-mail (`reviews.service.ts:417`) but a review keeps it as it was typed, so the owner of a mixed-case address
does not find it; the update of an inventory item ignores the count of its updateMany, unlike its siblings
(`inventory.service.ts:88`).

## Not modelled, and the plan

Left out for good, because nothing in it interleaves or decides anything:

* reports and list filters, except the sums of payments; reads in general;
* customers, settings, locations and the public bootstrap beyond the login and the guards of
  their routes: each request is one statement on one row;
* agent and voice stubs, health probes: only their routes are modelled;
* DTO validation, signatures, password hashing, the formatting of messages and mails, logging,
  error envelopes, wiring and the API documentation of `swagger-docs.ts`, which is text.

Three hazards have no property. Of two lists that are broadcast, the older may come last
(`kitchen.service.ts:13`): `KitchenStream` has it, no text rules it out. A screen that goes away before it is registered stays in the hub
(`kitchen.controller.ts:45`): what it costs is memory, which the model does not count. A call of
Uber that is aborted although Uber acts on it (`uber-direct.service.ts:146`) happens in
`CourierDelivery`, but nothing in the repository says what should become of that courier.

What else could be proved: that `TabletSession` implements a session whose touches are atomic, as
`KitchenOrders` does for orders. No abstract session is stated; what it would say of paid and of active sessions, `PaidSessionKept`
and `ActiveSessionKept` say already.
