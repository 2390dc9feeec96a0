# Feasto in TLA+

This directory holds a TLA+ model of Feasto, the food-delivery backend in this
repository (FastAPI, SQLAlchemy on PostgreSQL, Celery, Razorpay): modules, TLC
configurations that check them on small instances, and theorems TLAPS checks for
every instance. `PROJECT.json` maps each definition to the lines it models.

    tlc -workers 2 -config payments.cfg MCOrderSystem     # any run of PROJECT.json
    tlapm OrderJourneyProofs.tla                          # any *Proofs module

## 1. Inventory

Everything below is under `app/modules` unless a path says otherwise. All handlers
follow one pattern: open a session, read rows, check, assign attributes, commit.
The database runs at READ COMMITTED, no table has a version column, and only
rider acceptance and the payout batch use `SELECT ... FOR UPDATE`. So almost every
handler is *read, then write from what was read*, and what makes the system hard
is what other handlers, webhook deliveries and Celery tasks do in between.

| component | state | operations | talks to | hard | correct when |
|---|---|---|---|---|---|
| orders (`orders/`) | `orders` row: status, timestamps, rider, cancellation | checkout, accept, reject, preparing, ready, response timeout, rider timeout | payments (refund), riders (dispatch), Celery, Razorpay | stale status at commit, tasks racing people, crash between commit and `apply_async` | stages in order; nothing placed unpaid; every wait ends |
| payments (`payments/`) | `payments` row: status, Razorpay ids | initiate, webhook captured / failed, refund | Razorpay, orders | repeated, late, reordered webhooks; double "pay"; refund granted, commit lost | books never claim what Razorpay did not do |
| riders (`riders/services.py`, `router.py`) | online, available, delivery count | online / offline, accept, pickup, delivered, location | orders, ledger | two riders, one order; one rider, two orders | one rider per order; one earning per order |
| earnings and payouts (`riders/payout_*`, `restaurants/payout_*`) | earnings, payouts | earn, weekly batch | deliveries, Celery beat | overlapping batches, deadlock, crash | each earning paid once, in a payout of its sum |
| cart (`carts/`) and `orders/pricing.py` | cart, lines with a price snapshot | add, reduce, remove, clear, checkout | menus, orders; a capture deletes the cart | checkout twice, menu changed under the cart, capture deleting a newer cart | one cart of one restaurant; an order adds up |
| restaurants (`restaurants/`) | onboarding step, status, hours, closures, images, cuisines | step forms, activate, pause, closures, hours, uploads, delete | admins, cache, storage | stale status written back, check-then-insert races, upload-then-write | activation comes after the menu; a set schedule is never empty |
| menus (`menus/`) | categories, items, positions, images | create, update, archive, reorder, delete, upload | carts, cache | concurrent reorder, delete of what a cart holds | one row per position; no orphans |
| cuisines (`admins/`, `restaurants/`) | cuisine types, requests, mappings | request, add, primary, withdraw, approve, reject, revoke | cache | an administrator's decision against the owner's withdrawal | a mapping resolves; one primary |
| applications (`partner_applications/`, `rider_applications/`), `locations/` | applications, roles, cities | start, form steps, submit, approve, reject | users, storage | two admins, one decision; a stale form | role follows approval; what is reviewed is complete |
| users (`users/`) | account, one-time codes | register, send, confirm, reset | mail | sends and confirmations overlapping, expiry | a code is used once, for what it was sent |
| reviews (`reviews/`) | reviews, running averages | submit, cached listing | orders, cache | lost update of the average | a rating is within those given |
| cache (`app/core/cache.py`) | Redis keys with a time to live | get, set, delete | restaurants, menus, reviews, cuisines | slow reader stores what was just deleted; Redis down | staleness ends |
| realtime, notifications | sockets by user; notification rows | connect, send, disconnect; append, mark read | order handlers | list changed while `send_to` awaits | a push reaches who listens |
| addresses (`addresses/`) | rows, default flag | add, change, delete | checkout | two defaults set at once | never left without the default |
| discovery (`restaurants/services.py`) | a cursor | next page | reviews, restaurants | rows moving across the cursor, several rows per restaurant, old pages in Redis | who stays put is not missed, and is on one page only |
| storage (`app/core/storage.py`) | objects | put, delete | images of all kinds | put or commit fails half-way | a row's object exists |

The hazards found while reading, each at its line and with the properties that
guard it, are in `PROJECT.json`.

## 2. Modules

| module | models | depends on |
|---|---|---|
| `OrderStore` | rows, queue, Razorpay's side, sessions in flight; Init, types | |
| `PaymentDesk` | `payments/router.py`, `payments/services.py`; Razorpay (external) | OrderStore |
| `OrderDesk` | checkout, restaurant handlers, Celery tasks | PaymentDesk |
| `RiderDesk` | online/offline, accept, pickup, delivered | OrderStore |
| `OrderSystem` | the composition: Next, Spec, FairSpec, properties, refinement | OrderDesk, RiderDesk |
| `OrderJourney` | abstract specification of one order's journey | |
| `OrderClaims` | statements of README and comments that overlapping requests break | OrderSystem |
| `OrderInvariant` | the inductive invariants | OrderClaims |
| `OrderJourneyProofs`, `OrderMoneyProofs`, `OrderRiderProofs` | theorems about OrderSystem | OrderInvariant |
| `MCOrderSystem` | symmetry, a later initial state | |
| `EarningsLedger` | abstract append-only ledger | |
| `Payouts`, `PayoutsProofs`, `MCPayouts` | the weekly batch over row locks, its theorems, its instance | EarningsLedger |
| `Handlers` | a request as a read step and a commit step | |
| `Restaurants` | `restaurants/router.py`: draft to activation, hours, pause, closures, deletion | Handlers |
| `Menus` | `menus/router.py`: categories and items | Restaurants |
| `Carts` | `carts/router.py`, checkout, the capture's deletion; `ShopSpec`, customers and owners together | Menus |
| `DetailCache` | detail page and discovery feed in Redis | Menus |
| `Images` | uploads, rows, objects and their clean-up | Handlers |
| `Cuisines` | cuisine types, requests, mappings, the cached list | Handlers |
| `Applications` | partner and rider applications, the city | Handlers |
| `Accounts` | registration, one-time codes | Handlers |
| `Reviews` | reviews, running averages, the cached page | Handlers |
| `Realtime` | notifications, `ConnectionManager` | Handlers |
| `Addresses` | saved addresses and the default flag | Handlers |
| `Discovery` | the cursor walk of the discovery feed | |
| `Pricing` | `calculate_delivery_fee` | |
| `MCStorefront`, `MCBackoffice` | compositions of these, one scene per initial state | |
| `StorefrontProofs` | theorems about Restaurants, Menus and Images | Menus, Images |
| `CartProofs` | theorems about the whole shop and about `MCStorefront` | MCStorefront, StorefrontProofs |
| `OfficeProofs` | theorems about Applications, Cuisines and Accounts, and about `MCBackoffice` | MCBackoffice, FeedProofs |
| `FeedProofs` | theorems about Discovery, Pricing, Reviews, Realtime and Addresses | |

A definition whose comment starts with *Mutant:* is not part of the model: it is
the definition below it with a plausible bug, kept to show that a property notices.

### The ordering core

*State.* One function per column, over the set of orders (riders, Razorpay ids).
The nullable `*_at` timestamps are one set per order, `reached`. A payment row is
created with its order, so its columns are functions of the order.

*Sessions.* `txn[s]` is a handler between its last read and its commit: which
handler, and the values it read. `...Read` actions are the handler up to there
with its guards (an early return without a write is not an action: nothing
happens); the action named after the handler is the rest, one commit. Two reads
that follow each other (order, then its payment) are one step. A handler that
updates a row, calls Razorpay for a refund and commits is one step too: autoflush
sends the UPDATE first, so the row is locked from before the call. SQLAlchemy
emits only columns whose value differs from what was read: `Flush`.

*What the code does that one might not expect*, and the model therefore does:
- `initiate_refund` selects the payment again but gets the instance already in the
  session, as read earlier; it decides on `t.pay`, not on the row.
- after a capture, `push_new_order_to_restaurant` needs `order.items`, which no
  query loaded; the async session raises, after the commit. The `apply_async`
  behind it never runs. The only response timer of an order is checkout's.
- `_check_rider_assignment_timeout_async` evaluates `order.restaurant`, likewise
  unloaded; the task raises and its cancellation is rolled back, while the refund
  Razorpay granted is not.
- going online always sets `is_available`, also for a rider who carries an order.

*Left out.* Prices, items, notifications, WebSocket pushes, ownership and role
checks (any owner, rider or customer may act at any time), location updates, the
geo query of dispatch (it writes nothing), the rider status SUSPENDED (no code
sets it).

*External.* A Razorpay order is created unpaid, may see failed attempts, and is paid
once, with the right or another amount; webhooks for what happened may be delivered
any number of times, in any order, overlapping; one full refund per payment is
granted. A Celery task runs at any time after it was queued (`countdown` is not
modelled as time), once: `acks_late` is not set, so a task whose worker dies is gone.

### Payouts

Riders and restaurants have the same batch code over two pairs of tables; an owner
is of either kind. `OwnerOf` and `Amount` are constants: the rows deliveries may
write. A run is: list owners with pending rows; per owner, SELECT FOR UPDATE (the
rows tried are those pending when it started, locked one by one in any order,
looked at again after a wait), then payout, rows and stubbed transfer in one commit.
An exception rolls back and goes on with the next owner; a crash forgets the run;
the database ends one session of a deadlock. `UNIQUE (owner, period_start,
period_end)` never stops a run, since `period_end` is the moment the run started.
In the code as it is nobody calls `create_restaurant_earning`, and no worker imports
`payout_jobs.py` (autodiscovery looks for `tasks.py`), so a run happens only when
somebody starts it: the model lets runs start at any time and assumes no fairness
for it.

### The storefront and the back office

`Handlers` is what these modules share. `job[s]` is a request between its reads and its
commit: `...Read` actions are the handler up to there, with its guards and early returns;
the action named after the handler is its commit, and the actions named after what goes
wrong (`...Taken`, `...Fails`, `...Conflict`, `...Gone`) are the database refusing it: a unique
key, a foreign key, an UPDATE of a row that is gone. `Flushed` is the unit of work: a
column is written only when it differs from the value *loaded*, so what a stale commit
overwrites is modelled column by column.

*Keys.* A member of `Restaurants`, `Categories` or `Items` stands for a unique key (owner,
name, address; restaurant, name; category, name), so inserting one twice is the
conflict the table refuses. `Cuisines` and `Carts` have row ids of their own, since
there a row deleted and made again is told apart by who still holds the old one.

*Constraints.* The unique keys on positions are deferred (a migration makes them so):
a reorder may swap two positions, and only the commit is refused. The partial unique
indexes on primary cuisines, active rider applications and primary images are the
guards `PrimaryFree`, `MayBe` and `Accepted`. Where the code checks and no index backs
the check (closures, partner applications, full names, default addresses), the model
lets two requests through, as the database does.

*Redis.* Any call may fail and is only logged, and a read that fails counts as a miss; a value stored has a time to live, which
may be over at any time. `DetailCache` has the reader's two steps and the owner's
commit and deletion as separate steps; changes that delete nothing (creation, deletion,
reordering) are `CommitWithoutInvalidate`.

*Discovery.* The query joins the shifts, so a restaurant is a row for each of its shifts that
is open, and pages are cut by rows. Every page is cached under its cursor, for everybody.
A restaurant is steady for a walk if it has not changed since the oldest page of the walk
was made.

*Storage.* Keys are fresh numbers. A put fails or not, a commit fails or not, the process
dies between any two steps; what an upload has stored and not yet in a row is remembered
in its job.

*Realtime.* `send_to` is the index of Python's list iterator over the live list, each
send an await; leaving shifts the list under it. The pushes of `order.items` that raise
before they reach a socket (see above) are not in this module, which is about those
that do. A send to a peer that is gone raises, or is lost without a word while the
connection has not noticed.

*What the code does that one might not expect*, beyond what PROJECT.json lists as findings:
- create, delete and reorder of menu rows never delete the detail page's key; the
  feeds asked for by coordinates are stored under keys no invalidation matches.
- `approve_rider_application` copies the picture and then raises on the lazy
  `application.applicant`; the rows stay as they were.
- a confirmed reset token and a confirmed verification code are read and written
  without a lock: two overlapping confirmations of one code both succeed, and the
  password is that of the later commit. No confirmation that starts afterwards finds the code.
- rejecting a rider application whose form is still being saved, and the form's commit
  after it, leave a status that is behind the columns, never ahead of them.

## 3. What is checked

| run | instance | states | shows |
|---|---|---|---|
| `payments` | 1 order, all methods, 2 Razorpay ids, 2 sessions, 1 fault | 425 k | `PlacedWasPaid`, `BooksMatchRazorpay`, `RefundedWasPlaced`, `WaitingIsWatched` with double pay, mismatching, repeated and late captures, timeouts and rejections overlapping them, a crash after the refund |
| `journey` | 1 order, 1 rider, 1 id, RAZORPAY and COD, 2 sessions | 473 k | `NoStageSkipped`, `CashCollected`, `DeliveriesWithinLedger`; OrderSystem implements OrderJourney |
| `live` | 1 order, 1 id, 1 fault | 32 k | `AwaitingPaymentEnds`, `CaptureReachesOrder` |
| `serial` | 2 orders, 2 riders, 1 id, **1 session**, 1 fault | 404 k | `UnpaidHoldsNoMoney`, `DeliveriesAreCounted`, `PaidIsNotFailed`, `OrderKeepsItsRider`: four statements of the comments hold while requests do not overlap |
| `payouts` | 3 earnings of 2 owners, 2 runs, 1 fault | 37 k | `PayoutIsItsEarnings`, `ImplementsLedger`, `NoRowDropped`, `BatchPays` |
| `storefront` | 2 restaurants, 3 categories, 3 items, 2 carts, 2 sessions | 362 k | `ActivationComesFirst`, `ScheduleStaysComplete`, `MenuIsOrdered`, `CartOfOneRestaurant`, `OrderAddsUp`, `RowsHaveObjects`, `StaleEnds` |
| `backoffice` | 2 restaurants, 2 cuisine names, 2 applications, 3 codes, 3 orders, 3 sockets, 3 addresses, 2 sessions; 2 shops with up to 2 open shifts; distances to 16 km | 719 k | `MappingsResolve`, `OnePrimaryCuisine`, `ApprovedOwnsRole`, `SubmittedIsComplete`, `OneActiveApplication`, `CodesAreSpent`, `RatingsAreEarned`, `PushReachesListeners`, `DefaultRemains`, `SteadyShown`, `FeeGrowsWithDistance` |
| `claim_*` | as small as the behaviour needs | | a statement of README or a comment the code does not keep |

*Bounds.* `Sessions` bounds how many handlers are between read and commit, not how
many ever run; two is what every race found here needs, and the theorems hold for
any number. `MaxFaults` bounds crashes and provider errors in one behaviour.
`MaxRiderTimers` bounds tasks queued per order: a stale "ready" commit can queue
more, and the handler whose task would exceed it is not taken. `RzpIds` bounds double
pays. There are at least as many `Payouts` as `Earnings`, so ids never run out.
`CashCollected` and `DeliveriesWithinLedger` are checked from checkout on, in `journey`,
where a rejection, a timeout or a refund may have read the order before it was on its
way. Only the two claims about riders start later, from orders being prepared
(`PreparingInit`, reachable under Spec), to keep their traces short. Symmetry is used in safety runs only. Deadlock is not checked:
orders are finitely many and the system really stops when all are done.

*Scenes.* `MCStorefront` and `MCBackoffice` start in one of several scenes: the requests of that
scene interleave and the other parts stand still, so that independent parts add up
instead of multiplying. Storefront: onboarding (a draft, documents, hours, first
category and item, activation, deletion, all overlapping), trading (pause, closures,
hours), categories, items, lines (quantities of two items in one cart), cart (items of
two restaurants, price changes, archive, delete, the restaurant's deletion, checkout, capture),
cache, images.
Back office: cuisines, the cached cuisine list, partners, riders, registration, codes,
reviews of restaurants and of others, realtime, addresses, feed, fee. What spans scenes
is kept together where the code relates it: carts with menus and restaurants, the
cache with the menu it shows, cuisines with both kinds of actor. Two sessions are what
each of these races needs; `LastRow`, `LastCode`, `LastKey`, `CartIds`, `OrderIds` and `MaxPosition`
bound how many rows of a kind are ever made, `MaxQuantity` a line. `Horizon` is a
distance past the fee's cap, and every metre up to it is tried. `LastRow = 5` lets two
requests, two mappings and an approved cuisine coexist; a withdrawal and a new request
for the same name, approved in between, fit. In the feed, two shops of up to two open
shifts, three ratings and pages of two rows let one restaurant overtake the other and
the cursor in both directions, and a page end between two restaurants or between the two
rows of one; one page in Redis (`MaxStored`), under any cursor, is enough to be older
than what the walk saw before it. Three codes allow an expired, a replaced and a current
one.

*The claims.* What the documentation says and the code does not keep, mostly when requests
overlap:
- `claim_capture_once`: the webhook's guard is on PAID; a payment in REFUND_PENDING
  passes it. A retried capture revives a cancelled, refunded order.
- `claim_one_order`: a rider accepts an order, goes online again, which sets
  `is_available`, and accepts another. One session: no two requests overlap.
- `claim_second_rider`: two "ready" requests read PREPARING; the first commits and a
  rider accepts; the second writes READY_FOR_PICKUP over that, and another rider
  accepts the order the first one has.
- `claim_unassigned`: the rider timeout never cancels (see above).
- `claim_unpaid_no_money`: the response timeout read AWAITING_PAYMENT, the capture
  commits, the timeout commits: cancelled as unpaid, paid, not refunded.

`UnpaidHoldsNoMoney`, `PaidIsNotFailed`, `DeliveriesAreCounted` and `OrderKeepsItsRider` hold in
`serial` and fail with two sessions; a response timeout that overlaps an acceptance likewise
cancels the accepted order. "One rider per order" is what locking the row gives two
acceptances; the restaurant's handlers take no lock, hence `claim_second_rider`. That a rider
with an order cannot go offline (`riders/services.py:295`) is not a property here: with
requests one at a time it is the guard of `toggle_rider_online_status` and no more, and an
acceptance between that guard and the commit breaks it (a finding in PROJECT.json).

*Fairness.* In `MCStorefront` only the expiry of a stored key is fair, which is what a
time to live is; `StaleEnds` follows from nothing else, and readers and owners owe
nothing. In the ordering core (`FairSpec`): a session in flight ends (the server and workers run); a
queued task is picked up; a payment's `captured` webhook is delivered until its
handler took it (Razorpay retries on a slow or failing answer). The latter two are
strong, as they compete for sessions. Customers, restaurants and riders owe nothing,
nor does anyone owe a start of the payout job. `AwaitingPaymentEnds` excepts
behaviours with a fault: a process that dies between commit and `apply_async`, or a
worker that dies with the task, leaves the order waiting.

## 4. What is proved

TLAPS checks these for all values of the constants that satisfy the named
assumptions (`StoreAssumption`, `OrdersAreFinite`, `LedgerAssumption`, `PayoutsAssumption`: the null
values are not members of their sets, bounds are naturals, amounts positive).

- `TypeCorrect` (OrderJourneyProofs).
- `StagesInOrder`, `NothingPlacedUnpaid`, `JourneyImplemented` (OrderJourneyProofs),
  from the invariant `JourneyInv`. `NoStageSkipped` is not inductive: a session may
  commit long after its read. What saves it is that stages are only ever added and
  Razorpay never takes an answer back, so a session may keep relying on the *stage*
  its order had reached (`Needs`), though not on its status. `BlankUntilCheckout` and
  `RazorpayIdsAreOurs` say where a webhook's row comes from. The proof has one lemma
  per way to write an order: entering a stage, cancelling, or touching neither.
- `PayoutsAddUp`, `LedgerImplemented` (PayoutsProofs), from `PayoutsInv`: a locked row
  is pending, of the batch's owner, and of one run only, so the batch pays what it read.
  `Total` stays unexpanded: sums of the same rows are the same.
- `NothingIsDropped` (PayoutsProofs), the action property `NoRowDropped`, from the same
  invariant: what a run wants or has locked is of the owner whose batch it has open, so a
  rollback logs the right owner; a lock is refused only to a row already paid.

- `CashBookedOnDelivery`, `BooksAgree`, `OnlyPlacedIsRefunded` (OrderMoneyProofs), from
  `CashInv` and `BooksInv` on top of `JourneyInv`. No payment handler ever works on a
  cash order, and whoever could refund one saw it PENDING, so the COD branch of
  `initiate_refund` is dead code. A `provider_payment_id`, stored or read by a session
  in flight, names money taken for an order that was placed (`TakenFor`); a capture
  leaves the column alone only if it already holds one. The lemmas say what one step may
  do to a cash order (`CashRowKept`) and to a payment (`PaymentRowKept`, `RecordsKept`),
  and each handler is shown to do no more.
- `CapturesAreTaken` (OrderMoneyProofs), from the same invariant: PAID is the one state in which
  the webhook turns a capture away, and it implies PLACED, for cash by the chain of stages.
- `WaitsAreWatched` (OrderMoneyProofs), from `RefundsInv` and `WatchInv` on top of
  `BooksInv`. The capture queues no timer (the push before its `apply_async` raises), so
  checkout's is the only one. It passes from the queue to a session, and the session must
  end the wait; only a refund that raises could put the wait back. It does not: a cash
  payment is read PENDING, a paid row is read with its id (`RefundSessionOK`), and without
  a fault Razorpay refunds only what is cancelled for good or was already on its way
  (`Ended`): a reason, once written, is never cleared. `Waits` leaves out Stripe, whose
  refunds are not implemented, and an order revived by a late capture: its timer is spent,
  and it waits until somebody answers (see the findings).
- `CountWithinLedger` (OrderRiderProofs), from `LedgerInv`: the count a delivering session read is within the ledger and the
  ledger only grows; it needs finitely many orders (`OrdersAreFinite`).
- `UnpaidIsUnpaid`, `EveryDeliveryCounts`, `CaptureIsKept`, `OrderStaysWithItsRider`
  (OrderRiderProofs): four statements of the documentation, under the hypothesis
  `OneSession` (at most one member of `Sessions`, any number of orders, riders, faults), from
  `SerialInv`. Its core is `Stands`: what the handler in flight read is still what the rows
  say. Only other handlers' commits could falsify it, and a session's own commit ends it.
  The last one needs two facts more (`HeldInv`): an order with a rider is on its way or
  delivered, which no handler takes back to READY_FOR_PICKUP, and whatever the restaurant
  sees is paid or cash (`PlacedIsPaid`), so that no capture places an order a second time.
  The theorems say, for all sizes, that overlapping is what breaks these statements: two
  sessions do (section 3).
- `ActivatedInOrder`, `ScheduleIsNeverEmpty` (StorefrontProofs), for `MenusSpec`, any overlap of
  requests on any restaurants and menus, from `OwnerInv`. The status column cannot carry
  the argument, since stale commits move it back; what does is that a status never runs
  ahead (`StageReached`: MENU_ADDED or ACTIVE only if an item was made, ACTIVE only if
  activated) and that a session may rely on having seen it (`Saw`), because the two facts
  behind it are never undone while the row exists. `Orphan` turns the sessions that hold
  a deleted row into sessions that can only fail.
- `MenuStaysOrdered` (StorefrontProofs), for `MenusSpec`, from `MenuInv`: the unique constraints at a
  commit look at the rows of one parent only, so the rest is that a commit writes under the
  parent it read and finds it still there. `Relies` says what a request in flight holds of
  parents and rows; `StillRelies` keeps it while no row goes (`RowsRemain`), and each of the
  three deletions either takes the requests that held the row or touches nothing they hold.
- `NoBrokenPicture` (StorefrontProofs), for `ImagesSpec`, from `ImagesInv`: the keys an upload has
  stored (`Pending`) and those it will remove (`Doomed`) belong to it alone and to no row that
  survives; `OwnKeysOnly` says what a step may then do without disturbing another upload.
- `CartStaysWhole`, `OrdersAddUp`, `ShopKeepsMenus` (CartProofs), for `ShopSpec`: any number of
  carts, orders, shops and overlapping requests of customers and owners. From `ShopInv`, which
  is `OwnerInv`, `MenuInv` and `CartInv` together. A customer's request commits what it read of
  a cart that may be gone; what is still true of it (`StillTrue`) is so because a cart never
  changes its restaurant and never comes back (`CartsAge`), and who holds a line loses it with
  the row (`JobsOfGone`). Three facts join the parts: a cart step writes no owner's row
  (`OwnersUntouched`), an owner's deletion stops at rows a cart or an order refers to
  (`HeldRemain`), and at a new cart's commit the item it is made for still exists. `SumOf`, a community fold,
  stays unexpanded: the subtotal is the sum of the very lines the order is given.
- `ApprovedHasRole`, `ReviewedIsComplete`, `OneAtATime` (OfficeProofs), for `ApplicationsSpec`, from
  `ApplicationsInv`: filled steps stay filled and a granted role stays granted, so what a
  handler remembers (`Remembered`) is still true when it commits.
- `MappingsAlwaysResolve`, `PrimaryIsOne` (OfficeProofs), for `CuisinesSpec`, from `CuisinesInv`: rows
  have ids below the counter, `MappingsOK` says what a set of mappings may look like, and
  one lemma per kind of write (`Insertion`, `Flagging`, `Removal`, `Approval`) keeps it,
  whatever the writer had read: only the constraints at the commit are used.
- `SpentCodes` (OfficeProofs), for `AccountsSpec`, from `AccountsInv`: a session about to confirm
  holds a code that was mailed for its purpose, and purposes and used codes never change. It
  speaks of confirmations that start after the one that spent the code; two that overlap
  both succeed.
- `WalkShowsSteady` (FeedProofs), for `DiscoverySpec`, whatever pages Redis holds: a page is the
  first rows of what lies behind its cursor, so its last row separates the restaurants on it
  from those to come. `Spans` says so of every stored page and those of its restaurants that
  have not changed since; hence a page found in Redis fits into the walk as a fresh one does.
  The order must be total, hence ids within it.
- `FeeGrows` (FeedProofs), for `PricingSpec`: rounding half to even is monotonic, the pieces of
  the tariff meet at the thresholds, and a cap keeps an order.
- `RatingsEarned` (FeedProofs), for `ReviewsSpec`, from `ReviewsInv`: count and average, stored or
  read by a session in flight, are always such that the present rows can have led to them
  (`Earned`), since rows are never taken back. The weighted mean rounded half to even stays
  between the least and the greatest rating (`AverageBetween`); the count is positive because
  the first review cannot leave the average as it was. It needs ratings within 1..5 (the schema's bounds).
- `PushReaches` (FeedProofs), for `RealtimeSpec`, from `RealtimeInv`: only one session carries a
  message, and while the list it walks is the live one, nobody at or behind its index has it
  (`Unsent`) and, as long as nobody left, whoever is before its index has it or is gone (`Served`).
- `DefaultStays` (FeedProofs), for `AddressesSpec`: a handler clears flags only if it sets one.

These specifications are the modules' own (`MenusSpec`, `ShopSpec`, `CuisinesSpec`, ...). The
two compositions the runs check are proved from them:

- `StorefrontTypes`, `StorefrontHolds` (CartProofs), for the `Spec` of `MCStorefront`, from
  `StorefrontInv`: in every scene some parts stand still and the step is one of `MenusNext`,
  `ShopNext` or `ImagesNext`, whose invariants take over (`OwnersPlay`, `ShopPlays`, `PicturesPlay`); a
  reader of the cache holds no row and writes none (`ReadersPlay`). The types need more than
  their conjuncts. A new row's position is the highest of its parent's plus one, which is
  within `MaxPosition` because the request has read that it is; the numbers a reorder hands
  out are within it because every row has a position of its own from 1 up (`Numbered`,
  `MenuIsOrdered`), so a parent has no more rows than that (`OrdersFit`, by an injection). And
  what a request will write is of its column's type from when it was read (`Typed`, `Priced`).
- `BackofficeTypes`, `BackofficeHolds` (OfficeProofs), for the `Spec` of `MCBackoffice`, from
  `BackofficeInv`: one conjunct per part, each either at rest or with the invariant of its
  own specification. The parts share only `job`; a request of one has an operation the others'
  invariants do not speak of; only for Realtime, which says who carries a push, does it take
  a lemma per part (`Unpushed`).
- `StaleExpires` (CartProofs), for the `Spec` of `MCStorefront`: what the cache holds and is no longer
  true has a time to live, whoever stored it and whichever deletion failed.

The assumptions are named in each module: counters' bounds are naturals, the words that
stand for "no row" are no restaurants, page size at least one, the free radius at most the
far threshold, a highest price, finitely many deliveries (`ReviewsAssumption`) and sockets
(`RealtimeAssumption`), ratings within the schema's 1..5. `SceneAssumption` says, in either MC module, which
members the scenes take from the sets (two restaurants, two items of one category and one
of another's; a seeded cuisine); TLC evaluates all of them on the runs.

*Only model-checked*: liveness (`AwaitingPaymentEnds`, `CaptureReachesOrder`, `BatchPays`,
`StaleEnds`), as TLAPS has no ENABLED. `WaitsAreWatched`, `CapturesAreTaken`, `NothingIsDropped` and
`StaleExpires` are their safety halves: what the system waits for is still to come and
will be let in; that it comes is fairness, and TLC's. Every invariant and every action
property of the passing runs is also a theorem, the four of `serial` under `OneSession`.

## 5. Not modelled

- `update_menu_category` and `update_restaurant_location`: a category *is* its name here, and
  nothing modelled reads the two coordinates.
- Prices other than an item's price and discount: tax, coupon, delivery fee and their
  sum in checkout are constants of the order; the fee's arithmetic is `Pricing`.
- The geo search behind dispatch and behind discovery by coordinates: PostGIS decides
  who is near. The walk over its result is the same as `Discovery`'s.
- Mail, image processing, encryption, token cryptography, templates, configuration,
  development tools, load tests, and read endpoints that only list rows: no state of
  their own. Of the migrations only the deferrable position keys are used.
- Logins, refresh tokens and role checks: they write nothing. Any actor of the right kind may
  act at any time.
- Time: a countdown, a time to live and an expiry may be over at any moment.
- The CHECK that a rider's earning is positive: the amount is the delivery fee, which contains
  the base price (`core/config.py`, 20.0) and so fails it only if that is configured as 0.
- A request that adds several items to a cart: here it adds one. A line is known by its cart
  and item, as the unique key has it, not by its row id: one removed and added again between
  an addition's read and its commit is taken for the old one, whose UPDATE would fail.
- The rows of deliveries in the restaurants' ledger (`create_restaurant_earning` has no
  caller) and the jobs no worker imports.
