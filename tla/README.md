# Verification of the Matjero core

TLA+ modules, TLC configurations and TLAPS proofs for the commerce core of this
repository: carts, checkout, orders, inventory and the order expiry scheduler; the
transactional outbox with the worker that publishes it; the domains and the themes
of stores; the public storefront with its revisions and the caches behind it.
Everything here is translated from the Go code and its SQL; the documents under
`src/docs` are quoted only where they say what the code is meant to guarantee.

## 1. The system and its components

The program is a Go monolith (`apps/core-api`) over PostgreSQL with two worker
processes (`apps/workers/scheduler`, `apps/workers/general-worker`) and RabbitMQ.
All concurrency is between database transactions (READ COMMITTED, through
`Repository.withTx`), and between the workers and everything else. No component
calls another one asynchronously except through the outbox table.

| Component | State | Operations | Hard behaviour | What makes it correct |
|---|---|---|---|---|
| Carts (`customer_cart.go`) | `carts`, `cart_items` | create, add, update, remove | edits racing with a checkout | a cart is sold as it is shown, once |
| Checkout (`checkout_session.go`) | `checkout_sessions` | create, finalise, replay | several sessions per cart, retries after a lost answer, waiting between decision and commit | one order per cart, idempotent by semantic request |
| Orders (`orders.go`, `order_repository.go`) | `orders`, `order_items`, `order_timeline`, `store_order_sequences` | create, confirm, cancel, expire, advance | transitions racing at the deadline | one terminal outcome, legal transitions, gapless numbers |
| Inventory (`inventory_lifecycle.go`, parts of `repository.go`, `platform_repository.go`) | `inventory_snapshots`, `inventory_reservations`, `inventory_movements` | hold, consume, release, expire, restock, adjust, reserve | last unit, several lines on one snapshot, adjustments racing with holds | counters equal reservations, nothing oversold, ledger explains stock |
| Expiry scheduler (`expiry_worker.go`) | the batch in memory | discover, expire, skip | stale batch, crash, several processes, failures only logged | every overdue order is settled |
| Outbox and publisher (`packages/outbox`, `packages/messaging`, `general-worker`) | `outbox_events` | enqueue, claim, renew, publish, mark, back off | lease expiry, crash after publication, reconnects | every committed event is published at least once |
| Inbox (`packages/inbox`) | `processed_events` | record | duplicates | effect once per consumer |
| Store domains (`domain_*.go`) | `store_domains` | request, verify, activate, disable, enable | DNS lookup outside the transaction, primary switched by several operations | at most one primary, none disabled |
| Storefront revisions (`storefront_revision.go`, `modules/storefront/revision.go`) | `storefront_revisions`, caches downstream | bump with 22 kinds of writes, labelled reads | which stores a write of a shared supplier, category or product reaches; a bump that selects before others commit; a page read in several statements | every store whose pages change is bumped; what is served under the current label is current |
| Storefront catalog (`catalog_repository.go`, `catalog/selection.go`) | none, it reads the records | the statements of each page | statements of one page see different commits | one canonical listing per product, stock of its own source |
| Themes (`modules/themes`) | installations, configurations | draft, publish, discard, upgrade, preview | publish against a moved draft, upgrade without a check | what is published was validated |
| Records (`repository.go`, `platform_repository.go`) | suppliers, products, listings, offers, categories | single-transaction inserts and updates | they feed the storefront | constraints of the schema, and the bump |
| Markets, HTTP, authentication, configuration | single rows | reads and single-row writes | none of their own | constraints of the schema |

Sections 3 to 7 describe what exists. The table in `PROJECT.json` (`components`)
gives the status of each part, `hazards` the places in the code where something
can go wrong that a test hardly reaches, with the properties that watch them.

## 2. Plan

In order; each line is a module and what it is for.

| | Module | For | |
|---|---|---|---|
| 1 | `OrderLifecycle` | the abstract specification of an order, the matrix of `ValidateOrderTransition` | done |
| 2 | `Quantities`, `OrderInventory` | carts, sessions, orders, stock and scheduler, one action per transaction; implements 1 | done |
| 3 | `OrderInventoryProofs`, `ReservationProofs`, `StockProofs` | proofs about 2 | done, see section 6 |
| 4 | `Delivery`, `Outbox`, `OutboxProofs` | claims, leases, renewal, confirms, back-off, crashes; refinement, liveness, proofs | done |
| 5 | `StoreDomains`, `StoreDomainProofs` | verification, activation, disabling and enabling, statement by statement; the primary domain; deadlocks | done |
| 6 | `ThemeDrafts`, `ThemeDraftProofs` | draft, publish, upgrade, preview, read by read; proofs | done |
| 7 | `StorefrontCatalog`, `StorefrontCache`, `StorefrontProofs` | the reads of the storefront as pure operators; the writes that bump, and the caches | done |
| 8 | `OrderLocks`, `OrderLockProofs` | the transactions of 2 taken apart into their row locks: deadlocks, waiting, proofs | done |
| 9 | liveness | `EveryEventPublished`, `OverdueOrdersSettle`, `EveryCallReturns`, `EveryTransactionEnds`: TLC only, beyond the prover | checked |

## 3. The modules

**`Quantities`** holds sums of quantities over sets of rows and the first-fit
allocation. A sum is the number of units, `Cardinality(Units(R, q))`, so that its
algebra can be proved from cardinalities without recursion. `FirstFit` is
`AllocateLineSnapshot` called for each line in ascending order with
`cumulativeAllocations`: it determines the allocation uniquely and has no
solution exactly when the code returns `ErrInsufficientInventory`.

**`OrderInventory`** has one variable per table (`carts`, `sessions`, `orders`,
`reservations`, the two columns `onHand` and `reserved` of the snapshots,
`movements`, `sequence`, `history`), the database `clock`, and what processes keep
outside the tables: `deciding` (checkouts between their decision and their
commit), `found` (batches of the workers) and `answered` (requests a caller was
told succeeded; a history variable no guard reads).

| Action | Code |
|---|---|
| `CreateCart`, `AddCartItem`, `UpdateCartItemQuantity`, `RemoveCartItem` | `customer_cart.go`; all but the first lock the cart row, so they wait while a checkout is deciding on it |
| `CreateCheckoutSession` | `checkout_session.go` 126 |
| `DecideCheckout` | `FinalizeCheckout` up to the loaded lines: locks of session and cart, clock, rules |
| `AbortCheckout` | every later return of an error, and a crash: rollback |
| `FinalizeCheckout` | allocation, order number, holds, order, timeline, event, session, cart: the commit |
| `ReplayFinalize` | the finalised session answers again if the fingerprint matches |
| `ConfirmOrder`, `CancelPendingOrder`, `CancelConfirmedOrder`, `AdvanceOrderStatus` | the functions of the same names; `UpdateOrderStatus` only chooses one of them from an unlocked read |
| `DiscoverExpiryCandidates`, `ExpirePendingOrder`, `SkipCandidate`, `RestartWorker` | the scheduler: query, one transaction per candidate, a failed or needless one, a stopped process |
| `AdjustInventory`, `ReserveInventory` | the stock operations outside orders |
| `Tick` | time passes |

Why one action may stand for a transaction: a failing transaction changes
nothing, so it is a stuttering step. A committing order transition locks its
order row first, decides on it, and then locks snapshots and reservations; an
order's reservations change only under the lock of their order, and the guards
on snapshot counters are evaluated under the snapshot locks that are kept until
the commit. Nothing it decided on can therefore change between its decision and
its commit except the clock, and the clock value it uses is the one of the
decision. `FinalizeCheckout` is different: it decides on session and cart, then
waits for the snapshot rows, and captures a second clock value afterwards; it is
two steps with `deciding` in between.

Abstractions: an order is named by its session (`orders.checkout_session_id` is
unique) and a reservation by its order line. A cart line is named by its listing
and SKU together, called listing here. Prices, currencies, titles, addresses and
statuses of listings, offers and locations are revalidated by the code before it
allocates and can only make it roll back: `AbortCheckout`. The semantic request
of a checkout (address and contact) is a member of `Request`; its fingerprint is
the pair of it and the cart's lines. Order numbers count from 1 instead of
100001. Movements are kept as totals of `quantity_delta` per type; the types whose
delta is always 0 are left out. The movement type of `AdjustInventory` is chosen
by its caller; here it is always `adjustment`. Cart statuses `abandoned` and `expired`,
session status `expired` and the cart's `expires_at` are never written by the code
and are absent. Snapshots exist from the start, as `CreateInventorySnapshot`
makes them: `InitialStock` on hand, nothing reserved, no movement.

**`OrderLifecycle`** is what the code promises of one order: the matrix, the
authority each move needs, the deadline. `OrderInventory` implements it under
`Lifecycle == INSTANCE OrderLifecycle WITH ...`, which maps the order columns and
takes the authority of the last move from the timeline.

The **`MC`** modules give the constants their small values.

**`Outbox`** is the table `outbox_events` and the processes that publish it. The rows
without `published_at` are a sequence, `line`, in the order of the claim query;
`claim`, `age`, `wait` and `attempts` are their other columns; `published` is the set
of the rest. A publisher has a `phase` (between which two statements of
`ProcessBatch` it is), the part of `claimedIDs` not yet begun (`batch`), the event in
hand (`current`) and a `channel`. `accepted` is what the broker confirmed or stored.

| Action | Code |
|---|---|
| `Enqueue` | `Store.Enqueue` and the commit it is part of |
| `Connect` | `runWorkerLoop`: a session with a new connection and channel |
| `ClaimBatch`, `RenewBatchNearExpiry` | the statements of these names; the second in front of every event |
| `RenewAndLoadEvent`, `SkipLostClaim` | the statement finds the claim in force, or `ErrClaimLost`; then the routing key and the first check of `publish` |
| `BrokerStores`, `Confirmed`, `PublishFails` | `PublishEvent`: the broker has the message; the confirmation arrives; nack, timeout or closed channel, whether or not the broker has it |
| `MarkPublished`, `ReleaseWithBackoff`, `StaleOutcome` | the statement that records the outcome, or finds the claim gone |
| `StatementFails` | every `return 0, err` of `ProcessBatch`; a statement whose answer is lost is the statement followed by this |
| `Stop`, `ChannelCloses`, `Tick` | the environment |

Clocks are relative: `age` is the time since `publish_claimed_at` and stops just
beyond the lease, `wait` the time until `next_attempt_at`. Both are whole ticks; the
code compares database timestamps of microseconds, so equal instants, which the
comparisons `<` and `>=` of the queries treat differently, do occur in the model.
A claim id is named by the publisher whose running batch generated it, and `Orphan`
once that batch is over: no statement will ever name the id again. `held` is the time
since the renewal in front of the running publication; no guard of `Spec` reads it.

Abstractions: `SKIP LOCKED` lets two claim queries run at the same time; as each skips
what the other has locked, the result is that of one after the other. Duplicates in
the broker are not counted, `accepted` is a set. A message the broker stores only
after the publisher gave it up counts as stored at that time or not at all. "Stored"
is what the broker confirms: with no queue bound it would confirm and drop
(publication is not mandatory), which is beyond this model. A malformed row stays
so. The back-off ends at `2 ^ BackoffCap` ticks (`LEAST(publish_attempts, 6)`, so 64
seconds); the waiting times of polling and reconnecting are left out.

**`Delivery`** is what the outbox promises its callers: an event reaches the broker
only after its transaction committed, it is settled only after the broker has it,
and nothing is taken back. `Outbox` implements it under `Promise == INSTANCE Delivery
WITH ...` (`ImplementsDelivery`).

**`StoreDomains`** is `store_domains` and the calls on it, one statement per action.
`row` is what is committed, `work` the newest version of each row, `lock` the
transaction that holds it; `phase`, `goal` and `waiting` say between which statements
a call is, which domain it is about to change and which rows its running statement
found and has still to lock. A statement under READ COMMITTED sees committed rows and
its own, waits for a locked row and looks at it again.

| Action | Code |
|---|---|
| `CreateStoreWithDomain`, `CreateCustomStoreDomain` | `repository.go` 275 and 325 |
| `BeginVerify`, `LookupTXT`, `MarkVerified`, `MarkVerificationFailed` | `VerifyCustomStoreDomainForSubject`: read, DNS query, one of two conditional updates |
| `BeginActivate`, `FindPrimary`, `Demote`, `Demoted`, `Promote`, `PromoteConflict` | `ActivateCustomDomainTx`; `Promote` waits for the unique index on primaries, or is refused by it |
| `BeginDisable`, `FindFallback`, `LockFallback`, `Promote` | `DisableDomainTx` |
| `BeginEnableCustom`, `BeginEnablePlatform`, `CountPrimaries`, `Promote` | `EnableDomainTx` |
| `Commit`, `Abort`, `DeadlockVictim` | `withTx`; a failing statement; PostgreSQL's deadlock detector |

Names and their syntax, the DNS protocol and `failed_reason` are abstracted; calls
that are refused at once change nothing and are left out.

**`ThemeDrafts`** is the theme of one store: installations, each with its version, its
published configuration and all its drafts so far (the last is `draft_config`, its
place `draft_revision`). A call reads the installation (`Begin...`), then the
configuration (`ValidateDraft`, `ResolvePreview`) and then writes, without locks in
between; only `PublishConfiguration` compares the revision. A schema is the set of
configurations it accepts. Preview tokens carry installation and revision and expire
at any time; their signature is left out.

**`StorefrontCatalog`** says what each statement of a public read returns from the
committed rows: the canonical listing of a product (the newest eligible one, whatever
its stock), its card, the category tree, the four pages as sequences of statements.
One market and one locale; images, which no operation writes, and filters, sorting and
paging of browse pages are left out.

**`StorefrontCache`** composes those reads with the writes. A writer runs one
transaction: the statement that changes its row (an action per operation, with row,
key and foreign-key locks), `BumpStorefrontRevisions` (the selector, on committed rows
and its own), `LockRevision` for each store found, `Commit`. A reader resolves the
host, reads the label (`ReadLabel`) and then statement after statement (`ReadPart`);
the complete page is a cache entry, `Served` while its label is the store's revision.
The cache is the consumer that the comments of `modules/storefront/revision.go`
describe (it keeps pages by revision and asks for the current one before it serves
them), not code of this repository. `unseen` is an observer: the output of a store changed and its
revision did not. `PublishTheme` stands for the theme writes of `modules/themes`, which
bump their store. Statuses are reduced to what the reads compare (active or not), stock
to whether any is available, names and prices to two values.

**`OrderLocks`** is the other view of `OrderInventory`: what its single steps lock, one
row after the other. A call is its `Script`, the list of its locking statements with
the rows of each; `want` is the row the running statement asks for, `holders` who holds
a row. `Ahead`, `Missing` and `Turn` say which statement runs and which of its rows
comes next: the smallest id of snapshots and reservations (`ById`), any row elsewhere.
All locks exclude each other, but for the `FOR KEY SHARE` of a foreign key (`Shares`):
`Blockers` are the holders a transaction waits for. A request is granted at once (`Grant`)
or waits (`Wait`) until the last of them has ended (`Lock`).

| Definition | Code |
|---|---|
| `FinalizeCheckout` | `checkout_session.go` 276 to 412: session, cart, candidates of all lines, sequence; then `order_repository.go` 149: the products that the inserted `order_items` refer to, in the order of the lines |
| `GetCart` | `customer_cart.go` 176, for cart edits and `CreateCheckoutSession` |
| `Transition` | `order_repository.go`: order, `lockSnapshotsByIDs`, `lockReservationsByIDs`; the same in all four transitions |
| `WriteStock` | `AdjustInventory`, `ReserveInventory`, each with its bump |
| `RenameProduct` | `UpdateProduct` with another slug, with its bump |
| `Shares` | `order_items.product_id REFERENCES products` (migration 000012, 73) |
| `Begin`, `Ask` (`Grant` or `Wait`), `Lock`, `Commit`, `ReturnEarly` | `withTx` and the statements between; a call may return or fail after any step |
| `DeadlockVictim` | PostgreSQL's deadlock detector |

What rows hold decides only which calls return early, so it is left out: every call may
return at any point. New rows nobody else sees yet (orders, items, timeline, events) are
left out too.

Of the foreign keys only `order_items.product_id` matters. A foreign key takes
`FOR KEY SHARE` on the row referred to, which waits for a `FOR UPDATE`, a `DELETE` or an
`UPDATE` that changes a key. Sessions, carts, orders, snapshots and reservations are
locked `FOR UPDATE`, but those a transaction refers to it has locked itself or just written. Listings,
variants, SKUs, offers, suppliers, locations, stores, markets and currencies are neither
deleted nor locked `FOR UPDATE`, and no `UPDATE` of them changes a key. What does is
`UpdateProduct` and `UpdateCategory` with another slug, which is `UNIQUE`, and
an order item refers to a product and to no category. So a checkout can wait for a
renaming, after it has taken its number.

The other catalogue writes are not calls of this module; `StorefrontCache` has them, with
their row and key locks. A renaming can wait for one of them on its product and they for
it, as two renamings do here, and all of them go on to revisions. None waits for a row of a
checkout, a cart edit or a transition: what these share with them are key locks, and only
a new slug of a product waits for those. So they close no ring with an order.

## 4. The runs

| Run | Instance | Question |
|---|---|---|
| `checkout` | 1 store, 2 carts, 3 sessions (two on one cart), 2 listings, 2 snapshots with 2 and 1 units, quantities to 2, 2 requests | Is a cart sold once and as it was decided? Are numbers gapless although checkouts abort after allocating? Does a replay answer only its own request? |
| `settle` | 2 stores with an order each, up to two lines of 1 unit each, deadline 1 tick after acceptance, clock to 2, 2 workers, batch of 1, failures and restarts | Does each order get one outcome, with all its reservations? Do timeline and events replay to the row? Is the matrix implemented, at the deadline too? Does every overdue order leave `pending`? |
| `stock` | 2 carts with 2 lines over 2 + 1 units, adjustments by 1, one standalone reservation, 1 worker | Do counters, reservations and ledger agree after every mix of operations? Is nothing oversold, and no order stuck? |
| `leases` | 2 publishers, 2 events (one malformed), lease 2, margin 1, batches of 2 | Whatever is delayed, stopped or cut off: do two publishers send one event only after a lease was overrun? Is no claim parked? Does a late publisher leave foreign claims alone? Is `Delivery` implemented? |
| `prompt` | 2 publishers, 3 events, one batch of 3, lease 4, margin 3, timeout 3 | Without delays, does a batch keep the leases of all its events until it is through? |
| `deliver` | 1 publisher, 2 events (one malformed), batches of 1, lease 2 | Is every good event marked published in the end? |
| `margin` | 1 publisher, 3 events, lease 4, margin 1, timeout 3 | As `prompt`, with a timeout `config.Load` accepts: violated |
| `moderation` | 1 store, its platform domain, 2 custom domains, 3 requests at once (a seller, a moderator, one who is both) | Is there one served primary at most, whatever races? Does moderation outlast late DNS answers? Is the host handed over in one commit? Which deadlocks can happen, and does every call return? |
| `drafts` | 2 installations, 2 versions of a theme (the second narrower) and another theme, 2 requests, 1 token, 3 drafts per installation | Is only a validated draft published? Does a late write stay in its installation? Does a preview show the draft of its token? |
| `storefront` | 2 stores selling one product, from own stock and from a supplier, 2 nested categories, 2 writers, 1 reader, 3 catalogues, 5 mixes of writes and pages | Is every store bumped whose pages change, but for those that come into reach too late? Is an entry under the current label current in all its parts? |
| `stale` | the same with order stock movements and product pages only | As the comments promise, is no committed change visible under an old label? Violated |
| `locks` | 3 connections, 2 sessions and carts of 2 stores with one product, which both list, 3 snapshots, the first for one cart and the others for the other, 1 order with reservations on those two | Who can deadlock with whom? What can a checkout wait for while it holds the sequence of its store? Does every call end? |

The bounds are the smallest at which the cases meet: two sessions on one cart and
one on another share a store sequence; listing 1 can be served by both snapshots
and listing 2 only by the first, so one cart puts two lines on a snapshot and two
carts compete for its last unit; the clock runs past the deadline; the batch is
smaller than the number of overdue orders. `MaxClock`, `MaxOnHand`,
`MaxLineQuantity`, `Adjustments`, `BatchSize` and the sets themselves are the bounds;
only `MaxLineQuantity` (10000) and `BatchSize` (100) exist in the code. Deadlock is
checked in `settle` and `stock`; in `checkout` there is no worker and the
clock stops, so a finished instance has nothing left to do. `settle`
is checked for liveness too, so it uses no symmetry; `leases` and `prompt` use that of
the publishers, which no property distinguishes.

For the outbox, a lease of 2 with a margin of 1 has ages that are fresh, near expiry,
at the lease and beyond it; two publishers are enough to take over a claim, and to
take it back. The bound on attempts is `BackoffCap` = 1, with two different back-offs.
In `prompt` two publications of 3 ticks take longer than the lease of 4, so the third
event of a batch depends on the renewal. `Event` bounds the rows; everything else is bounded by the clocks.
Deadlock is checked in all four: time always passes, and under `PromptTick` some
publisher can always go on.

In `moderation` three requests let two of them wait for a third, and a cycle of three
form. The domains start absent, so every status is reached by calls. Deadlock (of the
model) is checked: a database deadlock is a state in which `DeadlockVictim` acts.
`MaxRevision` = 2 and `MaxTokens` = 1 bound `drafts`: a draft can be replaced twice,
before and after a validation, and tokens are independent of each other. The
installations and the requests are symmetric. In `storefront` every writer has one
transaction, so that two writes of any two kinds meet at every point of each other;
`Traffic` pairs the pages with the writes their statements depend on, to keep the
reads from multiplying with unrelated writes, and its first member has every pair of
writes. The seeds differ in what a second listing of the same product in the same
store hides (`Shop`, `Imported`) and in what is still missing (`Fresh`). Deadlock is not
checked there: writers end. `TypeOK` bounds a revision by one bump for each writer.

In `locks` a ring of three waits can form. The reservations of the order are in the
opposite order of their snapshots, so sorting the one does not sort the other; the
checkout of the second cart and the order want the same two snapshots, and the bumps of the first snapshot
and of the product meet both revisions. The carts are of two stores and have
shelves of their own because only then two checkouts hold a product together, with a
renaming that waits for both, or is passed by one. Checkouts of one store exclude each other
at the sequence; that case adds waits for it and is left to the theorems.

`stale` is a disagreement of comments and code: `storefront_revision.go` 16-17 promises
that a committed change is never visible under its old generation, and
`repository.go` 846-847 bumps for a standalone hold because it can sell a product out.
`HoldReservation`, which checkouts use, and the stock movements of cancelled and
expired orders do the same without a bump.

Known divergences without a run of their own. (a) `EnableDomainTx` counts primaries
without seeing that another transaction is just disabling the only one
(`domain_repository.go` 327), and `DisableDomainTx` does not see the platform domain
that is being enabled: the store ends with an active platform domain and no primary,
which the comment at 289 rules out. (b) `UpgradeInstallation` writes the version without
comparing `draft_revision` (`service.go` 262): a draft saved after the validation need
not fit the new version; `UpgradesValidatedDraft` allows exactly that, and says that in
every other interleaving the version fits the draft. (c) Two
`SetProductCategories` of one product may leave the union of their categories, as the
DELETE of the second does not see the links of the first. (d) A store that lists a
product, or a product put under a category, by a transaction not yet committed when
a bump selects its stores is not bumped although the commit changes its pages;
`OnlyLateStoresAreMissed` allows exactly that and order stock movements.

`margin` is a disagreement of code and documents. The implementation plan
(`src/docs/implementation/phase-05-cart-checkout-orders-inventory.md`, 1569) has a long
batch renew its lease before expiration; `config.Load` compares margin and timeout
with the lease only, not with each other. With a lease of 4, a margin of 1 and a
timeout of 3, a first publication of 2 ticks ends just outside the margin, nothing is
renewed, and the next one, of 3, runs past the lease of the third event. Nothing is
lost by it (`ImplementsDelivery`, `OverlapOnlyAfterLease` do not need the renewal):
the event is skipped and claimed again. The defaults (30 s, 10 s, 5 s) satisfy the
assumption of `BatchKeepsLeasesCorrect`.

Every property has a mutant in `PROJECT.json`: a small change of the model, as a
bug would make it, for which the run reports the property as violated. The
operators for them stand before the definitions they replace.

## 5. Fairness

`FairSpec` assumes: the clock goes on; each worker keeps polling and walks through
its batch (`Run` and `processBatch` have no other way to go on); and the expiry
transaction of one order, if attempted again and again, is not refused for ever by
the database (strong fairness per order, for any worker). It assumes nothing of
customers and sellers, does not forbid failing candidates (`SkipCandidate`) and
lets workers restart at any time. The strong fairness is the assumption a reader
should know of: a single order whose expiry fails for ever would violate it, and
`OrdersCanSettle` is the reason to believe that the code itself never refuses.

The `FairSpec` of `Outbox` assumes that time passes, that a publisher goes on with what
it is at (`Run` and `runWorkerLoop` have no exit but cancellation, and a stopped
process is started again: `Connect`), that from some time on channels stay open, and
that statements and publications which are possible again and again succeed in the
end (strong fairness for each event). Until then any of them may fail, be late or
be cut short by a stop, infinitely often: `StatementFails`, `Stop` and
`PublishFails` are never excluded. Fairness for the statements of a publisher that
has lost its claim is not assumed; it is not needed.

The `FairSpec` of `StoreDomains` assumes that a statement that can run again and again
does run (strong fairness per call: a transaction waiting for a row stands in the queue
of its lock, and the row is released again and again), that DNS queries end (they
have a timeout of five seconds) and that the deadlock detector picks a victim.
Aborts and new calls are not assumed and not excluded. `ThemeDrafts` and
`StorefrontCache` state safety only: their calls wait for nothing but row locks.

The `FairSpec` of `OrderLocks` assumes that a connection goes on while it can (`Continue`,
which includes the choice of a deadlock victim: the detector runs for every wait), and
that one waiting for a row that is released again and again gets it: PostgreSQL queues
the waiters of a row (strong fairness of `Lock`). Early returns are neither assumed nor
excluded. One wait is not a place in a queue: a `FOR KEY SHARE` is compatible with those
already granted and is given at once, so checkouts that follow each other on a product can pass
a waiting new slug for ever. Strong fairness would claim too much of it, so
`EveryTransactionEnds` leaves that one case open (`PassedBy`). It does not follow from the
fairness either: without the exemption TLC finds such a behaviour in this instance.

## 6. What is proved

All theorems are for every value of the constants, under the named assumptions of the
modules, which TLC evaluates on every run. Those about orders use `StockAssumption`
(the sets of sessions, listings and tokens are finite, listings and snapshots are named
by numbers because the code orders them, a token is no order line) and
`NumberAssumption` (durations, caps and batches are positive).

| Module | Theorem | Says |
|---|---|---|
| `OrderInventoryProofs` | `TypeCorrect` | `[]TypeOK`: no counter is ever written negative, every row is well formed |
| `OrderInventoryProofs` | `AnswersMatchOrderCorrect`, `NumbersGaplessCorrect`, `HistoryExplainsStatusCorrect` | `[]AnswersMatchOrder`, `[]NumbersGapless`, `[]HistoryExplainsStatus` |
| `OrderInventoryProofs` | `ImplementsLifecycleCorrect` | `OrderInventory` implements `OrderLifecycle` |
| `ReservationProofs` | `ReservationsFollowCorrect` | `[]ReservationsFollowOrder` |
| `ReservationProofs` | `OutcomeIsFinalCorrect` | the action property `OutcomeIsFinal` |
| `ReservationProofs` | `OneOrderPerCartCorrect` | `[]OneOrderPerCart` |
| `ReservationProofs` | `AcceptedCartFrozenCorrect` | the action property `AcceptedCartFrozen` |
| `StockProofs` | `StockCoveredCorrect`, `ReservedIsHeldCorrect` | `[]StockCovered`, `[]ReservedIsHeld` |
| `StockProofs` | `OrdersCanSettleCorrect` | `[]OrdersCanSettle` |
| `StockProofs` | `LedgerExplainsStockCorrect` | `[]LedgerExplainsStock` |
| `OutboxProofs` | `TypeCorrect` | `[]TypeOK`: the rows stand in the order of the claim query, each once |
| `OutboxProofs` | `OverlapOnlyAfterLeaseCorrect`, `ClaimsAreWorkedOnCorrect` | `[]OverlapOnlyAfterLease`, `[]ClaimsAreWorkedOn` |
| `OutboxProofs` | `ForeignClaimsUntouchedCorrect` | the action property `ForeignClaimsUntouched` |
| `OutboxProofs` | `BatchKeepsLeasesCorrect` | `PromptSpec => []BatchKeepsLeases`, if `ConfirmTimeout <= Margin` |
| `OutboxProofs` | `ImplementsDeliveryCorrect` | `Outbox` implements `Delivery` |
| `StoreDomainProofs` | `TypeCorrect`, `PrimaryIsServedCorrect` | `[]TypeOK`, `[]PrimaryIsServed` |
| `StoreDomainProofs` | `DeadlocksNeedDisableCorrect` | `[]DeadlocksNeedDisable` |
| `StoreDomainProofs` | `ModerationHoldsCorrect`, `HostHandedOverCorrect` | the action properties `ModerationHolds`, `HostHandedOver` |
| `ThemeDraftProofs` | `TypeCorrect`, `ConfigsFitThemeCorrect`, `PreviewShowsItsDraftCorrect` | `[]TypeOK`, `[]ConfigsFitTheme`, `[]PreviewShowsItsDraft` |
| `ThemeDraftProofs` | `PublishesValidatedDraftCorrect`, `UpgradesValidatedDraftCorrect`, `LateWritesStayBehindCorrect` | the action properties of these names |
| `StorefrontProofs` | `TypeCorrect`, `ServedIsCurrentCorrect` | `[]TypeOK`, `[]ServedIsCurrent` |
| `StorefrontProofs` | `OnlyLateStoresAreMissedCorrect` | the action property `OnlyLateStoresAreMissed` |
| `OrderLockProofs` | `TypeCorrect`, `OrdersNeverDeadlockCorrect`, `SequenceWaitsForSlugsOnlyCorrect` | `[]TypeOK`, `[]OrdersNeverDeadlock`, `[]SequenceWaitsForSlugsOnly` |

The first part of `OrderInventoryProofs` is the algebra of sums the proofs rest on: a sum over a finite
set is a natural number, adds up over disjoint sets, loses what is taken away,
depends on the summed quantities only, and is not changed by tagging lines with
their session.

The argument. `TypeOK` is inductive by itself: the guards `CanConsume`,
`CanRelease` and `MayAdjust` keep the counters natural. `ReservationsFollowOrder` is
not: a checkout writes reservation rows, and only because no row of its session
exists does it not overwrite any. So it is proved inside

    OrdersInv == TypeOK /\ OrderOfFinalized /\ DecidedCartFilled
                 /\ ReservationsFollowOrder

`OrderOfFinalized` (a session has an order exactly when it is finalised) gives the
empty rows, `DecidedCartFilled` (the cart a checkout decided on keeps its lines
until the commit, since every cart operation waits for the lock) gives the new
order at least one reservation. `CartInv` adds that the cart of an order is checked
out, so no second session of the cart passes the guard, and that rows never written
have no quantity. `StockInv` adds `Placed` (a reservation is on a snapshot),
`StockCovered` and `ReservedIsHeld`: settling an order takes exactly its own
reservations out of the held ones (`HeldAfterSettle`), a checkout adds exactly the
demand of its lines (`HeldAfterFinalize`). `OrdersCanSettle` follows without a
further induction: what an order takes from a snapshot is a sum over a part of the
held reservations, hence at most the counter, hence at most the shelf.

`LedgerExplainsStock` is inductive within `StockInv`, snapshot by snapshot (`Balanced`): what a
confirmation consumes is what its movement says, what a cancellation puts back are the
consumed reservations of an order that was not cancelled before, and a new reservation
row was never consumed. The arguments about the orders themselves need no stock and stand
beside `TypeCorrect`. A step either commits one checkout, or makes one legal move of one order
(`LegalMove`), or leaves orders, numbers and timelines alone: that is the lemma
`OrderSteps`, and `HistoryExplainsStatus` and `ImplementsLifecycle` follow case by case; the
refinement takes the authority of a move from the row that `Transition` appends
(`LastActor`). `NumbersGapless` needs `OrderOfFinalized`: the order a checkout numbers did
not exist, so the orders of its store and the sequence grow by one together.
`AnswersMatchOrder` needs the same, and that a finalised session keeps its fingerprint.

The outbox is proved under `OutboxAssumption` (events are finitely many, `None` and
`Orphan` are no names of others) and `ConfigAssumption`, which is what `config.Load`
checks. The invariant behind the lease theorems is

    LeaseInv == LeaseTypes /\ InHand /\ HeldSinceRenewal /\ ClaimsAreWorkedOn

`HeldSinceRenewal` is the point: while a publisher sends an event, either the row is
still its own and `held` is the age of the claim, or somebody took the row over, and
`held` is beyond the lease. It makes `OverlapOnlyAfterLease` immediate, as only one of
two publishers can own the row. `BatchKeepsLeases` needs to know how much of a lease
is left when a publication starts: after `RenewBatchNearExpiry` no claim of the batch
is older than `Lease - Margin`, hence none older than `Lease - ConfirmTimeout`, and
`Timely` carries that through the publication, `age <= Lease - ConfirmTimeout + held`.
The refinement rests on `DeliveryInv` (a publisher works on committed rows only, what it
holds as stored the broker has) and on lemmas about the order of the rows: inserting
adds the event, removing loses no other. `TypeOK` needs the order itself (`RowInv`, `Ordered`):
a row put where it falls due keeps it, and so does removing one, after which no second row of
the event is left, so the new `wait` of the event moves nobody else. A row that is yet to be written
has never been backed off, so `Enqueue` may put it first. The provers know no algebra of
powers; that the back-off of any number of attempts is at most that of the cap comes from
`2 ^ k` being the number of subsets of `1 .. k` (`BackoffBounded`).

`PrimaryIsServed` is about committed rows, and one commit publishes versions that were
written statements ago. `DomainInv` therefore says the same of the uncommitted versions
and relates the two: a new primary and the committed one it replaces are locked by the
same transaction (`OnePrimary`), and a transaction that has written a primary is about
to commit (`SessionOK`). `Promote` keeps it because of the unique index: whoever is primary in
either version must be locked by the promoting transaction, which has demoted it. The
creation of a store needs `Existing`: custom domains follow the platform domain. Only
`DomainAssumption` is used.

The three other properties of domains are proved inside `DomainInv /\ HandInv`. `Moves` says of each
uncommitted version how it may differ from the committed one, so that a commit, whatever
it publishes, makes only moves that `ModerationHolds` allows. `Handing` says what a call knows
of its rows while it waits: a transaction that took the primary flag from a served domain
(`Took`) cannot commit before its goal is primary, which is `HostHandedOver`. For
`DeadlocksNeedDisable` only activations and promotions are left to consider. A promotion
waits for the holder of the committed primary; no other promotion waits for that one, and an
activation that waits to demote holds its goal alone, which is not primary (`PromoteWaits`).
So all would be waiting to demote. When an activation begins to wait, the rows it waits for are
primary, hence not the goal of another one; in any set of them the one that began last
therefore waits for none (`NoCycle`).

The invariant behind the properties of themes is

    ThemeInv == TypeOK /\ RowsOK /\ \A s \in Session : SessionOK(s)

A call takes no lock between its statements, so `SessionOK` may speak only of what no other
call takes back: an installation stays, it stays with its theme, and the drafts it had
keep their place (`Kept`). What a call has validated is therefore still the draft of the revision it
read, and `PublishConfiguration`, which compares the revision, writes that very draft.
A draft need not fit the version that is installed by now (divergence (b) of section 4),
so `RowsOK` and `ConfigsFitTheme` ask for some version of the theme. `ThemeAssumption`
says that each version accepts its own default configuration, which a test of the
repository checks of the seeded theme (`TestDefaultConfigValidatesAgainstSchema`).

`ServedIsCurrent` needs no knowledge of the selectors, and is proved without opening the
statements of a page: `Labelled` says that a read under the current label of a store
whose output did not change unbumped has parts that are what the statements would
return now. A commit either bumps the store, and the label is behind for good, or changes
its output, and `unseen` is set, or leaves every page as it was, hence every part of one
that is found (`SamePage`).

`OnlyLateStoresAreMissed` does open them. A page of a store is a function of the rows that its
statements compare; going through the tables, `SelectorsComplete` says that a write of a row leaves
the pages of a store alone unless the selector of the write finds the store in the rows
with the write. For a category the selector goes down from the changed one and the tree of a
page goes up from the categories of the products; that both meet is an argument about least
closed sets, which is what `WITH RECURSIVE ... UNION` returns. `Closure` is written that way,
so no induction over paths is needed. `TransactionInv` adds that the write of an open transaction is one the
operations make, with the selector they call (`LegalWrite`), and that the revision of a store
counts no more than the transactions that are done (`Counted`), which is what `TypeOK`
of `StorefrontCache` asks. Its counting needs finitely many writers, and the choice
of the newest listing finitely many listings (`CacheAssumption`, `CatalogAssumption`).

`OrdersNeverDeadlock` is the "lock linearity" that the documents promise
(`src/docs/implementation/phase-05-5-atomic-single-transaction-checkout-report.md`, 19).
The tables have a `Rank`, sessions first and revisions last, that no script goes
against (`TablesAscend`), and snapshots and reservations are ordered by id. `LockInv`
says that only checkouts hold a row together, and only a product (`Exclusive`), that a
transaction has all rows of the statements before one it has a row of
(`InOrder`) and, in a sorted statement, all smaller ones (`Sorted`). So all it holds is
below what it waits for (`HeldBelowWanted`), and around a ring the rows waited for would
descend for ever, unless they are all revisions (`NoOtherCycle`); that there is no
endless descent is the well-foundedness of the natural numbers. Products have no order
among themselves, but a wait for one is between a checkout and a new slug, and a
transaction that waits with a new slug for its product holds nothing yet (`SlugHoldsNothing`). Only `LocksAssumption` is
used, which says that ids are ordered and that an order has its reservations for itself.
`SequenceWaitsForSlugsOnly` follows: in the script after the sequence come the products alone
(`SequenceForm`), another checkout on a product is in nobody's way, and the transaction
that is, having its product, has only revisions to come (`SequenceWaits`).

Every safety property of a passing run, invariant or action property, and both refinements
are theorems. Only model-checked is liveness: `EveryEventPublished`,
`OverdueOrdersSettle`, `EveryCallReturns` and `EveryTransactionEnds`, which hold under fairness and
need ENABLED. That the first-fit allocation is the one a
loop over the sorted candidates computes is a matter of reading.

## 7. What is not modelled

- The inbox (`packages/inbox`): one insert that reports a duplicate. Nothing in this
  repository calls it, so nothing says what a consumer does with the answer.
- Markets, authentication, configuration, money and locale helpers: reference data
  and stateless functions. `config.Load` appears as the assumptions of `Outbox`.
- The HTTP layer: routing, decoding, access checks and the generated description; a
  request calls one operation of a module above. Access enters `StoreDomains` as the
  sets `Seller` and `Admin`.
- Commerce records that no storefront shows yet (suppliers, sellers, inactive products,
  attributes, memberships): single-transaction inserts and updates behind unique
  constraints.
- `SeedBuiltInThemes`, and the installation and asset functions that only tests call.

Inside the modelled parts: prices and listing statuses as checkouts revalidate them
(without locks), the starvation of younger orders behind a batch of orders whose expiry
always fails (`FairSpec` of `OrderInventory` excludes it), order notes and customer rows;
how a revision moves with the stock of orders is in `StorefrontCache`, not in
`OrderInventory`.
