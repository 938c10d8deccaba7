# Verification of udv-shop-api

udv-shop-api is the API of a marketplace of small stores: a Fastify process over
PostgreSQL (through Prisma) that sells products and event seats, takes donations,
runs raffles and pays the stores out through Stripe and Woovi (Pix). Several
instances of it may run at once. All state that matters is in the database; what
makes it hard is that every request, webhook and worker is a sequence of short
transactions and of calls to providers, and that anything may happen between two
of them.

This directory holds TLA+ models of that behaviour, the configurations that check
them with TLC, and proofs checked by TLAPS. Source paths below are relative to
`src/` of the repository copy, so `src/http/...` is the API's own source.

    tlc -workers 2 -config MCCheckoutOneOrder.cfg MCCheckout      # one run
    tlapm CheckoutProofs.tla                                      # one proof module

## 1. Inventory

| Component | State | Operations | What must be true | Module |
|---|---|---|---|---|
| Orders repository (`orders.repository.ts`) | `orders`, `order_items`, `payments`, stock and seats, outbox rows | create, attach, markPaid, cancel, compensate, claim / release / confirm refund, change status | units neither oversold nor lost; the two status columns agree; one signal per captured payment; no way back | `OrdersRepository`, `OrdersTx` |
| Checkout (`checkout.service.ts`) | none of its own | reserve, create the charge, attach it, answer; compensate on failure | a failed or dead request does not keep its units | `Checkout` |
| Payment webhooks (`webhook-processor.ts`, `payment-routing.ts`) | `webhook_events` | store, process by the request and by the recovery worker, mark processed or failed | captured money has a trace; a processed event has had all its effects | `Checkout`, `Donations`, `Billing`, `Onboarding`, `PixKey` |
| Reservation expiry (`expire-reservations.ts`) | none | cancel overdue orders | every reservation ends | `Checkout` |
| Store actions on orders | none | cancel, deliver, refund | a refund that was made is recorded | `Checkout` |
| Outbox relay (`outbox-relay.ts`, `workers/index.ts`) | `outbox_events` | reap, read, claim, re-read, deliver, mark | no row lost, no row closed undelivered, repetitions only after failures | `OutboxRelay` |
| Stripe settlement (`outbox-relay.ts`, `refund-order.controller.ts`, `stripe.gateway.ts`) | `payments.stripe_transfer_id` | transfer the net amount, close the row, reverse, refund | a transfer made is on record; a closed row has paid; a refunded order leaves its money with the store only in known cases | `StripeSettlement` |
| Donations, one-off and monthly | `donations`, `payments` | create, attach, pay, cancel, refund, invoices, end of a subscription, expiry | a gift is booked once, an invoice on one row; what a campaign counts was taken | `Donations`, `Ledger` |
| Raffles | `raffles`, `raffle_entries`, `raffle_prizes` | create, configure, cancel, reopen, grant, draw | windows apart, one grant per donation, a draw is final and can be redone | `Raffles` |
| Events and batches | `events`, `event_batches` | create, edit with its batches, archive, the sale of a seat | a sold seat keeps its batch; batches are numbered without gaps | `Agenda` |
| Interests | `interests`, outbox rows | ask, cancel, convert, notify | only who is really notified is told | `Interests` |
| Sessions | `refresh_tokens` | issue, rotate, revoke a family or a user | tabs that renew together stay logged in | `Sessions` |
| Accounts and guest identity | `users`, `email_tokens` | guest forms, register, Google, reset, verify | a form without a session does not rewrite an account with a credential | `Accounts` |
| Store billing | `store_subscriptions`, `stores.status` | events of the platform's subscriptions, suspension | a late or foreign event neither closes nor reopens a store | `Billing` |
| Stripe onboarding | `stores.stripe_*` | open an account, apply its changes, look at its status | the columns end up those of the store's own account | `Onboarding` |
| Pix key and Woovi subaccounts | `stores.woovi_pix_key*`, verifications | declare, prove, change, withdraw | only a proved key is called verified; money stays in sight | `PixKey` |
| Team | `store_invites`, `user_store_roles` | invite, renew, accept, revoke, change roles | the store keeps its owner | `StoreTeam` |
| Campaigns | `campaigns` | status, archive, gallery and cover, delete | an archived campaign is closed; the cover is in the gallery | `Campaigns` |
| Product categories | `product_categories` | create, rename, reorder, remove, file a product | an order of drawers is stored whole | `Categories` |
| Products and suppliers' agreements | `products`, `suppliers` | create, edit price or agreement, archive, sell | a sale does not owe the supplier more than it brings | `Catalogue` |
| Statement, balances, event results, door list | nothing stored but `supplier_settlements`, `checked_in_at` | sum, settle, check in | the screens agree, but for named differences | `Statement` |
| Cursors (`cursor.ts`) | none | page by page listings | no row twice, none missed; a search holds on every page | `Pages` |
| Stores and domains, gateways, plugins, uploads | various | single-statement edits, HTTP | see section 8 | |

How they interact: the checkout, the webhooks, the expiry worker and the store
share the rows of an order and nothing else, all through the repository; donations
do the same with theirs, and raffles read the donations that were paid. They
speak to the relay by inserting outbox rows in the transaction that causes them.
Providers speak to the API by webhooks, at least once, in any order; the API
speaks to them by calls that may fail after having taken effect. There are no
callbacks and no shared memory but the `running` flag of each worker.

Hard behaviours, all of them listed with their lines under `hazards` in
`PROJECT.json`: concurrent reservations and cancellations of the same rows; late
and repeated confirmations; refunds that overtake their payment; runs that die
between two effects; claims that go stale under a slow owner; two transactions
that lock the same rows in opposite orders; invoices that race for one row; a
draw during a refund; requests of the back office that read a row, decide, and
write it by its id later; events of Stripe out of order; a cursor over a table
that changes.

## 2. How the specifications are put together

1. `OrdersRepository`: the transactions as atomic actions, the abstract
   specification (`RepoSpec`) of everything that touches an order.
2. `Checkout`: the callers, which implement it. `OrdersTx`: the same transactions
   statement by statement, which implement it too.
3. `OutboxRelay`: the queue behind the e-mails and the payouts.
   `StripeSettlement`: transfer, refund and reversal of a card payment, on top of
   the relay's claim.
4. `Ledger`: what is promised about the money of a charge. `Donations` implements
   it (`LedgerKept` is `Ledger!Spec` under a refinement mapping).
5. `Raffles`, which takes its donations from a small part of `Donations`.
6. Thirteen modules of the back office, each around one table and the reads that
   are used after it may have changed. `Statement` extends `OrdersRepository`.
7. Proof modules: `OrdersRepositoryProofs`; `CheckoutProofs` and `OrdersTxProofs`,
   which both show a refinement of the first; `RelayProofs` (relay and settlement),
   `DonationsProofs`, `RafflesProofs`, `IdentityProofs` (accounts, sessions, Pix
   keys), `BackOfficeProofs` (the other parts of the back office).

Every safety property and refinement a run checks is also a theorem. Still worth
doing: the type of `next_number` of a raffle, which is a sum over its donations,
and a theorem about how far a deadlock can spread.

## 3. Modules and the code they stand for

### OrdersRepository
State: `stock` (one counter for a product's stock, an event's seats or a batch's
seats, whichever row the reservation took them from), `order` and `payment` (the
two status columns; `Payment.orderId` is unique, so a payment is named by its
order), `provider`, `attached` (`provider_id` is set), `staleClaim`
(`updated_at` older than fifteen minutes), `cart`, and counts of the outbox rows
written. One action per method that writes; the guard is the `where` of its
update, an update that matches nothing is the absence of a step. `RepoSpec` lets
anybody call anything at any time. Amounts, names and addresses are left out.
`RecordProviderFee` is here because it writes the payment and so bumps
`updated_at`.

### Checkout
Adds the callers. `request` is the position of the checkout request between two
awaits; `job[run][order][event]` the position of a run of `processWebhookEvents`;
`refunding[admin][order]` the position of a refund request. `hook` is the status of the
webhook event, with `sent` for an event the provider still owes. `charge` is the
truth at the provider. Every action that writes the database is the conjunction of
an action of `OrdersRepository` and the caller's own step, so that the module
implements `RepoSpec` by the way it is written; this is a lemma and no result.
`early` is history: the panel of the provider gave back money whose capture the API
had not recorded yet. A success event leaves the run
with three steps (the fee, `markPaid`, the payout row) before its mark. A crash
drops a request or a run; `Throw` is a statement that fails and leads to the catch
block, which marks the event `failed` for good.

External definitions: the buyer, the states of a charge, what the provider does on
a refund. That a charge is given back once at most is the provider's rule (under its
idempotency key a second call returns the first refund), assumed and not shown.

### OrdersTx
A transaction is a kind, an order, a position in its `Script` and, for the item
loop, the items left. `Write` takes the row lock an update takes; `Wants` is the
row its `where` matches in committed data; nothing written is visible before
`Commit`, which applies all of it. `Waits` and `DeadlockVictim` are PostgreSQL's.
Purchases go through their items in order of id (`orders.repository.ts:145`),
cancellations in any order (`restockItems` has no `orderBy`). `Advanced` is where an
entry stands after the statement it has just finished. The refinement is
the identity on the variables of `OrdersRepository`: `RepoSpec` is checked as a
property, so each commit must be one atomic action and everything else must
stutter.

### OutboxRelay
One tick per process (the `running` flag of `workers/index.ts`), several
processes. The tick is cut at each query and at each row. `stale` stands for the
age of `claimed_at`; it is only ever looked at while the row is `processing`.
`effects` counts the times the branch of a row was executed: an email, a
transfer, a withdrawal or the numbers of a raffle. What a branch does is not told
apart here. `slow[e]` counts the claims of row `e` that aged under a tick that was
alive and still had the row to do, at most `MaxSlow` of them in all. Nothing renews
a claim, so a batch of slow calls can outlast it.

### StripeSettlement
Extends `OutboxRelay` for the rows of type `stripe.transfer`: the effect that is one
step there is cut here at its awaits (`stage`: before the read of the payment,
before the call that makes the transfer, before the update that records it). Each
of its steps is a step of the relay or leaves the relay alone, save `KillPayout`,
the refund's `updateMany` on `outbox_events`, and `AdminDies`. `refunding` is where
an admin's request stands: before the claim, the closing of the row, the reversal,
the return of the charge, the release. `knew` is what the request read of
`stripe_transfer_id` at its start, which decides everything it does later.
`transferred`, `reversed`, `unreturned` and `returned` are the truth at Stripe;
`CreateTransfer` is idempotent by its key, as are the reversal and the refund, and
that is assumed. The branch has four ends: paid and recorded, skipped because a
transfer is on record, and the two that close the row without a transfer, `PayoutVoid`
(an invoice of value zero has no charge: `chargeless`) and `PayoutHeld` (the store
has no account yet: `connected`, which `Connect` sets), both expected by
`test/e2e/workers.test.ts:194` and `:220`. `killed`, `held` and `raced` are history: the
rows a refund closed, the rows the relay closed for want of an account, and the
payments of which a payout was `OutOfReach` when a refund closed the rows: on record
or made already, not queued yet, claimed, or in the hand of a tick that is slower
than its claim.

### Donations and Ledger
A row of `donations` is `<<g, 0>>` for the one the request creates and `<<g, i>>` for
the one that invoice `i` of a monthly gift creates; a charge is named alike.
`request` is where `create-donation.service.ts` stands between its awaits, `job`
where a run of `processWebhookEvents` stands (`look`, `claim` and `child` are the
statements of `markSubscriptionInvoicePaid`), `cancelling` where a request to end a
subscription stands. `offer`, `taken` and `repaid` are the truth at the provider.
`told` says what the outbox was told of each charge: a second row about the same
money is `again`, which the ledger does not know. `outrun` is history: invoices
that found the anchor claimed by another. `Ledger` has three actions: money is
taken, announced once, returned. The refinement mapping takes `returned` from the
rows whose payment is `refunded`.

### Raffles
A request is what it reads without a lock (`createCheck`, `putCheck`, `cancelAsk`,
`reopenRead`, `grantRead`), and its commit. The draw claims its row and holds it
until `draw`, so updates of that row wait; entries a cancellation has deleted and
not committed (`Doomed`) make another deletion of them wait, and fail a draw that
names one as a winner. Times are ticks; a null `ends_at` is
`Forever`. `pool` keeps what the draw was made from. `raced` is history and names
the reads that were stale when they were acted on. Each flag compares what the
request had read with what it finds at its commit: `window` (`Unseen`: a raffle that
is in the way now and was not in the rows the check looked at), `status` (the row had
another status when it was read), `price`, `seen` (entries deleted by id lists that
had changed), `grant` and `draw`. A request that decides on fresh rows raises none, so
that each property says which races it survives and fails as soon as a guard goes.

### The back office
| Module | What is cut, and what the history variables excuse |
|---|---|
| `Agenda` | the save of a form: check, transaction of the batches, update of the event; the sale: choice of the offer, reservation |
| `Interests` | `notifyArrival`: the first read, then the guarded update with the rows it writes (the locked rows stay locked to the commit, so that is one step); `noticed` remembers every stamp at which an interest became notified |
| `Billing` | a worker's read of the row, then its write; `overran`: two workers applied events at once |
| `StoreTeam` | read and write of an invitation, `findLive` and `acceptInvite` |
| `PixKey` | `putWooviConnect` at each call to Woovi, the request for a proof, its settlement; `crossed`: a store whose key changed between a read and a write of another request |
| `Sessions` | `rotate` at each statement; `excused`: an answer was lost, or the grace ran out under a request |
| `Campaigns` | each handler's read and write; `stale`: a column written over a value nobody had read |
| `Onboarding` | read of the store, call to Stripe, write of the account; `skewed`: an older state was the last to be written, or the columns are those of an account before |
| `Accounts` | the look-ups by e-mail and by phone, then the write; `raced`: a row that got a credential while a form had it in hand |
| `Catalogue` | check and write of a form; `unmatched`: two forms that missed each other |
| `Categories` | read and write of each request; `arranged` is the last order stored |
| `Pages` | a walk from page to page while rows change; the cursor's comparison and the `orderBy` are apart, as in the code; a condition is the columns of every page (`filters`) and one key `OR` (`OrKey`), the search on the first page and the cursor on the others, as the two spreads leave it |
| `Statement` | the screens are operators over the tables of `OrdersRepository`; `listPayouts` is the tab with its cap (`Listed`), its filter (whichever suppliers are active) and its netted totals, `payoutsOpenCents` the statement's own sum; the fees of the payments, the settlements and the marks at the door are its own state |

`Catalogue`, `Statement` and `Pages` work with small numbers in place of cents: the
rounding of `payouts.helpers.ts`, `provider-fee.ts` and `checkout.service.ts` is kept
as it is written, with floors and halves.

A `Next` mapped to the interface of a repository has one disjunct per method that
writes; its reads appear inside the actions that act on them.

### MC modules
They only give constants their values and name symmetries. `OneProvider` of
`MCOrdersTx` is a state constraint that keeps both orders on one provider.
`MCStatement` is a store of two events, each led by a supplier. `MCGiving` holds
`Donations` and `Raffles`, which share no variable, in the way `MCBackOffice` holds its
parts.
`MCBackOffice` holds the thirteen parts above: they read nothing of each other, so
that their product would only multiply the states; a behaviour is one of a single
part, chosen in the initial state, and the others rest in an initial state of
theirs. Every property is evaluated in every state, and a property of one part
can only fail in that part's behaviours.

Operators named `Faulty_...` are not part of any specification: each is the
definition that follows it with one plausible bug, and `PROJECT.json` pairs it
with the property that notices it.

## 4. Runs

| Run | Question | Bounds, and why they are enough |
|---|---|---|
| `one_order` | do the database and the provider agree about the money, and the stock with both? | 1 order (the actions of different orders meet only in the stock, whose contention `transactions` has), 2 runs and 2 admins (the claims are pairwise), refunds made in the provider's panel, 1 fault, 1 stale claim |
| `liveness` | does everything that must happen happen? | 1 order, 2 runs, 1 fault, no symmetry |
| `transactions` | are the statements as good as the atomic actions, and is a unit sold once? | 2 connections, 2 orders, 2 items: enough for every cycle of length two |
| `outbox` | is the queue at-least-once, nearly once, and live? | 2 processes, 2 rows of the same instant read one at a time (so that the windows differ), 2 attempts, 1 fault, 1 slow tick |
| `settlement` | is the store paid, and what happens to its money on a refund? | 1 payment with its row, with or without a charge, a store with or without an account, 2 processes, 2 attempts, 1 slow tick, 1 admin (two contend for the claim, which `one_order` has), 1 crash or error, 1 stale claim; several rows for one payment, which two runs of one event make, and several admins are left to the proofs |
| `giving` | do donations keep the ledger; do windows, numbers and results hold? | money: 1 gift of any of the three kinds (gifts share no row), 2 invoices (the race is between two), 2 runs, 1 canceller, 1 refund, 1 fault; numbers: 2 raffles, 2 donations, 2 admins (every check is against one other request), 1 relay, 2 requests, 2 instants. A VIEW leaves out what no property of the run reads: whether a delivery is over, when a donation that is no longer paid was paid, and stale prices |
| `back_office` | do thirteen read-then-write parts keep what they promise? | 2 concurrent requests in each part; 1 order of 2 events and 2 suppliers, one of them past the end of the tab, in `Statement`; rows, tokens and edits bounded just above what one race needs: 3 refresh tokens (a row, its replacement, a second one), 3 users, 3 drawers, 3 rows in pages of 1 or 2 with one change between them. `Billing` has one period, so that the branch for a longer one is left to its theorem |
| `raffle_left_out` | violation, see section 6 | the raffles of `giving` with one admin |
| `hidden_balance` | violation, see section 6 | 1 store, 2 keys, 1 charge |
| `payout_forgotten` | violation, see section 6 | 1 row, 1 process, 1 admin, no fault |
| `search_forgotten` | violation, see section 6 | the rows and pages of `back_office` |
| `tab_differs` | violation, see section 6 | the store of `back_office`, with both suppliers on the tab, so that the cap explains nothing |

What they show: `StockConserved` and `SignalledOnce` are the promises of the
repository. `ProcessedIsComplete` is the promise ADR-012 makes about captured money.
`RecordedIsReal` and `RefundLands` are those of the refund claim: `RefundLands` says
that of the refunds whose event was processed only those are lost that the panel
made before the capture was recorded. `RepeatsAreCounted`, `DeliveredWhenProcessed`
and `EveryRowCloses` are those of the relay; a claim that ages under its tick costs a
row at most `MaxAttempts` repetitions, since the slow tick writes the count it had read
over the counts of the others. `MadeIsRecorded` and `ProcessedMeansPaid` are the
store's side of ADR-029: no crash, lost answer or failed update loses sight of money
that has moved, and a row is not closed before it has paid, but for an invoice
without a charge and a store without an account. `KeptOnlyIfRaced` says when a refund
fails to stop or undo a payout: the reversal failed, or a payout was out of its reach.
`CountedIsHeld` is what a campaign's progress bar says, `ProcessedIsBooked` what the
mark `processed` means for a gift. `WindowsDisjoint`, `NumbersOnce`, `Auditable` and
`DrawStands` are the decisions of the raffles' design. Each property of `back_office`
quotes the comment of the code it takes at its word.

`ScreensAgree` is an identity between screens that nobody computes: sales and
payouts agree to the cent, the net to half a cent per line, once the refunds being
asked for are added to the statement and the money captured for cancelled orders
is taken from it; and the total of the payouts tab is the open debt of the statement
less the debts to suppliers past the end of the tab and the credits of those on it.
It is how the differing filters of the screens were found. `ListedOnce` says that a
searched list loses none of the rows it should show; that its further pages also
show others is `search_forgotten`.

Deadlock is checked in `transactions`, `outbox` and `settlement`; in the others the
system may really stop, with every order delivered, cancelled or refunded and
every bound used up.

The type invariants (`RepoTypeOK`, `CheckoutTypeOK`, `RelayTypeOK`, `DonationsTypeOK`,
...) are in no run; those of the modules with a proof are proved there, the
donations' for the variables their argument reads.

## 5. Fairness

`Fairness` of `Checkout`: a request or run that has not died takes its next step
(JavaScript promises settle: every gateway call has an outcome); the provider
repeats an event until it is answered; some run picks an event still `received`
(the worker of `workers/index.ts:46`, every 15 s); time passes; the expiry worker
wakes (every 60 s). Nobody has to pay, deliver or ask for a refund, and faults are
bounded. `FairRelaySpec`: `setInterval` fires again, every call ends, time passes.
Weak fairness is enough everywhere: nothing disables these steps for ever but
their own effect. `CaptureRecorded` and `RefundRecorded` allow the outcome
`failed`, because the code gives up on an event after one error. The other
modules state no fairness: what they promise is safety.

## 6. Where the code and its words part

Found by a run:

1. `raffle_left_out` / `NobodyLeftOut`: `raffles.repository.ts:60` names a backfill
   by the PUT of a raffle's configuration; the PUT does none. A donation delivered
   while no raffle covered its date, and covered by the edited window, never gets
   its numbers.
2. `hidden_balance` / `NothingLeftBehind`: `put-woovi-connect.controller.ts:59` empties
   the old subaccount before a change of key, so that no money is hidden. A charge
   that was open at the change is paid into the old subaccount after it, and the
   withdrawal names the new one.
3. `payout_forgotten` / `PayoutNotForgotten`: the refund controller closes the payout
   row, Stripe refuses the refund, the claim is released and the row stays
   `processed`: the order is paid and the store never is. Reopening the row where
   the claim is released would mend it.

4. `search_forgotten` / `SearchHolds`: `test/e2e/products-discovery.test.ts:8` wants filter,
   search and order to work together. Search and cursor are both the key `OR` of one
   condition (`products.repository.ts:120`, `:132`, `:151`), and the later spread wins: from
   the second page on the list is no longer searched. The list of a store's
   interests (`interests.repository.ts:139`) is built the same way: there the `OR` that is
   replaced is the one that names the store.
5. `tab_differs` / `MatchesTheTab`: `docs/ARCHITECTURE.md:298` and `reports.schema.ts:22` want
   `payoutsOpenCents` to close with the payouts tab. The tab nets credits
   (`list-payouts.controller.ts:44`, and `payouts.test.ts:233` expects a negative total), the
   statement drops them.

Seen while modelling; the models have these behaviours, and the properties are
worded so as to hold beside them:

- A refund event processed before the success event of its charge is marked
  processed without effect, and the payment then becomes `succeeded`, although the
  comment at `orders.repository.ts:384` says provider-initiated refunds are covered.
- `markPaid` (payment, then order) and a cancellation (order, then payment) of one
  order can deadlock; if PostgreSQL aborts `markPaid`, its event is `failed` and
  nothing reprocesses it. `docs/DECISIONS.md:199` says a late payment is always
  recognised. `DeadlockNeedsCancellation` says this is the only kind of deadlock.
- The claim of a batch of 50 rows is never renewed, so a tick of more than five
  minutes shares its rows with another instance (`docs/ARCHITECTURE.md:661`).
- `docs/INTEGRATIONS.md:139` says a refund that precedes the payout closes its row. A
  row the relay has claimed is not closed, and a transfer recorded after the
  controller's read is not reversed; nor is one made by a tick whose claim was
  reaped under it, although its row was closed. Beside a failed reversal these are
  all the ways (`KeptOnlyIfRaced`, proved with any number of slow ticks).
- The statement sums money captured late for cancelled orders (`reports.repository.ts:79`
  looks at the payment only), which `payouts.helpers.ts:4` keeps out of the balances.
- `list-payouts` stops at 200 suppliers by name, and the total of the statement does
  not: a second way for the two totals of item 5 to differ.
- `prisma/schema.prisma:285` says one open invitation per store and e-mail; no index
  holds it, and two requests make two.
- A second Stripe account attached to a store leaves the capability columns of the
  first until the next event.
- A refresh under way when its family is revoked mints a token that survives the
  logout.
- A failed `createPlainCharge` leaves a verification without a QR code, handed out
  again for an hour.
- Deactivating a supplier makes every later edit of its products fail.
- Two products created at once may take one slug: the second gets the exception
  that `lib/slug.ts:20` wants to spare it.

## 7. Proofs

All are for any sets of orders, items, gifts, runs, admins, rows, ticks, keys and
people and any bounds, from the named assumptions on the constants only.

- `OrdersRepositoryProofs`. Type correctness needs no strengthening.
  `OrderMatchesPayment` is inductive with the types: the guard of each update
  names the state of one column and the invariant gives the other.
  `SignalledOnce` is inductive with both. `StockConserved` counts the set of held
  units: a reservation adds exactly the pairs of its cart and a cancellation
  removes them (`UnitsOfOneOrder`, `HeldUnitsFinite`, with the theorems on finite
  cardinalities); it needs `OrderMatchesPayment` for the step that no other
  status change enters or leaves the set. `NoWayBack` follows step by step.
- `OrdersTxProofs`. `TransactionsImplementRepository` is the refinement: a statement
  that is not the commit changes no table, and a commit is one `RepoStep` or, when
  a guard matched nothing, one that the repository may leave out. `TxInv` carries
  what makes it true: no row is locked twice (`Exclusive`), and each transaction
  knows something of the rows it holds, by its kind and its statement (`CreateOK`,
  `CancelOK`, `ClaimedOK`): a purchase that the units it took are still there, a
  cancellation past its claim that the order is still pending. `Quiet(u)` says what
  a step of somebody else must leave alone for that to stand; one lemma shows that
  it suffices and one per statement and commit that the step is quiet. Hence the
  invariants of the repository hold between the statements
  (`TransactionsKeepInvariants`). `DeadlocksNeedCancellations` is for cycles of any
  length: in a circle without a cancellation, take the purchase that waits for the
  least item; somebody waits for it in turn, hence for an item it took before, which
  is smaller still. A confirmation or a refund that waits has its payment only,
  and nobody waits for a payment while holding an order.
- `CheckoutProofs`. Each step of a caller is a `RepoStep` or leaves the tables alone, so
  the four invariants carry over (`CheckoutKeepsRepositoryInvariants`). The others
  need invariants of their own: `RequestInv` (a charge exists only for an order that
  exists and is opened once) and `TraceInv`, which says for each stage of a run what it
  has already made durable. `ProcessedIsComplete` is not inductive without knowing that
  a run about to mark an event has settled the payment and queued the payout; with
  it, `RecordedIsReal` follows. `RefundLands` is proved with refunds outside the API
  allowed: `LandingInv` says that a refund under way belongs to a payment already
  recorded, that a charge given back does so too unless the panel was early, and that
  a run about to mark the event has found its payment.
- `RelayProofs`, with any number of slow ticks. `CoreInv` has the types and what the loops
  of the ticks keep whatever closes the rows. `ClaimInv` says who holds a row at each
  phase of a tick, for the rows none of whose claims aged under a tick; for the others
  nobody may. `Account` balances the effects of a row: each is an attempt written on
  it, a fault, one not yet reported by the tick that took it, or one of the counts that a
  slow tick may yet write over (`Hides`), `MaxAttempts` for each aged claim; the balance is
  kept by exchanging elements of finite sets (`Exchange`), one lemma per kind of step.
  For the settlement, `CoreInv` survives `KillPayout`, since it touches pending rows only;
  this is why it is kept apart from the account, which does not. `PayoutInv` ties the
  stage of a tick to the transfer and its record: a tick that has made a transfer, or
  any tick after it, still has a row to record it. `KeptOnlyIfRaced` needs `RefundInv`: a
  charge about to be returned is `Covered`, that is reversed, logged, raced, or `Shut`:
  not transferred, all its rows closed and none of them in a tick's hand. `Shut` is
  stable because a tick takes a row in hand only if it is pending.
- `DonationsProofs`. `DonationsImplementLedger` is the refinement: each step of the
  request, the donor, the provider, the webhooks or a cancellation is one step of
  `Ledger` or stutters. It needs `DonationsInv`, whose core is `ToldIsBooked`: the
  rows themselves say what was announced, a single gift by its payment, an invoice
  by the row it is booked on. `FirstComesFirst` is the strengthening for monthly
  gifts: an anchor that still waits has no invoice beside it, so that the claim of
  the anchor and the creation of a child cannot announce one invoice twice, and
  storing the invoice on the anchor changes nothing already given back.
  `JobKnows` carries what a run has made durable from step to step, which gives
  `ProcessedIsBooked`; `CountedIsHeld` follows from the rows.
- `RafflesProofs`. The four properties of the raffles. `SeenIsFree` carries the windows:
  what a request is about to write collides with no row it has read, so that without
  a row it has not seen it collides with none. Two locks carry the rest: a
  raffle whose draw is running is open and drawn by one request
  (`DrawsHoldTheirRow`), and entries deleted by an uncommitted cancellation are
  there, of its raffle and no one else's (`DeletionsHoldTheirEntries`). A lemma per
  transaction says what it leaves in the rows (`CreateEffect` to `DrawEffect`), and
  each property looks at the one row that changed. `OnceEach` strengthens
  `NumbersOnce` with `NobodyBeforePaying`: a donation just paid has no entries. The
  sum over donations in `next` is left arbitrary here, since none of these
  properties reads it; the type invariant of the module, which does, is not proved.
- `IdentityProofs`. Pix keys: the argument follows the owner. A key is stored with
  its owner, a proof copies both, a verdict compares the payer with the copy. Each
  copy can be stale only at a store in `crossed` (`OwnerGoesWithKey`,
  `VerdictIsEarned`). Accounts: a form about to write holds a row that was light when it
  was read (`LightInHand`), so a credential it meets came later. Sessions: a token
  just minted is unseen by the other tabs (`PendingUnseen`), a replaced one is about
  to be answered (`ReplacedIsAnswered`), and what replaces a held one is recent while
  nothing is lost or late (`HeldIsRecent`), so the grace covers every race.
- `BackOfficeProofs`. `Billing`: the reason a store is suspended for is one of the
  two the code writes (`Reasoned`), so that `Follow` never turns one into the other;
  `OnlyItsOwnSuspends` follows step by step from what a worker read. `StoreTeam`:
  `OwnerStands` is inductive once nobody who is being invited, holds an open
  invitation or is accepting one is the owner (`OwnerNotInvited`). `Campaigns`:
  `ReadWell` says what each request that is about to write has seen: a change of
  status starts from an unfinished campaign, an archive from a finished one, a
  cover from a gallery that has it. `Interests`: a notified interest carries a stamp
  at which it was noticed (`StampedWhenNoticed`).

  `Onboarding`: the newest state of the store's own account is in the columns, or
  its event is still in the mailbox, or an older one was the last written
  (`NewestArrives`), and what travels is what the account once was
  (`TravelsFaithfully`). `Categories`: an order that is asked for is a sequence
  without repetition of drawers that exist or are gone (`OrderOfDrawers`), so that
  writing its numbers arranges whatever is left. `Agenda`: the batches are numbered
  from 0 without repetition (`Numbered`); a form that commits writes the rows it did
  not know and then its own, and the foreign key keeps the rows somebody sits in.
  `Pages`: what was shown lies before the cursor and what is owed was shown or lies
  after it (`ShownUpTo`); a page is the beginning of what is left, because a row has
  more rows before it than those before it have (`RankGrows`); what is owed matches the
  search, so that the condition of a further page, which has the search no longer,
  still finds it. `Catalogue`: price and
  agreement in force fit unless two edits missed each other, and so does what a
  sale froze (`SaleFits`); the fee of several units exceeds the fees of each by less
  than a cent per further unit. `Statement`: a paid order has captured money
  (`OrderMatchesPayment`), so that the orders of the statement, once the two excepted
  kinds are added and taken away, are those of the balances and the events
  (`SoldIsCaptured`); each total is then a table of orders and lines, or of lines and
  suppliers, summed by rows on one screen and by columns on the other
  (`SumsExchange`), the tab and the statement split over the suppliers listed and the
  others (`TabOfPayouts`), and the shares of one order, each rounded, miss its fees by half
  a cent per line (`SharesAddUp`).

  These sums are `SumFunction` of the community modules, a recursion over finite
  sets. The section "Numbers and sums" derives what is needed of them without an
  induction theorem that takes an operator: `LeastNat` gives a least counterexample,
  `AddingReachesAll` says that a set of sets which has the empty one and is closed
  under adding one element has them all, and `SumRule` to `SumsExchange` follow.

Assumed of the constants: the ids of drawers, batches, items, sales, suppliers and
orders are finite sets (a database has finitely many rows), quantities and prices
are natural numbers, rates are at most 10000 basis points.

Only model-checked: the liveness properties (`ReservationResolved`,
`CaptureRecorded`, `RefundRecorded`, `EveryRowCloses`), since fairness is out of the
provers' reach, and the five violations of section 6, which are counterexamples.

## 8. Not modelled

Amounts and currencies outside `Catalogue` and `Statement`, messages, HTTP status
codes, authentication of requests and signatures of webhooks. The limits of 50
events and 200 orders per worker tick: a row not read by one tick is read by a
later one. The cap of 500 people of one notification: the next call takes the
rest. One setting of PostgreSQL is assumed: READ COMMITTED, which Prisma does not
change, with deadlock detection.

Stores and domains: a name, a text or a domain is written by one statement of one
administrator. Gateways are HTTP clients; what a provider does on a call is in the
modules that call it. An edit of a product's stock writes an absolute number over
what was sold meanwhile; nothing in the code promises otherwise, so there is no
property to check. Plugins, configuration, uploads, exports, e-mails and the
suggestions written by the AI gateway keep no state of their own.
