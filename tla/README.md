# Formal model of the rental bot

TLA+ modules, model-checked with TLC and proved about with TLAPS, for the part
of `src/backend/app` where mistakes cost a buyer or the seller an account.  Five
systems are modelled, each a composition of its own:

1. the **rental core** (`RentalSystem`): a sale from its FunPay callback to the
   logout that ends it;
2. the **account pipeline** (`AccountPipeline`): queue, workers, device login and
   operator, which together decide whether an account may be sold;
3. the **routes** (`HomeRelay` over `ProxyRoutes`): over which proxy a login goes
   and what proves it;
4. the **sales** (`SalesSystem`): how a sale whose events come late, twice or never
   is found, reconciled and confirmed to the buyer;
5. the **storefront** (`Storefront`): the lots, the offers published for them and
   the capacity that opens and closes them.

## 1. Inventory

### Actors and state

| Part | Code | State it keeps | Operations |
|---|---|---|---|
| Fulfilment and delivery | `services/rental_service.py`, `delivery_policy.py` | `Rental` and its `credentials_delivery_*` columns | allocate, claim a delivery, reallocate, send, retry, hand to the operator |
| Sales and refunds | `services/order_processor.py` | `Order.status`, the revoke claim | new sale, close, refund: claim, logout, finalise |
| Expiry | `services/rental_expiry.py` | `Rental.status`, `expires_at`, `expiry_notified_at`, the revoke claim | claim, logout, finalise, release reservations, tell the buyer |
| Buyer commands | `services/command_handlers.py` | OTP claims in `AuditLog`, `replacement_*` columns | `!code`, `!replace`, read-only commands |
| Account pool | `services/account_pool.py`, `account_occupancy.py` | none; reads `Account`, `Rental`, `AccountCheckJob`, limits | pick and lock an account |
| Logout | `services/kick_service.py` | an advisory lock per account | log all sessions of an account out in a browser |
| Checks | `check_job_queue.py`, `refresh_worker.py`, `services/account_validation.py` | `AccountCheckJob`, `Account.status`, tokens, limits | enqueue, start, finish, rerun, requeue, recover |
| Operator | `api/routers/accounts.py`, `AppLifecycle.retry_rental_delivery` | `Account.operator_status_override` | suspend, recheck, new credentials, retry a delivery |
| Lifecycle | `app_lifecycle.py`, `scheduler.py`, `services/funpay_lifecycle.py` | gateway, listener, locks, intervals | sweeps, FunPay callbacks, reconfiguration, capacity reconciliation |
| Order notifications | `services/order_notifications.py` | `Order.confirmation_delivery_*` | retried confirmation message |
| Sale registry | `services/sale_registry.py`, `order_provenance.py` | `FunPaySale`, `FunPaySaleCandidate`, `FunPaySaleSyncState` | read the head page, bootstrap, recover missed sales, reconcile, follow a rotated chat |
| Lots | `services/lot_auto_manager.py`, `lot_sync.py`, `api/routers/lots.py`, `prices.py`, `catalog.py`, `templates.py` | `Lot`, and the offers on FunPay | publish, recover, pause, activate, delete, re-save |
| Capacity loop, transport | `app_lifecycle.py` | gateway, dirty flag, loop task, the funpay lock | request, reconcile, reconfigure, disconnect |
| Routes | `services/proxy_routes.py`, `api/routers/proxy_routes.py` | `ProxyRoute`, `HomeRelaySetup`, the default route, `authorized_keys` | edit, probe, select, pair and delete the home relay |
| Device login | `services/account_device_auth.py` | sessions in memory, a job per session | start, poll, expire, fail |
| Mailbox OAuth | `services/email_oauth.py` | consent states | one-shot login flow |
| The rest | messages, chat, catalogue, templates, bump, Telegram, API, frontend, ops | | CRUD, rendering, I/O |

### How they interact

Every operation is asynchronous and opens several transactions.  FunPay
callbacks (`on_new_sale`, `on_sale_closed`, `on_sale_refunded`, `on_message`),
scheduler tasks and HTTP requests all work on the same rows, from several server
processes (`docs/deployment.md`).  Inside a transaction they lock in the order
Order, Rental, Account.  No row lock is held during a logout (a browser, up to
240 s); what protects it is a *lease*, the timestamp
`Rental.expiry_revoke_started_at`, shared by refund, expiry, replacement and the
expiry message and stale after five minutes.  A delivery has a lease of its own
(`credentials_delivery_started_at`).  A message send, unlike a logout, happens
under the row locks.

### What is hard

* four operations share one lease, and each must survive losing it;
* an account is reserved by `!replace` before the old one is logged out, and
  two database constraints cover rented and reserved accounts separately;
* the outcome of a send or a logout may be unknown, and the process may die
  after it took place;
* FunPay's word on a sale arrives by callback and by request, late and twice;
* a check logs in to an account and so ends its buyer's session;
* every operation can stop between two transactions, and a sweep has to finish it;
* sessions keep the rows they have loaded (`expire_on_commit=False`): locking a row
  again does not reload it, and a commit writes the columns that differ from what
  the session remembers, so a decision may rest on a row of minutes ago;
* a call to FunPay and the commit that records it fail separately, in either order;
* memory (device sessions, the dirty flag, what has been bootstrapped) and the
  database part ways at a restart.

`PROJECT.json` lists these hazards at their lines, each with the properties that
would catch it going wrong.

### What makes each part correct

* delivery: one account per sale, the same account after an unknown send, paid
  time starts with the first send, every delivery ends;
* refunds: final once recorded, every revocation ends;
* expiry: never before a send, logged out before the buyer is told, every overdue
  rental gives its account back;
* commands: nothing is disclosed without a rental, a replacement moves only after
  the logout and within its limit, the reserved account stays good;
* pool and checks: one order per account, no check under a buyer;
* account pipeline: one login at a time, a suspension wins over every verdict,
  nothing waits for a check nobody will make, only proven accounts are sold;
* routes: a route is offered only if it was reached through the transport it has
  now; an account for sale was checked over that very route; a key has its row;
* sales: no sale is missed, a refund is heard and stays, the buyer is told once and
  only of a completed order;
* storefront: nothing is on sale that the bot cannot pause or attribute, what the
  operator paused stays off, FunPay shows the row's price, stock follows capacity.

## 2. Modules

| Module | Models | |
|---|---|---|
| `RentalRows` | rows, their predicates, lease, logout, operations in flight | constants, variables, type invariant |
| `RentalService` | `rental_service.py`, operator retry, sweep close | 13 actions |
| `OrderProcessor` | `order_processor.py`, and FunPay as its environment | 8 actions |
| `RentalExpiry` | `rental_expiry.py`, and time | 8 actions |
| `CommandHandlers` | `!code` and `!replace` | 13 actions |
| `AccountChecks` | queue, worker, operator | 7 actions |
| `RentalSystem` | their composition, crashes, safety properties | extends the five above |
| `RentalLiveness` | fairness and liveness properties | extends `RentalSystem` |
| `AccountCustody` | abstract specification: what is promised of an account | refined by `RentalSystem` |
| `AccountJobs` | `check_job_queue.py`, the check sweeps, the operator's account endpoints | 13 actions |
| `ValidationWorker` | `refresh_worker.py`, `account_validation.py`, `account_limits.py` | 10 actions; extends `AccountJobs` |
| `DeviceAuth` | `account_device_auth.py` | 8 actions; extends `AccountJobs` |
| `AccountPipeline` | the three above, start-up recovery and shutdown, fairness, properties | |
| `ProxyRoutes` | `services/proxy_routes.py`, `api/routers/proxy_routes.py`, the login that uses a route | 13 actions |
| `HomeRelay` | pairing, enrollment and deletion of the home relay; composition, properties | extends `ProxyRoutes` |
| `OrderNotifications` | `order_notifications.py` and its sweep | |
| `SaleRegistry` | `sale_registry.py` | extends `OrderNotifications` |
| `SalesSystem` | FunPay, the event callbacks, chat rotation; composition, properties | extends `SaleRegistry` |
| `LotSync` | rows, offers, what each gateway call does, `_find_lot` | state and operators |
| `LotAutoManager` | the stages of a reconciler pass and the operator's operations, as (call, row) pairs | extends `LotSync` |
| `CapacityLoop` | dirty flag, loop, transport | extends `LotAutoManager` |
| `Storefront` | jobs under the funpay lock, routes outside it, restarts; properties | extends `CapacityLoop` |
| `MC...` | what TLC is started with; symmetry where it is used | |
| `RentalTypes_proofs`, `RentalExclusive_proofs`, `RentalTerms_proofs`, `RentalCustody_proofs` | theorems about `RentalSystem` | each extends the one before |
| `Sales_proofs` | theorems about `SalesSystem` | |
| `AccountPipeline_proofs` | theorems about `AccountPipeline` | |
| `Routes_proofs` | theorems about `HomeRelay` | |
| `Storefront_proofs` | theorems about `Storefront` | |

**An action is a transaction.**  The code takes its row locks, checks, writes,
commits; the action's guard is those checks, its primed variables those writes.
An operation of several transactions is a record `task[w]`: the stage it has
reached (`at`), its order, the account and reservation it remembers, the attempt
number, the outcome of its logout and, for a validator, the account status its
session has read.  `deliver -> (moved) -> boundary` are the three lock sections
of `_deliver_claimed`; `refund -> refund_kicked`, `expire -> expire_kicked` and
`replace -> replace_kicked` are claim, logout and finalisation; `check ->
checked` is the validator and the live check of the sale in `!replace`.

**A lease is a pair.**  `claim[o]` is the operation whose timestamp the rental
holds, `claimLive[o]` whether it is younger than five minutes.  `LeaseExpires`
may hit an operation that still runs (it counts as a fault, as the logout's
240 s are meant to stay below the lease); what that operation does on its return
is exactly the code's ownership test.

**Time** is three values of the distance to `expires_at`: more than two minutes
(`open`, the headroom `!replace` and every later delivery ask for), less
(`closing`), `over`.

**Accounts.**  `active`, `maintenance`, `validation_failed` and
`pending_validation` are the code's; `suspended` is an account with
`operator_status_override`, which every reader treats as unavailable and only a
recheck lifts.  Limits, subscription, tier and route are not represented: that they
allow an account is a choice made at each look (`Allocatable`, and a fault in
`DeliverManual` and `Reallocate`).

**History variables.**  `access[a]` holds the orders that may have been shown the
secrets of `a` since it was last logged out, `told[o]` that the terminal message
was accepted.  `overruled` holds the accounts of which a late write, one made with no
lock and no second look, undid a refund or a replacement under way (section 3).  No
guard reads them.

### The account pipeline

`job[a]` is the newest `AccountCheckJob` of an account (there is at most one active
one); its `holders` are the workers, or the device manager, whose session has loaded
that very row, so that what a late worker writes to an older row is lost on the
older row.  `worker[w].row` is the `Account` as the worker loaded it.  `Written` is
the write of a SQLAlchemy session: the column changes only if the new value differs
from the remembered one.  `live` is the lease of a running job; `Stall` lets a worker
outlive it (20 minutes in the code), which then works beside its successor.  The
history variables `proven` and `readers` say whether some login succeeded with the
credentials and route stored *now*, and who has worked with those.  Rental and
return are reduced to `busy`.  `AccountChecks` remains the coarser view of the same
code that the rental core is composed with.

### Routes

`config_revision` only answers whether a snapshot is still current, so a probe or a
login in flight carries that answer (`same`) and, as history, the fact behind it
(`truly`: nothing about the transport has changed).  `proven` says that the
transport the route has now was reached.  Fresh and online are one flag, since every
reader asks for both; an account's status is `active` or not.  The home relay couples
a row with a line in `authorized_keys`: `pairing` is a setup or enrollment that has
changed the file and not committed, `undoing` a compensation, `deleting` the three
steps of a deletion.

### Sales

One sale, its `Order`, its `FunPaySale` and what the syncs and callbacks in flight
remember of them.  A callback that reads before it writes (`new`, `message`) has a
place of its own (`handler`); closes and refunds are one step, as they lock and write
in one transaction.  A handler that is cut off is an event lost.  The exact sync an
operator asks for differs from the periodic one only in finding a sale that left the
head page (`buried`).  `call[c]` is a call of `notify_confirmed`: it holds the `Order`
row across its send.

### Storefront

One lot the reconciler keeps (`AutoLot`) and one published by hand (`ManualLot`).  Wording
and price are *editions*; edition 0 is a template that does not render.  A job under
the funpay lock goes through stages; each loads a row and decides, calls FunPay,
commits, and can fail or be cut off at any of the three.  The routes outside the lock
carry the row their session has loaded (`seen`).  A retried barrier and a call that
fails with its commit are one failure.  Capacity changes in two ways: with a request
for a pass (`CapacityChanges`: sales, refunds, checks) and with none (`CapacityDrifts`:
`_task_limits_check` queues checks that take their accounts out of the capacity query,
measurements, route health and the subscription lapse, a commit is the last thing a
process does).  FunPay's list is taken as current, except
that a creation's answer may be lost.

## 3. Runs

| Run | Instance | Shows | States |
|---|---|---|---|
| `one_order` | 1 order, 2 accounts, 2 workers, 1 fault | types, custody, no expiry before a send, told after the logout, a refund wins over an expiry, and only a late close takes one back | 1 165 000 |
| `two_orders` | 2 orders, 2 accounts, 2 workers, one `!replace` per order in flight | one order per account; refinement of `AccountCustody` | 376 000 |
| `checks` | 1 order, 2 accounts, both checked, 2 replacements | no check under a buyer, a reserved account stays good unless a late verdict condemns it | 933 000 |
| `liveness` | 1 order, 2 accounts, 1 worker, 1 fault, no symmetry | refunds, overdue rentals, deliveries and messages end | 73 000 |
| `late_close` | 1 order, 1 account | **violated**: a refund is taken back | |
| `late_notice` | 1 order, 1 account | **violated**: the expiry message after a refund | |
| `late_validator` | 2 orders, 1 account | **violated**: an account sold under a running validator | |
| `account_jobs` | 1 account, 2 workers, device login, 1 recovery attempt, 1 stalled worker | suspension wins, one login at a time, what is unproven or waiting has a check due, hand confirmation is about current credentials, a spent token is recovered or given up | 146 000 |
| `late_rerun` | 1 account, no stalled worker | **violated**: an account sold with credentials nobody tried | |
| `routes` | 2 routes (one the home relay), 1 account, 1 probe in flight | only proven routes are offered, only accounts certified over their route are sold, no key without a row | 690 000 |
| `sales` | 1 sale, 2 chats, 2 callers, 1 attempt, 1 fault | told once and only while completed, refunds stick and are heard, missed sales are found, confirmations settle | 123 000 |
| `storefront` | 2 lots, 3 changes, 1 mishap, 2 requests | nothing unknown or unattributable on sale, paused stays off, price shown, capacity followed, but for changes nobody announced | 2 148 000 |

Bounds, and why they are enough to be interesting:

* `MaxAttempts = 2`: a first send, a retry, and an exhausted budget (6 in the code);
* `MaxReplacements = 1`: one replacement, and one refused (`replacement_count`); in
  `one_order` two commands of one rental run at once and meet at the count.  `checks`
  allows two, so that a late verdict meets the next reservation;
* two accounts: the one left and the one reserved; two orders compete for both;
* two workers: every pair of operations interleaves, and each can lose its lease
  to the other;
* `MaxFaults`: crashes, failed or unknown sends and logouts, unfit accounts,
  operations slower than their lease.  `one_order` was also checked with two in one
  behaviour (4.4 million states, too long to keep as a run): an operation loses its
  lease and its logout, or a retry dies again;
* `CheckedAccounts`: sweeps and the operator may touch any account, which multiplies
  every state by the accounts' statuses; `checks` therefore runs without faults,
  and the other runs without checks of their own choosing (the recovery after a
  logout is there in all of them);
* `SaleEnds` is what FunPay may do: `two_orders` leaves refunds to `one_order`, `checks`
  the late close;
* `OneReplacement`, the constraint of `two_orders`, leaves concurrent `!replace`
  commands of one rental to `one_order` and `checks`; those of two rentals meet.
  Without it the run has 1.6 million states and passes too;
* `account_jobs`: a single account suffices because nothing but the queue's order
  relates two (`NextInLine`).  Two workers at once on it need a second process or a
  lease that ran out; `MaxRecoveries = 1` gives one attempt and an exhausted budget.
  The invariants were also checked, with `MaxStalls = 0`, for two accounts (2.5 million
  states, too long to keep as a run);
* `routes`: `MaxProbes = 1` leaves the sweep's probe racing every edit, selection and
  pairing, and a second one only by starting after; with 2 the state space is several
  million and was only explored in part, without a violation.  A pairing or deletion
  begins only when no compensation and no unrepaired mishap is about (`Calm`);
* `sales`: one fault is one lost or repeated event, failed page, send of unknown
  outcome, rotated chat or sale pushed off the head page.  The safety properties were
  also checked with two (1.6 million states);
* `storefront`: two requests, so that an unlocked one meets a locked one; three
  changes, so that capacity goes, returns and goes while a pass runs; one failure or
  restart anywhere.

`CHECK_DEADLOCK FALSE` is set in the runs of the rental core and of the sales because
these systems do stop: a refunded sale whose account was recovered needs nothing
more.  Symmetry (orders, accounts, workers) is used in safety runs only.

### What the properties except, and why

A property with an exception says what the code guarantees; each exception was
added after TLC had shown the behaviour, and each is needed.

* `stalls = 0` (`OneLoginAtATime`, `UnprovenIsDue`, `WaitingIsDue`): a worker that
  outlived its lease works beside its successor and writes its verdict over it.
* `WaitingIsDue`, `RecoveryTried`: recoveries that are spent end without a verdict;
  only the operator queues the next check.  On the way the attempts are reset
  whenever the login works and the measurement after it fails, so the number of
  automatic logins is unbounded, where
  `docs/superpowers/specs/2026-07-11-funpay-chatgpt-rental-bot-design.md:97` plans to
  give up after `refresh_max_attempts`.
* `WaitingIsDue` also accepts a rerun that is only requested: an edit under a limit
  check whose session does not see the request leaves the account in
  `pending_validation` without a job, as in `late_rerun`.
* `mishaps` (`OnlineIsProven`, `KeyHasRoute`): after a pairing was cut off between
  file and row, the row is right again at the next probe; an enrollment between the
  two transactions of a deletion leaves a key without a row for good.
* `RefundSticks`: a sync that read the row while it was pending may write over a
  refund recorded since; `RefundIsHeard` shows that it is then found again.
* `OutOfSight`: a sale past the head page of a seller whose history was read is seen
  by no periodic sync.
* `Stuck` (`RefundIsHeard`, `ConfirmationSettles`): `_rebind_buyer_chat` selects the
  sales before the orders (`sale_registry.py:1703`).  A sale promoted in between
  leaves order and sale in different chats; in a process started since,
  `bootstrap_from_orders` (line 221) then fails to find the sale, inserts a second
  row with the same unique `funpay_order_id`, and every sync of every sale fails
  until somebody repairs the row.  Without the exception `RefundIsHeard` is violated.
* `unrecorded`: a call FunPay accepted whose commit was lost.  The reconciler binds a
  new lot before it activates it; the operator's publication activates first
  (`lots.py:98`), so its offer may be on sale unbound.
* `crossed`: an unbound lot is paused or deleted without the lock (`lots.py:152`) and
  the write crosses a publication of the same lot, which the comment at
  `lot_auto_manager.py:191` rules out.
* `forgotten` (`StockAgreesAtRest`): a request served by no loop.  The operator's
  activation of the automatic lot looks at no capacity (`lots.py:140`); a route's own
  pass that fails is not tried again; the dirty flag does not survive a restart; and
  one lot that fails aborts a whole pass (`lot_auto_manager.py:247`, `:392`).  The next
  scheduled pass, ten minutes later, makes up for each.
* `lapsed` (`StockAgreesAtRest`): a change of capacity without a request.  It stands until
  some pass, of the loop, a route or the scheduler, comes to the stage of the automatic
  lot; a lapse during a pass may come after its decision and stands until the next one.
  The full-validation task asks for a pass (`app_lifecycle.py:750`); the limit task
  (`app_lifecycle.py:681-714`) does not.

### Late writes

Two operations of the rental core write what they decided on rows read long before,
with no lock and no second look.  Neither is switched off anywhere: the theorems cover
both, `one_order` and `liveness` have both, `two_orders` and `checks` (whose sale is never
confirmed) the second.  Where such a write undoes a refund or a replacement that is
under way, it adds the account to `overruled`, and the properties except those accounts
and nothing else.

* `SweepClose`: the pending-orders sweep asks FunPay, delivers, and writes `completed`
  if FunPay had said so (`app_lifecycle.py:1081-1094`).  `RefundIsFinal` fails
  (`late_close`), contrary to the comment at `order_processor.py:133-135`;
  `RefundsStand` says that this write is the only one that does it.  Written over a
  refund during its logout, it lets a claimed `!code` through once more: the exception
  of `Custody` and `ToldAfterLogout`.  `RefundEnds` excepts a refund it has hidden,
  which its retry sweep looks for no more.
* `ReplaceDeclined`, `ReplaceChecked`: `!replace` starts its validator without a lock
  or a published job (`command_handlers.py:1376`), so the account can be sold under it
  (`late_validator`), contrary to `account_pool.py:144-146`, and several may run for
  one rental.  A late verdict `active` reopens `!code` on an account some order is just
  leaving, `validation_failed` takes one out of the pool that an order has reserved
  (`Undone`): the exceptions of `Custody`, `ToldAfterLogout`, `KeepsCustody` and
  `ReservationKept`.  A late verdict on any other account is no exception to anything.

`KeepsCustody` refines `AccountCustody`, where an account in `lost` still has one renter
at a time and shows its secrets to him only; what the promise drops is the logout
between two of them.

`late_rerun`: `_enqueue_requested_rerun` locks the account and reads the flag from the
instance its session loaded before the check (`refresh_worker.py:263`), so an edit
made during the check is overlooked; the comments at `refresh_worker.py:273-275` and
`accounts.py:1211` say it is not.

`late_notice`: the refund may be recorded between the claim of
the expiry message and its send (`rental_expiry.py:400-401` says it may not).

### Fairness

`RentalLiveness` assumes what the scheduler does: an operation in flight takes its
next step (asyncio, and time-outs on every external call), every sweep runs again
on every row that is due (`_register_tasks`; `expire_overdue` 30 s, `refund_revoke`
60 s, `pending_order_retry` 30 s), time passes.  The sweeps get strong fairness, as
the slots of `Workers` are a bound of the model: in the code another operation
does not occupy the sweep.  A refund is retried where the code retries it: when
the order is `refund_pending`, or when the pending-orders sweep asks FunPay about
it anyway.  Nothing is assumed of buyers, the operator, callbacks or FunPay's
decisions, and nothing says that a call to the outside succeeds: only that failures
are at most `MaxFaults`.  `DeliveryEnds` counts the end of the rental as an end: a
process that dies in the last allowed send leaves a delivery in `sending` that
only the operator or the end of the term resolves.

`AccountPipeline!Fairness`: the recovery sweep and the workers run again and again
(`_task_refresh_recover`, the drain loop), a check and a rental end, a device login
that nobody finishes expires.  Strong, because another check, a rental or the
operator may disable each for a while; the fair claim of a recovery job says that
the operator does not supersede it every single time.

`SalesSystem!Fairness`: the sync, the notification sweep and the refund sweep are
scheduled tasks (weak fairness: each is enabled until it has run); time passes only
between syncs, hence strong fairness of `TimePasses`.  Events, the operator's exact
sync and FunPay's decisions have no fairness.

`Storefront` states its liveness as safety at rest (`StockAgreesAtRest`): whenever the
loop and the routes have nothing left to do, stock agrees with capacity, unless the last
change of capacity asked for no pass.  That needs no fairness and finds the same lost
wake-ups.

## 4. Theorems

Each holds for any sets of orders, accounts and workers and any bounds.  What is
assumed of the constants are the named ASSUMEs of the modules: the bounds are natural
numbers, the sets of workers and nodes are what they are used as (finite; not empty),
and the markers `NoAccount`, `NoOrder`, `Nothing`, `Device` are not members of the
sets they are told apart from.  No theorem has a hypothesis of its own.

### The rental core

* `TypeCorrect` (`RentalTypes_proofs`): `Spec => []TypeOK`.  `TypeOK` is inductive
  as it stands because `Tasks` says that an operation with a reservation names an
  account, and `RentalTypes` that a rental does; without the two `ReplaceSwitch`
  could not be typed.  One step per action, with one lemma per group of rows an
  action leaves alone.
* `OneOrderPerAccount`, `NoCheckOfKeptAccount` (`RentalExclusive_proofs`):
  `Exclusive` and `NoCheckUnderBuyer` are inductive together with `TypeOK`.  An
  order comes to keep an account in `FulfillNew`, `Reallocate` and `ReplaceClaim`
  only, each guarded by `Allocatable`; `ReplaceSwitch` keeps it through a
  reservation it had.  A job starts only on an account that is not `Busy`.
* `UnsentNeverExpires` (`RentalTerms_proofs`): `NoExpiryBeforeSend` from the
  invariant that an operation at the boundary has counted its attempt and that a
  delivery counted as sent has been attempted (`Counted`, `SentCounted`); without
  them a `sent` status could come with no attempt, and the overdue test would let
  the rental end.
* `RefundWins` (`RentalTerms_proofs`): `Spec => []RefundBeforeExpiry`, strengthened by
  `OrderKnown` (a rental has an order).  Every step is shown to be one of a few kinds
  in terms of the two statuses (`EndOf`).  The theorem is also why the model has no
  action for `rental_expiry.py:402-412`, which marks the terminal message of a
  refunded order as handled: the refund of an ended rental renames its status in
  the same transaction (`order_processor.py:216-217`), and no expired rental is left.
* `RefundStays` (`RentalTerms_proofs`): `Spec => RefundsStand`.  One lemma per module
  shows that its steps keep every refund or are `SweepClose`; the run `late_close` shows
  that the exception is needed.
* `ReservationStays` (`RentalCustody_proofs`): `Spec => []ReservationKept`.  Inductive
  with `Exclusive`, `NoCheckUnderBuyer` and two facts about the row (`IRowsWith`,
  `IReserve`): whoever could take the account out of the pool either respects `Busy` or
  is the verdict of a validator, which adds it to `overruled`.
* `CustodyHeld` (`RentalCustody_proofs`): `Spec => []Custody`.  `Custody` alone is far from inductive.  `ICustody` adds what
  an operation in flight may rely on: a refund in its logout is recorded
  (`RefundRecorded`), an expiry that has claimed finds the rental closed
  (`ExpiryClosed`), an account that was logged out is shown nobody its secrets until
  the rental ends or moves (`LoggedOutStays`, `ReplacementStays`), and an account that
  `Reallocate` may leave has been shown to nobody (`UnsentUnknown`).
* `ToldIsLoggedOut`: the same, with `NoticeEnded` and `ToldEnded`, gives
  `[]ToldAfterLogout`.
* `RefinesCustody`: `Spec => KeepsCustody`, the refinement of `AccountCustody` step by
  step: `FulfillNew`, `Reallocate` and `ReplaceSwitch` are `Rent`, the end of a refund
  or expiry is `GiveBack`, sends and `!code` are `Show`, logouts are `LogOut`, every
  other step stutters.

### The sales (`Sales_proofs`)

`SalesTypes`, `ConfirmedOnce` (`ToldOnce`), `ConfirmedWhileCompleted`
(`ToldWhileCompleted`) and `RefundsStick` (`RefundSticks`), of `Spec`.  The invariant
is `ITypes /\ ISends`.  `ITypes` says more than types: a sale without an order has a
candidate or will get one, a sync holds the order it has made (`SyncRemembers`), a
promotion presupposes the state its first phase left.  `ISends` is about a send under
the row lock: the order is completed and unsent as long as a call is in it
(`Sending`), there is one such call (`OneSender`), and the accepted messages are tied
to the sent marker and the lost answers (`ToldCount`).  Steps fall into those of
`OrderNotifications`, those that leave calls alone and move the order forward only
(`QuietStep`), and the restart.

### The account pipeline (`AccountPipeline_proofs`)

`JobsTyped` (`JobsTypeOK`, with the budget of a recovery), `SuspensionHolds`,
`EvidenceIsCurrent`, `LoginsAreAlone`, `UnprovenNotForgotten` and
`WaitingNotForgotten`, of `Spec`.  Every step but a restart is about one account
(`Local`), so the invariant is stated account by account (`IAccount`) and a step has
to keep it for its own account only; one lemma per action says first what the action
does to the rows (`...Effect`), then that it keeps the invariant (`...Keeps`).

* `Counted`: a worker beyond the one that has the lease has cost a stall
  (`Overdue`), and the attempts counted plus those under way stay within
  `MaxRecoveries + stalls` (`Spent`).  The attempt is counted at the end of the login,
  so the bound needs the number of workers at it.
* `Fits`: only the device manager holds a device job, and a login in memory whose row
  is the newest has it active and leased.
* `InTime`, claimed only while `stalls = 0`: the worker holds its job, alone (`Held`).
  What it remembers of the row is current or the row says it is not (`Remembers`): it
  remembers `active` if the row is active, it has seen the present credentials unless
  a rerun is requested.  `DeviceRemembers` is the same of a poll.  `Unproven`
  strengthens `UnprovenIsDue`: not a queued check keeps the account from being
  forgotten, which may be a limit check, but the request in the row.  `Waiting`
  strengthens `WaitingIsDue` in the same way: the job that is due is no limit check,
  which would end without a verdict, and one that is not due any more has an expired
  token (`Recovering`).

### The routes (`Routes_proofs`)

`RoutesTyped`, `OnlyProvenOffered` (`OnlineIsProven`), `ActiveCertified`
(`ActiveIsCertified`) and `KeyShown` (`KeyHasRoute`), of `Spec`; the run has one probe
in flight, the theorems any number.  The invariant adds to the types:

* `ILogins`: a login that would find its selection unchanged went over the transport
  the route has.  The only action that changes a transport without a new revision is
  `EnrollInstalls`, and `IToken` says why nobody is deceived: while a token is live or
  an enrollment is under way nobody uses the relay, it is offline, it has no session,
  and every login over it was overtaken by the revision that went with the token.
* `IProbes`: for every route but the home relay, and for that one when it is settled,
  online means proven (`Shown`) and a probe that would be published saw the transport
  as it is (`Sees`); during a deletion nothing in flight can bring the relay back
  (`Silent`).
* `IKey`: whoever is at work on the relay has its row; a compensation has it to
  itself; once the deletion has revoked the key there is none and no session, unless
  an enrollment came in between (`Tracked`).

The fourteen steps of `ProxyRoutes` are shown to be of one kind (`RouteStep`); each
step of the relay upholds what the mishaps it adds do not suspend (`Upholds`).

### The shop (`Storefront_proofs`)

`StoreTyped`, `SaleIsBound` (`OnSaleIsBound`), `HeldStaysOff` (`HeldIsOff`),
`SaleIsAttributed` (`SoldIsAttributed`), `PriceStaysPublished` (`PriceIsPublished`),
`ChangeHasLoop` (`RequestHasLoop`) and `StockAtRest` (`StockAgreesAtRest`), of `Spec`: the
run has three changes, one mishap and two requests, the theorems any number of each.  Offers and rows disagree between a call
and its commit, so the invariant (`IInv`, of nine parts) is about the work in hand:

* `IWork`: the work fits itself (`WorkFits`: only the operator puts a held or an
  unbound lot on sale, only a save binds a row or changes its wording), it matches its
  row up to what routes wrote over the status (`Matches`), and the row in memory is
  what FunPay had before the call (`Unsent`) or has since (`Sent`).
* `IOn`, `IPrice`, `IMark`: an offer on sale is named by an active row or is in the
  hands of a work that will say so; an unmarked one was published by a release without
  markers, nobody listens, and whoever connects still has it on his list (`Waits`).
* `IRows`, `IBound`, `IReqs`, `ICount`: a bound offer is its lot's own; a request that
  has read an unbound row finds no legacy offer there, as only a save binds a row and a
  save marks it; the number of offers is accounted for by lots and mishaps.

What a stage decides is proved once (`StageFits`, `RequestFits`: `Begun`), what a call
does to the offers once (`SavedEffect`, `AdjustedEffect`), and what a commit of changed
attributes leaves in a row once (`RowWritten`).

`StockAtRest` needs, on top of `IInv`, an invariant of what is still to come (`IStock`;
TLC checked it for up to five changes, two mishaps and two requests before the proof):

* `JStock`: the row of the automatic lot agrees with the capacity now and after the
  work in hand, or a pass is sure to come that will see to it.  Such a pass (`PassDue`)
  is the loop's, which is dirty, at work before the matrix stage of the lot, or owed a
  loop; or it is a route's, due or not yet at that stage.  Whoever abandons one sets
  `forgotten` or `dirty`.  A change without a request counts as a pass that is due
  (`lapsed`), and `JSeen` says who may clear that: a pass that looked, at once, or the
  scheduler's at its end, as nothing repeats that one when it fails.
* `JSync`: the offer of an active row is on sale, or the loop is sure to save it.
* `JOrphan`, `JTodo`: the orphan stage precedes the matrix stage, no other work of the
  lot lies between them, and past it the row is not active without a matrix: the
  matrix stage then has nothing to take down.
* `JWork`, `JReqs`, `JLoop`: no stage but the matrix makes the automatic lot active,
  nor does a request that has read an unbound row, and the pass under the lock is the
  loop's only while the loop runs.

A job that begins a step skips those with nothing to do (`LoadsStock`), so each proof
about it says first which steps are left (`BehindIs`, `BehindOrder`, `PassOrder`).

### What is only model-checked

The liveness properties: fairness and ENABLED are beyond the prover.  Every invariant
and every action property a passing run checks is a theorem.  There are no recursive
operators.

## 5. Not modelled

Contents of messages, limits and ranking, the choice between several rentals of
one chat, OTP claims per TOTP window and mailbox codes, the advisory lock and
deduplication inside `KickService`.  The exchange with OpenAI, the browser and
FunPay's pages: their outcome is a choice wherever it matters.  The rental core
assumes a verified sale, no model relates several sales, and the pipeline's view of
rentals (`busy`) is not refined by the core's.  Of the registry: buyer profiles,
merging of conversations, enrichment of rows without a chat (none is left after
migration 0018), retention of old candidates.  Of the lots: placeholders, field
mapping, several automatic lots, several seller accounts.  The mailbox OAuth flow is
a row consumed once under its lock.  The remaining components `PROJECT.json` lists
as `not_modelled`, with their reasons, are rendering, CRUD, I/O or deployment.

## 6. Plan

1. Done: the rental core; the account pipeline, routes, sales and storefront.
2. Done: proofs of the safety of the rental core, with its refinement; of the sales;
   of the account pipeline; of the routes; of the storefront.
3. Proofs: properties as the runs gain them.
4. `OtpDelivery`: the OTP claim per TOTP window and mailbox code; at most one
   delivery per window when the outcome of a send is unknown.  `EmailOAuth`.
