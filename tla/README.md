# Halkyemek in TLA+: checkout, money, files and messages

Halkyemek sells prepaid meals. A customer tops up a wallet, fills a cart or
reserves a surprise deal, and checks out into a session that holds stock for
ten minutes and shows a QR code; the cashier of the business scans it, which
consumes the session: an order is created, the wallet debited, the held stock
sold, and the business has an earning that is paid out later. The backend is a
Django application on PostgreSQL, with Celery for the jobs, a cache for its
locks, and payment, payout, push and mail services outside.

This directory holds TLA+ modules translated from that code, the TLC
configurations that check them on small instances, and proofs, checked by
TLAPS, of what holds for every instance.

    tlc -config base.cfg MCCheckout        any run: its .cfg and its MC module
    tlapm CheckoutProofs.tla               any *Proofs module

`PROJECT.json` maps every definition to the source lines it translates, and
lists the runs, the hazards with the properties aimed at them, the theorems,
and one mutation per property: a bug put into the model on purpose that the
property must catch. Definitions commented "Fault" or "Mutant" are those
mutations; no action uses them.

## 1. Inventory

### Components

| Component | State | Operations | What makes it correct | Module |
|---|---|---|---|---|
| Cart (`orders/services_cart.py`) | `Cart`, `CartItem` | add, update, remove, clear, view; restore of an expired checkout | a cart given back is one its customer can use; one ACTIVE cart each, by a constraint | `Checkout` |
| Checkout sessions (`orders/services_checkout.py`) | `CheckoutSession` | create, reuse, cancel, consume, lazy expiry on GETs | a session ends once and stays ended; an order is paid once, at the frozen price | `Checkout` |
| Menu quotas (`orders/services_quota.py`, `menus/serializers.py`) | `MenuItemQuota`, `CheckoutQuotaReservation` | reserve, release, commit; edit by the business | each unit is for sale, reserved or sold | `Checkout`, `StockPromise` |
| Cleanup job (`cleanup_checkout_sessions`) | the rows it selected | select, expire and release | every overdue session ends and its stock returns | `Checkout` |
| Pricing (`orders/services_pricing.py`) | none | breakdown of a cart | the payable amount is frozen with the session | `Checkout` |
| Surprise deals (`surprise_deals/`) | `SurpriseDeal`, `SurpriseDealReservation` | publish, PATCH, close, reserve, cancel, consume, expire | one pack per customer; packs conserved; a returned pack is on sale again | `SurpriseDeals`, `StockPromise` |
| Wallet ledger (`wallets/services.py`) | `Wallet`, `LedgerEntry` | purchase, refund, top-up, settle, reverse, restrict | no money appears or vanishes; never negative | `TopUps` |
| Top-ups (`payments/services.py`, `payments/views.py`, `payments/services_reversals.py`) | intents, provider events, reversals | start, webhook, callback, confirm by hand, reverse, resolve a review | credited once, settled once, taken back once and no more than was paid, in any order of delivery | `TopUps`, `TopUpPromise` |
| Settlement imports (`payments/services_ingestion.py`, `payments/services_settlement.py`, two commands) | inbox, imports, records | upload, import, retry, reprocess | an applied import is complete; one row settles an intent | `Settlements` |
| Payouts (`payouts/services.py`) | earnings, batches, items, adjustments | collect, dispatch in two calls, recover, sync, confirm, refund | an earning is in one transfer; books balance | `Payouts` |
| Idempotency (`idempotency/`), job locks (`common/locks.py`) | records; a lease in the cache | begin, complete, fail; acquire, refresh, lapse | a key's action commits once | `Onboarding` |
| Onboarding (`businesses/services/ops_onboarding.py`, `payments/providers/iyzico_marketplace.py`) | the business's row, the provider's account | submit, reconcile, decide | approval means an active account | `Onboarding` |
| Members (`businesses/api/views_ops.py`) | memberships | upsert, deactivate | a business keeps an owner or manager | `Members` |
| Notifications (`notifications/`) | notes, attempts, devices, queue, send locks | enqueue, send, retry, broadcast | taken once; the status tells the truth; everybody is reached | `Notifications` |
| Menus and discovery, accounts, logs, health, runtime validation, frontend | configuration and read models | forms, listings, permissions | guards without state of their own | section 6 |

### How they interact

Everything shares one database. A view opens a transaction, locks rows with
`select_for_update`, calls the services of other apps in the same transaction
and commits. Checkout calls pricing, quota (or surprise deals), the wallet and,
after commit, notifications; consuming a session makes an earning, with which
payouts begin. Webhooks, callbacks and settlement rows all end in the same few
wallet operations. The jobs run the same services from Celery. Calls to the
outside (the payout service, the onboarding provider, push and mail) lie
between two transactions, or, in onboarding, inside one that keeps the row
locked. The business edits its menu and its deals through serializers that take
no lock, so their read and their write are steps of their own.

The modules meet at interfaces that are kept small: `Checkout` sees a wallet as
a balance and a flag that reversals may flip; `TopUps` sees orders as purchases
and refunds of any amount the balance allows; `Settlements` sees a top-up as paid
for or settled, with a wallet that may refuse; `Payouts` begins with an order
that was sold. Each side allows at least what the other does.

### What is hard

* A session is ended by five pieces of code that lock differently, and the GET
  path writes in up to three transactions without any lock.
* Quotas, deals and members are written from rows that were read without a lock.
* A payment's events come from a browser, two webhooks, files and operators:
  late, twice, and in every order.
* A payout is sent by two calls between three transactions; a process may die
  at each, and what the bank did is then known to nobody.
* A file is imported row by row, without a transaction around it, possibly
  twice, beside a job and operators who process the same records.
* Locks in the cache run out under those who hold them.
* A batch that fails as a whole selects the same rows in its next run.

The hazards, each at its line, are in `PROJECT.json`; those no property covers
say why.

## 2. Modules

| Module | What it is |
|---|---|
| `StockPromise` | abstract: what any checkout promises about limited stock |
| `Checkout` | carts, cart sessions, quotas, the cleanup job, the debit |
| `SurpriseDeals` | deals, their reservations and sessions, their jobs |
| `TopUpPromise` | abstract: what the payment code promises about a top-up |
| `TopUps` | payment intents, events, reversals, reviews, and the wallet's two pools |
| `Settlements` | settlement files, imports, records and the retry job |
| `Payouts` | earnings, payouts, refunds carried over, dispatch and the bank |
| `Onboarding` | job lock, idempotency record and the submission of a business |
| `Members` | membership changes of a business by several admins |
| `Notifications` | attempts, senders, locks, retries, devices, broadcasts |
| `*Proofs` | theorems about the module of that name; those about `Members` are in `OnboardingProofs` |
| `SumTheorems` | what sums over finite sets obey, for the proofs about quantities and money |
| `MC*` | small instances for TLC |

### How state and actions correspond to the code

**One transaction is one action**, whose guard is the conjunction of the checks
the handler makes and whose primed variables are the rows it saves. That is
justified where the handler's first query locks the row that all contenders
lock; where the code reads before it locks, does not lock, or talks to another
system, the handler is split into the steps that others can come between:

| Code | Actions |
|---|---|
| `POST /checkout-sessions/` | `LoadCart` (the first transaction, which opens the cart) → `PriceCheckout` (checks, under the cart's lock) → `ReuseSession` or `OpenSession` (quotas locked and reserved) or `RefuseCheckout` |
| `_expire_if_needed` on GETs | `ReadSession` → `ExpireSession` or `FindNotDue` → `ExpireQuota` (`ExpirePack`) or its failure → `ExpireCart` |
| `cleanup_checkout_sessions` | `CleanupSelect` → `CleanupApply` or `CleanupFails`, one transaction for the batch |
| `expire_surprise_deal_reservations` | `ExpireSelect` → `ExpireOne` for each id, or `ExpireFails`, which ends the run |
| `_sync_quota` (menu PATCH); deal PATCH and close | `ReadQuota` → `WriteQuota`; `ReadDeal` → `ValidatePatch` → `SavePatch` or `RefusePatch`; `CheckClose` → `CloseDeal` |
| webhooks, callbacks, confirmations, reversals, reviews | one action each: they lock the intent and the wallet (`ProviderWebhook`, `IyzicoWebhook`, `FinalizeTopup`, `OpsManualTopupConfirm`, `OpsTopupReversal`, `ResolveReview`) |
| `execute_settlement_import` | `InboxTakes`, `Upload`, `RetryImport`, `ExecuteAgain` start it; then `RecordRow`, `ProcessRow` for each row, `FailImport` or `CompleteImport`, `EndRun`; `ImportDies` between any two |
| `reprocess_unmatched_settlement_records` | `JobStarts` (the list) → `JobProcesses`, `JobBooks` for each record; `JobDies` |
| `dispatch_due_payouts` | `ListStale` → `RecoverStale`; `Claim` → `Authorise` (what the service does, if it gets that far) → `Answer` → `SaveSent`, or `SaveFailed` → `ListItems` → `ReleaseItems`; → `SyncBatch`; `Die` anywhere |
| submission of a business | `Acquire` → `Enter` → `Begin` → the calls (`UpdateAnswered`, `CreateDuplicate`, `LookupFinds`, …) → `Commit` → `Complete` or `Raise`; `Die` |
| a delivery task | `TakeTask` (lock and first transaction) → the provider's answer → `RecordSent`, `RecordFailed`; `AnswerIsLost`, `SenderDies`, `LockExpires` |
| a membership change | `CheckUpsert` → `WriteUpsert`, `CheckDeactivation` → `WriteDeactivation` |

What a thread or job holds in memory between two transactions is state of its
own (`req`, `job`, `run`, `sender`, `admin`): the price it read, the row it will
write back, the answer it got. It may be stale, and much of the project is about
what happens then. When a process dies that memory goes and its committed rows
stay.

Tables are functions from ids to rows; status `"NONE"` is a row not inserted.
Time is kept only where the code compares two times that matter: `clock` in
`Checkout` and `SurpriseDeals` is the last session whose deadline passed (all
last ten minutes, so they pass in the order of their ids). Elsewhere a wait, a
hold or a lock may end at any moment the code allows.

`bank`, `statement` (`Payouts`), `acct` (`Onboarding`), `accepted` and `doubted`
(`Notifications`) belong to the world outside: what the other system really did.
The properties compare it with what the tables say.

### Taken for granted about the database and the platform

* PostgreSQL at READ COMMITTED: `select_for_update` waits and then sees the
  committed row, an exception rolls back the whole transaction.
* Cycles of lock waits, which PostgreSQL ends by failing one transaction, are
  not modelled: the failed one leaves nothing, like a refusal.
* The job lock of a periodic job is exclusive in `Checkout`, `SurpriseDeals` and
  `Settlements`; that it may lapse is in `Onboarding` and `Payouts`, where the
  code talks to others while it holds it.
* No session is ever CONFIRMED: the status is declared and accepted by several
  filters, and no code sets it.
* One business in `Checkout` and `Payouts`. The refusal of a second business's
  items in a cart is left out; batches are made per business.

## 3. Runs

States are distinct states found. Every run is complete for its constants.

| Run | Question | States |
|---|---|---|
| `base` | Does checkout keep its books under every interleaving of two customers, two requests, the job, passing deadlines and one process that dies, with one unit to sell? | 179,574 |
| `edits` | Do price changes, unlisting, wallet restrictions and quota edits in mid-checkout change what is paid or what an order sells? | 234,975 |
| `live` | Does every overdue session end, and its quota return? | 3,668 |
| `deals` | Do surprise deals keep their books with two customers, two packs, a PATCH, a close, a restriction and a crash? | 446,782 |
| `topups` | Is money credited, settled and taken back once, whatever the order of events, when the mock webhook names a bank transfer that an operator confirms by hand too? | 304,704 |
| `settlements` | Is an applied file complete, and does one row settle an intent, with two files, retries, deaths, the retry job and an operator? | 234,617 |
| `payouts` | Is an earning ever in two transfers, or the bank asked for more than was earned, with two workers, a death and refunds at every point? | 406,922 |
| `onboarding` | Do lost locks, retries and lost answers approve a business wrongly, or run a key's action twice? | 512,468 |
| `notify` | Is a message taken twice, a status wrong, a recipient forgotten? | 253,838 |

### What they check

Checkout and deals:

* `QuotaConserved`, `StockConserved`: the counters of a quota or a deal agree
  with the reservation rows and the orders. They are what the locking protects,
  and what a double release, a missed commit or a stale check would break.
* `LiveHoldsItsQuota`, `LiveHoldsItsPack`: whatever can still be consumed has
  its stock. Consume looks only for the existence of quota rows, so it sells
  correctly only if no path releases before it ends the session.
* `OrdersSellTheirQuota`: stock is COMMITTED exactly for sessions with an order.
  It survives the stale EXPIRED written over CONSUMED (below), because orders
  and reservations are guarded separately.
* `WalletPaysEachOrderOnce`: the balance falls by the frozen amount of each
  order and by nothing else.
* `StrandedByDeaths`: EXPIRED is committed before the quota is given back, and
  no path takes up an ended session; yet, until the business edits a quota, only
  a process that dies between the two leaves quota behind, that of one session
  at most: not two requests that expire one session, nor a cleanup, a cancel or
  a restored cart in between.
* `NeverRevived`: an ended session never becomes live again.
* `OnePackPerCustomer`, `UnsoldIsOnSale`: the rules of deals, over all their
  paths. The first excludes overdue reservations, as the code does.
* `KeepsStockPromise`: `Checkout` and `SurpriseDeals` each implement
  `StockPromise`, under the refinement mapping next to the property.
* `Consistent`: the inductive invariant of the proofs, as an invariant of `base`.
* `DeadlinesAreEnforced`, `ExpiredQuotaReturns`: liveness, section 4.

Money:

* `MoneyConserved`: pending, available, spent and taken back add up to what was
  paid in, although the pending pool is shared by all top-ups of a customer.
* `RestrictedWhileUnderReview`: a wallet is restricted exactly while a reversal
  that it could not cover is under review.
* `RowsSettleOnce` (`TopUps`) and `SettledByOneRow` (`Settlements`): one row
  settles an intent; `AppliedIsComplete`: an import called APPLIED has made every
  row of its file a record of its own, however often it died.
* `KeepsTopUpPromise`: `TopUps` implements `TopUpPromise`. The provider's payment
  is credited once and settled once, a credit by hand comes once, nothing is
  settled beside it, and no more than one payment is taken back. That an
  intent is credited by one of the two ways only is not promised: `v_both`.
* `NeverPaidTwice`: an earning is in one transfer that may still be paid, and
  one that is owed is in none. `PaidByTheBank`: what the tables call paid was.
* `DispatchedIsFrozen`: from its claim on, no refund or batch changes a payout.
* `SentIsEarned`: what the bank was asked to pay (the amounts it was told, not
  the rows), with what was deducted, is never more than what the earnings in it
  are worth now with the refunds carried over for them. Payouts the books have
  given up while the bank still pays, and that a refund shrank since, are set
  apart by name (`ShrunkUnawares`); that they exist is `v_shrunk`. That it is
  not less either, `BooksBalance`, is what `v_twice` refutes.

Onboarding and notifications:

* `ApprovedIsActive`: dispatch trusts `APPROVED` and the key; they mean an
  active account. `ApprovalIsTheProviders`: approval is lost only after the
  provider put the account into another state or refused the data.
* `OneRunPerKey`: a key's action commits once, and COMPLETED means it did.
* `TakenOnce`: the provider takes a message once, but for answers nobody
  recorded. `StatusIsTrue`: a notification is SENT iff an attempt was, and
  FAILED when all were given up, whichever sender ends last.
* `BroadcastReaches`: a broadcast that began makes a note for everybody, although
  workers die; left out are those whose row failed, which both broadcasts log
  and pass over (`notifications/services.py:857`, `:1086`), and, of a system
  broadcast, who has no device left. Nobody tries those again.
* `RetriesEnd`, `AttemptsEnd`, `BroadcastReaches`: liveness, section 4.

Every module also has a `TypeOK`; where a range is not evident (a balance never
negative, attempts never above their maximum, a counter never above the total)
it is a property of the code, and its mutation is a bug of that kind.

### Bounds

| Constant | Bounds | Why the value is enough |
|---|---|---|
| `MaxSessions` = 2, `MaxCarts` = 1 or 2 | rows | one session racing with itself needs one, reuse against creation and two owners of the last unit need two; two carts where an old one is given back while a new one is ACTIVE |
| `Workers` = 1 or 2 | requests, or runs of the dispatch job | each race in the hazards list is between two of them, or one and a single-transaction step |
| `Stock` = 1 or 2, `Funds`, `MaxQuantity` = 1 | units, balance | 1 makes two sessions compete, 2 lets both be held; 5 pays one session and not two, 6 and 8 pay two; quantities only scale sums |
| `MaxEdits`, `MaxQuotaEdits`, `QuotaPatches`, `MaxPatches`, `MaxCloses`, `MaxToggles`, `MaxCrashes` | what others change, what dies | one of each may land between any two steps |
| `CleanupLimit`, `ExpireLimit`, `Limit` | the jobs' `--limit` | less than, or equal to, all that is due |
| `Intents`, `Events`, `Records`, `OpsKeys` (`TopUps`) | one customer, payments of 2 and 1, a bank transfer; a webhook of each kind of each provider; two rows for one intent | amounts that differ let one top-up's reversal eat another's pending money |
| `Files`, `Records`, `RowsOf`, `RowMarks` (`Settlements`) | two files that share a row; both rows name one intent | drift between imports; a row that matches before the payment and one that only does after it |
| `RightAmount`, `RightKey`, `BadRow` (`Settlements`) | all rows right, none unreadable | the verdicts of a wrong amount, a wrong key, two intents for one row and a bad row end a record or an import and touch no intent; a second intent multiplies the states past what a run may take. The proofs have any values |
| `MaxEvents` = 2 | copies, retries and deaths of imports | a death and the retry after it |
| `MaxAttempts`, `MaxTries`, `MaxSyncs`, `DisableAt` | the code's budgets, made small | the last try and one before it |
| `Earnings` 1 and 2, `MaxPayouts` = 2, two `Reversals` | orders of different worth; `v_twice` has two of worth 2 and three payouts | a refund carried into a second payout; the third pays the refunded earning again |
| `Requests`, `IdemKeys` = 2, `MaxAccounts` = 2, `MaxDecisions`, `MaxLapses`, `MaxCrashes` = 1 | requests with two keys and a lost lock | two runs overlap; an account is closed and opened again |
| `Notes` = 3, `Senders` = 2, `MaxLost` = 1 | a message on both channels, a broadcast of each kind | two senders meet at one attempt, one thing is lost |

Sets of identical names are symmetric in the runs of safety properties; runs of
liveness use no symmetry. The deadlock check is off where the system may come
to rest: when sessions, events or payouts are used up and every bound is spent.

`RowLocks = FALSE` in `settlements`: the code asks for a row lock outside a
transaction (`services_ingestion.py:376`), which a database with row locks
refuses. With `RowLocks = TRUE` every import fails before its first row;
PostgreSQL, which production requires (`common/runtime_validation.py:143`), has
them. The run shows what the rest of the code does where the lock is a no-op.

`StatusErrors = FALSE` in `payouts`: `v_definite` is about the other value.
`SlowCalls = TRUE` lets a lock go stale while its run is alive; two recoveries of
one payout may then overlap, one releasing what the other has dispatched again,
and `NeverPaidTwice` fails. The runs assume that the lock's life of
PAYOUT_LOCK_TTL_SECONDS (600) is longer than a run needs, not only a call: the
lock is dated at the start of the run (`payouts/services.py:786`, `:870`) for
each of its up to fifty payouts, each of which makes two calls of up to twenty
seconds, so with a slow provider the last ones may be stale before their call.

A recovery (`payouts/services.py:813-849`) is one action, though its updates, its
releases and its batches' status are transactions of their own, without a lock
between them. With more than two attempts it releases nothing, since a FAILED
payout is not claimed again (below), and the status of a batch follows from its
payouts; what `MaxAttempts` = 2 would do between an update and its release is not
in the model.

`TooLong = {n3}` in `notify`: the form for administrators allows longer texts
than the notification's columns, whose rows then fail one by one and are
swallowed, like any error at one user (`BroadcastSkips`, of which the latter
counts as one of `MaxLost`).

`LockExpires` waits until the sender is dead: the calls give up after ten seconds
(`EMAIL_TIMEOUT`, `notifications/fcm.py:111`), a send lock lives for three
minutes.

### Runs that show a disagreement

Each checks one sentence of the repository that the code does not keep; the
trace TLC prints tells how.

| Run | The sentence | What happens |
|---|---|---|
| `v_definite` | "only definitive provider failures move payout to `FAILED` and return earnings to `ELIGIBLE`" (`RUNBOOK.md:110`) | a status query fails for good (a mismatched reply, a missing setting) for a payout that the bank is paying; its earnings are given back and the next batch pays them again |
| `v_members` | "Business must keep at least one active OWNER or MANAGER membership" (`businesses/api/views_ops.py:54`) | two admins each change one of the last two owners, so that it is critical no more; both checks pass before either writes |
| `v_twice` | a refund is carried over "because the business was paid in a past cycle" (`docs/refund_reversal_chargeback_runbook.md:139`, in Turkish), and a redundant deduction is cancelled (`payouts/tests/test_dispatcher.py:157`) | a batch deducts the refund of a sent payout from another one; then the first payout fails for good, its earning is paid again less the refund, and the deduction stays |

More configurations of the same modules give counterexamples to sentences of
the repository; they are run by hand (`tlc -config v_lost.cfg MCCheckout`):

| Configuration | The sentence | What happens |
|---|---|---|
| `v_active` | "Checkout session is created from active cart snapshot" (`SPRINT2_CART_BACKED_CHECKOUT.md:16`) | two requests load the same ACTIVE cart; the second checks the status in its copy and checks the CHECKED_OUT cart out again |
| `v_consumed` | the cleanup "does not overwrite consumed sessions" (a test) | a GET reads the session, the cashier consumes it in time, the deadline passes, the GET saves EXPIRED by primary key |
| `v_expired` | "expired checkout releases reserved quota once" (a test) | a GET dies after saving EXPIRED; no path releases for a session that is not live, so its quota is held for good |
| `v_lost` | "second checkout for last quota is rejected" (a test, which relies on the counters) | a menu PATCH that carries `quota` reads the row, a checkout reserves, the PATCH writes the old counters back |
| `v_poison` | "Mark stale pending checkout sessions as EXPIRED" (the cleanup command) | the business lowers a quota's total under what is reserved; returning the units fails `full_clean`, the batch rolls back, every later run does the same |
| `v_window` (`MCSurpriseDeals`) | "Expire due surprise deal reservations and release reserved stock" (the expire command) | releasing saves the deal, and an ACTIVE deal whose window has ended cannot be saved: the reservation is never released, and the command stops at it |
| `v_audit` (`MCPayouts`) | "`verify_financial_integrity` passed", beside a rehearsed refund (`GO_LIVE_CHECKLIST.md:25`, `:80`) | a payout cut by a refund in the batch is reported, though the books are right |
| `v_both` (`MCTopUps`) | a confirmation by hand "credits_wallet_once" (the name of a test, `payments/tests/test_manual_topup_flow.py:61`) | the mock webhook credits a bank transfer as pending; then an operator confirms it, looks for a row of the ledger and for `is_settled`, finds neither, and credits it again |
| `v_shrunk` (`MCPayouts`) | refunds "may either shrink mutable payout items before dispatch or create next-cycle negative `PayoutAdjustment` rows after payout lock/confirmation" (`RUNBOOK.md:155`) | a run dies after the provider took the payout, recovery books it FAILED, a refund then shrinks its row and opens no adjustment; the bank pays what it was asked |

### What else reading the code for the models showed

These are in the models, as the code behaves, or named in the hazards:

* Top-ups. A wallet restricted by a reversal refuses top-ups and settlements
  until the review is resolved (`wallets/services.py:354`; `RUNBOOK.md:210` says
  it still takes top-ups). A FAILURE that arrives after PAID takes `processed`
  back while the money stays. A callback that comes back before the provider has
  decided uses up the intent's only callback event. A webhook that finds no
  intent is recorded, so that its repetition is ignored.
* Carts. Neither the look-up before a first cart is inserted
  (`orders/services_cart.py:178`) nor cancel's before it gives a cart back
  (`orders/services_checkout.py:143`) can lock a row that does not exist, so two
  requests may both pass; the unique constraint then refuses one with an
  IntegrityError, which leaves nothing. In the model the constraint, `Unique`, is
  a guard of the write. Adding an item reads the cart up to three times; when a
  restore abandons the old cart because a new one has appeared, the insert that
  follows is refused too: the model has it as the restore and a refused insert.
* Row locks across an outer join, `select_for_update().select_related(x)` with a
  nullable `x`, which PostgreSQL refuses: in cancel and consume (`cart`,
  `orders/services_checkout.py:183`, `:423`), the deals' expire command
  (`checkout_session`, `surprise_deals/services.py:174`), the resolution of a
  review (`payment_intent`, `payments/services_reversals.py:392`) and a refund's
  effect on an earning (`payout_item`, `payouts/services.py:1058`). The models
  show what these do on a database that grants the lock.
* Imports. Executing one that is APPLIED again is refused inside the `try`, which
  marks it FAILED (`payments/services_ingestion.py:377`, `:505`). One that dies
  stays APPLYING, which the retry refuses; only the task
  that executes an import takes it up again. The inbox archives a copy of a file
  whose import failed, and a file moved to FAILED is not found by a retry. A row
  that belongs to another import fails the whole import after a part of it was
  applied. The intent is settled even when no business has the row's key.
* Payouts. A failed payout that may be tried again is claimed only if its
  provider id is the empty string, which no code stores. A release cancels the
  pending carry-overs of its items and leaves the applied ones. A deduction
  stays with the payout it was made from: when that one fails, the next batch
  pays its earnings in full.
* Idempotency. A request that dies leaves its record IN_PROGRESS for ever; an
  exception after the action's commit (the audit log) leaves it FAILED.
* Notifications. The send lock is deleted without asking whose it is. A
  broadcast carried by a thread dies with its process.

## 4. Fairness

Fairness is weak throughout: each of these steps stays possible until it is
taken. No customer, cashier, business, operator or provider is assumed to do
anything.

* `Checkout!FairSpec`: Celery beat starts the cleanup job every five minutes,
  and a run or a request on its way goes on unless it dies. `live` sets no
  crashes; with crashes `v_expired` shows what is lost.
* `SurpriseDeals!FairSpec` also assumes that the expire command is run again and
  again. Nothing in the repository schedules it; the assumption is the most
  favourable one, and `v_window` fails all the same.
* `Settlements!FairSpec`: the retry job is scheduled again and again, a run goes
  on unless it dies, and a wait ends. `RetriesEnd` follows: no record waits for ever.
* `Notifications!FairSpec`: the queue's workers work, the periodic task queues
  what is due, waits end, locks run out (they have a TTL), and a broadcast's
  task is redelivered when its worker dies (`acks_late`,
  `reject_on_worker_lost`). Deaths and losses happen up to `MaxLost` times.

## 5. Proofs

Assumptions: the named `ASSUME`s of each module (constants are naturals,
functions on the right sets, distinct names, finite sets where something is
summed), and what a theorem's own ASSUME says. The theorems hold for every number of customers, items, intents, files,
rows, threads, sessions, deaths and edits.

**`CheckoutProofs`** proves `RowsOK`, `LiveHoldsItsQuota`,
`OrdersSellTheirQuota`, `NeverRevived`, the refinement
`KeepsStockPromise`, and, through it, `StockPromise!SettledForGood`: what a
session gave back is never sold, what it sold never given back. None is
inductive alone: that a live session holds its quota depends on no pending expiry being about to release it, which depends on
an expiry releasing only after it has saved EXPIRED, which depends on ended
sessions staying ended. `Consistent` says it in one invariant: row types; what
a session row of each status may have for a cart, an order and reservations;
and, for each kind of request in flight, what its memory still guarantees
although the rows have moved. The proof has a step per action and, under it,
one per conjunct that the action can disturb. The refinement then maps each
action to `Take`, `GiveBack`, `Sell` or a stutter.

On `Consistent` rest the theorems about amounts: `TypeOK` (`Counters`: no counter
and no balance below zero, although edits write stale rows back: the code cuts
`reserved` off at zero and refuses what else would go wrong), `QuotaConserved` and
`WalletPaysEachOrderOnce`. A step changes the rows of one session, so each sum changes by one term, and the step's change of
the counter is that term. `Unedited` says
`QuotaConserved` as long as the business has edited no quota: `v_lost` shows
what an edit under way writes back. The third needs `Placed`: a session's cart
keeps its owner, so an order stays in the sum of one customer. `StrandedByDeaths`
counts: a step strands at most one session, and only when it is a death that it
counts; it needs `Reserving`: until a quota is edited, each limited line of a
session has a reservation row.

**`SurpriseDealsProofs`** proves `TypeOK`, `LiveHoldsItsPack`,
`OnePackPerCustomer`, `StockConserved`, `UnsoldIsOnSale` and its own
`KeepsStockPromise`. The actions fall into six kinds by what they do to packs;
a lemma says each action is of its kind, and each invariant is proved over the
kinds. `StockConserved` is a counting argument: taking adds one session to the
held set, returning removes one, selling moves one to the orders, and the
cardinality facts of finite sets do the rest.

**`SumTheorems`** makes those proofs possible. The library's sum is a fold: the
CHOOSE of a function that solves a recursive equation. `SumIsCount` gives a
solution, the number of coins when each `x` is worth `f[x]` of them, and shows
that there is no other, as two would differ on a smallest set. So a sum is a
cardinality, and that a sum is a natural number, splits, or changes by one term
follows from the library's facts about finite sets. No definition is recursive
and no induction rule is cited with an operator; `Grows` does what induction over
finite sets is needed for, with a set of good subsets in the operator's place.

**`TopUpsProofs`** proves `TypeOK` (no balance below zero),
`RestrictedWhileUnderReview`, `RowsSettleOnce`, `MoneyConserved` (with `Repaid`:
what a reversal has taken is not below zero) and the refinement
`KeepsTopUpPromise`. The invariant adds that a customer has one open review at
most (a restricted wallet refuses the next reversal, so a review's resolution
may release the wallet), that what is claimed of an intent, under review or not,
fits its amount, and that what is processed or settled came in. The refinement
assumes nothing of who is told of which intent: a bank transfer is the mock
provider's, whose webhook credits it too, and the promise is kept because each
way has a ledger row of its own and nothing is settled after a credit by hand.

**`SettlementsProofs`** proves `TypeOK`, `AppliedIsComplete` and
`SettledByOneRow`. That an applied import is complete needs `Behind`: a run has
recorded every row it has left behind, and the row it is about to process. It
survives deaths, because a run starts at the first row again, and other
imports, because a record never leaves the import it belongs to. That attempts
stay in their range needs `Budgeted`: what the job has on its list has an
attempt left, also when an operator or an import processes it meanwhile.

**`OnboardingProofs`** proves `TypeOK`, `ApprovedIsActive`, `OneRunPerKey` and
`ApprovalIsTheProviders`. `KeyAgrees` says that the run of a key holds its record
IN_PROGRESS, is the only one, and has committed only when it says so; that the
job lock may be lost at any time is why it must rest on the record. For the
approval the proof follows a request from the row it locked to its verdict. The
module also proves that with one admin at a time (`Alone`) a business keeps a
critical member: what `v_members` refutes takes two.

**`NotificationsProofs`** proves `TypeOK`, `StatusIsTrue` and `TakenOnce`. The
invariant counts: the provider has taken a message as often as nobody recorded
it, plus once if the attempt is SENT or a sender holds the answer; and a sender
at work has the lock of an attempt that is not sent to itself.

**`PayoutsProofs`** proves `TypeOK` and `DispatchedIsFrozen` for all settings,
and `PaidByTheBank` and `NeverPaidTwice` assuming `AsConfigured`: more than two
attempts (`.env.example:80` sets eight; with two, a recovery would already give
up and release what the bank may be paying), locks that outlive the run that
took them, and a status service that answers. The argument: a payout is claimed once
(`ClaimedOnce`), so one run at most handles it (`HandledAlone`), and what a
recovery lists nobody handles (`ListedStale`), although the recovery writes rows
back as it read them. A transfer that may still be paid keeps its earnings
(`TransfersHold`), which can leave it only by being refunded in full; that needs
`ItemsCover`, an item is worth at least what is left of its earning. What a run
is about to release, from a list it read without a lock, is in no transfer and
on no other run's list (`SeenIsFree`). Every action is shown to do one of six
things to an earning (`EarningStep`), and the invariants are proved over those.

Under the same assumption it proves `SentIsEarned`, and that every payout adds up
(`PayoutsAddUp`, which is a part of the invariant and has no run of its own). The
invariant is `Books`, which TLC also checked with three payouts and two refunds:
a payout that was not made has nothing
(`Unmade`); only a deducted refund names a payout (`Unapplied`); a payout that
is alive, or that the bank may still pay, is the sum of its items less its
deductions (`AddUp`); and such an item is worth no more than its earning is now,
with the refunds carried over for it (`ItemsBacked`). `SentIsEarned` sums the
last two over the payouts sent, and the amounts it sums are those the bank was
told: `AskedAmounts` says that they are the row's for every payout the books
have not given up, and a payout they have given up comes back only by a
settlement file that shows as much paid as the books have (`ComesBack`). The
payouts a refund shrank in between are outside the sums, and `v_shrunk` shows
that they have to be.

### Only model-checked

* Liveness (`DeadlinesAreEnforced`, `ExpiredQuotaReturns`, `RetriesEnd`,
  `AttemptsEnd`, `BroadcastReaches`): it rests on ENABLED, which the prover does
  not support.

`QuotaConserved` does not hold once a quota is edited (`v_lost`), nor
`NeverPaidTwice` outside `AsConfigured` (`v_definite`): those theorems carry the
condition in their statement.

## 6. Not modelled, and why

* `mark_payout_sent` (`payouts/services.py:551`), a manual override that stores
  no provider id: the next status query then fails for good.
* A webhook that names an intent that does not exist: references are made by
  the code.
* How a payment page is asked for: an intent whose page fails is rolled back.
* Of settlement files: the parsers' formats, skipped rows, checksum verification
  by hand, the review status an operator may set (which changes nothing the
  other code reads).
* A payout is bounded by net amounts, an order's refund by what the customer
  paid; the model has net amounts only, so the refusal of a full refund when
  there was a fee (`payouts/services.py:1060`) is not in it. It changes nothing.
* Of deals: creating drafts, deleting a deal, and moving its window or price by
  PATCH. A session freezes its price and its deadline when it is created, and
  the PATCH refuses both changes while a pack is reserved; the end of a window is
  an action.
* Of notifications: texts, quiet hours, preferences beyond who may be reached.
* Registration and profile forms of businesses, storage, districts: guards and
  files. The Django admin, which writes whole rows, stands outside.
* Orders' preparation statuses, listings, search, logs, health, runtime
  validation and the frontend: reads, and single-row updates without rules.
* Lock cycles (section 2).

## 7. What is left

1. `mark_payout_sent` in `Payouts`, and batches of several businesses.
2. Deletion of deals and windows that move, in `SurpriseDeals`.
3. A composition of `Settlements` with `TopUps` in place of the interface
   between them.
