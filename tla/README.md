# aadhya-farmfresh in TLA+

The repository is a farm-produce shop: a FastAPI/PostgreSQL backend
(`backend/app`) and an Expo client (`mobile`).  This directory models the parts
of it whose correctness depends on the order of things — requests, gateway
events and background sweeps that meet on the same rows — checks them with TLC
on small instances, and proves the most important invariants with TLAPS for
instances of any size.

Source references below are relative to `backend/app` unless they say
otherwise.

## 1. The system

| Component | State | Operations | Hard behaviour | Correct when |
|---|---|---|---|---|
| Order lifecycle (`domain/order_state.py`) | `orders.status`, `stock_released` | the transition graph, which transitions hand stock back, who may cancel | every writer checks a status it read earlier | status walks the graph; stock is settled once, as the goods' whereabouts demand |
| Online payments (`services/order_service.py` `apply_webhook`, `cancel`, `update_status`, `retry_payment`; `repositories/orders.py`; `api/v1/routes/payments.py`) | `orders`, `payments`, `webhook_events`, support tickets | capture, failure, refund and mismatch events; cancel; retry; status changes | stale reads, duplicated and reordered events, a replaced link that is still alive | money is kept for orders that go on and goes back for the others |
| Sweeps (`main.py` housekeeping; `release_expired_holds`, `process_pending_refunds`, `process_amount_mismatches`) | the same rows | poll and release an expired hold; make a queued refund | a sweep racing a payment; a crash after the refund call | every expired hold is resolved, every queued refund is made |
| Payment gateway (`payments/razorpay.py`, `mock.py`) | links, payments, refunds, event deliveries | create, cancel and poll a link; refund; webhooks | redelivery, late events, an unreachable gateway | (environment) |
| Checkout and idempotency (`create_order`, `repositories/idempotency.py`, `services/pricing.py`) | idempotency keys, orders, stock, links | claim the key, price, create the link, reserve, insert, commit | a retried request; a commit lost after the link was made | one order per key; no link without an order |
| Stock ledger (`repositories/products.py`) | `stock_qty`, `stock_ledger` | reserve, release, set, adjust, reconcile | owner edits next to checkouts; a shelf read long before it is decremented | never oversold; the ledger sums to the stock |
| Delivery (`services/delivery_service.py`, `repositories/delivery.py`, `order_service.py` `update_status`, `verify_delivery_code`) | assignment, delivery code | accept, release, reassign, pack, pick up, verify the code, override | reassignment and overrides next to verification; a cap read before the accept | an accepted job stays with its agent; what is delivered stays delivered; a code lives while the order is out |
| COD cash (`services/cash_service.py`, `repositories/cash.py`) | collections, settlements | collect at the verified delivery, settle | overlapping settlements, deliveries during a settlement | each order's cash is in one hand |
| Sessions (`services/auth_service.py`, `repositories/refresh_tokens.py`; `mobile/src/api/client.ts`) | refresh tokens, the client's token store | sign in, refresh, sign out | token reuse, a lost answer, writes rolled back by the error that reports them | a stolen token ends the family; an honest client stays signed in |
| Request transaction and outbox (`api/route.py`, `db/base.py`, `core/outbox.py`) | one transaction per request, queued pushes | commit on success, roll back on error, drain after commit | effects outside the transaction | nothing is announced that was not committed |
| Housekeeping alerts and push (`main.py`, `services/push_service.py`, `repositories/push_tokens.py`) | alert flags on payments and variants, push tokens | flag, commit, push; arm again; prune | several replicas, passes that fail, a crash after the commit, handsets that change hands | each dip and each stuck refund is announced once, and announced in the end |
| Support (`services/support_service.py`, `repositories/support.py`) | tickets | submit with a push, close | the push of a ticket that is rolled back | a ticket the owner is told of exists |
| Users and addresses (`repositories/users.py`, `routes/auth.py`, `api/deps.py`) | users, addresses, the address copied into an order | sign in, edit, erase | an erasure of four statements among other requests, access tokens that outlive it | no order of an erased person keeps their address; a sign-in finds a live account |
| Catalogue and prices (`repositories/products.py`, `services/pricing.py`, `scripts/seed.py`) | variants, `catalog_audit` | reprice, switch off, seed, quote, price a cart | a script that reads without locks and writes at its end; prices that change under an open checkout | what the last writer logged is what the rows hold, the shelf survives a seed, nobody pays another total than was shown |
| Geography and amounts, rate limiter, screens, schema, configuration | none, or one process's | | | not modelled, section 6 |

How they interact: a request runs in one READ COMMITTED transaction opened by
`TransactionalRoute`; it reads rows without locks, decides, writes with
compare-and-swap updates whose row locks last until the commit, and may call
the gateway in between.  The gateway answers with webhooks, each its own
request.  The housekeeping loop runs the sweeps every two minutes under an
advisory lock.  So components meet on database rows and at the gateway, never
in memory, and a "step" of the system is a database read, a gateway call or a
commit.

## 2. Modules

| Module | Contents |
|---|---|
| `OrderState` | `_ALLOWED`, `CANCEL_OR_REFUND_TARGETS`, `CUSTOMER_CANCELLABLE` and `releases_stock` as constants |
| `OrderLifecycle` | the abstract promise: an order walks the graph and its reserved goods are restocked or written off exactly once |
| `OrderPayments` | the order, payment, ticket and `webhook_events` rows, the gateway, and every handler and sweep that touches them |
| `OrderPaymentsProofs` | the theorems about it |
| `Sessions` | the refresh-token rows of one account, the requests that rotate and revoke them, and the clients that renew their access with them |
| `SessionsProofs` | the theorems about it |
| `Shop` | the abstract promise of placing an order: one step, its goods taken while they are there and on sale, and given back at most once |
| `Checkout` | placing an order: the idempotency key, the shelf and its ledger, the owner's edits, the payment link made before the commit |
| `FiniteSums` | the sum over a finite set, with proofs |
| `CheckoutProofs` | the theorems about `Checkout` |
| `CodCash` | the abstract promise of the COD book: cash passes from the customer to one agent and from that agent to the farm, once each |
| `Delivery` | who delivers an order, its code, its cash and the settlements, with the requests of agents, staff and the owner |
| `DeliveryProofs` | the theorems about it |
| `Alerts` | the housekeeping alerts, the outbox, tickets and push tokens |
| `AlertsProofs` | the theorems about it |
| `Accounts` | one person's accounts, sessions, profile, address book and orders, and the erasure of them |
| `AccountsProofs` | the theorems about it |
| `Catalogue` | variants and their audit log, changed by staff and the seed script while customers are quoted and buy |
| `CatalogueProofs` | the theorems about it |
| `MCOrderPayments`, `MCSessions`, `MCCheckout`, `MCDelivery`, `MCAlerts`, `MCAccounts`, `MCCatalogue` | the instances the runs use |

The modules meet in what they share: `Accounts` refreshes a session in one step
less than `Sessions` does, `Catalogue` has the checkout of `Checkout` reduced to
what prices and policies can disturb, `Alerts` the stock and the refunds of the
others as an environment that moves at will.

### OrderPayments and the code

State: `status`, `hold`, `released` are columns of `orders`; `credits` counts
the calls of `release_stock` for an order; `pay`, `payLink`, `payId` are the
columns `status`, `provider_order_id` and `provider_payment_id` of `payments`;
`ticket` says whether an automated support ticket exists; `seen` is
`webhook_events`; `link`, `returned` and `sent` belong to the gateway; `txn`
holds, for each handler, the transaction it has open, with what it has read.

A handler is one request or one sweep transaction.  Its first step reads
(`…Begin`, `SweepClaim`), later steps read again or call the gateway
(`EventReread`, `SweepPoll`, `RefundCall`), the last one (`…Commit`) applies
its writes and commits.  Applying all writes at the commit is what other
transactions see under READ COMMITTED with row locks; the two places where a
transaction holds a lock *and* goes on deciding — the capture on a cancelled
order and the full refund, which read the order again after writing the
payment, and the hold sweep, which claims its row with FOR UPDATE — keep their
lock across steps (`PaymentLocked`, `OrderLocked`).  `Abort` is the rollback of
`TransactionalRoute`, a lost connection and a dying process alike: nothing it
did to the database remains, everything it did at the gateway does.

| Action | Code |
|---|---|
| `EventBegin`, `EventReread`, `EventCommit`, `EventUnknown` | `routes/payments.py` `webhook` and `payment_link_callback`, `record_webhook_once`, `apply_webhook` with all its branches |
| `CancelBegin`, `CancelCommit` | `OrderService.cancel`, `_cancel`, `_maybe_refund` |
| `RetryBegin`, `RetryCommit`, `RetryConflict` | `OrderService.retry_payment`, `OrderRepository.retry_payment` |
| `StaffBegin`, `StaffCommit` | `update_status` (owner and delivery agent) |
| `SweepClaim`, `SweepPoll`, `SweepCommit` | `release_expired_holds`, `claim_expired_hold`, `poll_status` |
| `RefundBegin`, `RefundCall`, `RefundCommit` | `process_pending_refunds`, `process_amount_mismatches` |
| `Pay`, `ExpireLink`, `DeclinePayment`, `DashboardRefund` | the gateway and its users (external) |
| `HoldExpires` | `hold_expires_at` passing |

Abstractions.  An amount is the order's total or another one (`short`).  A link
is paid at most once (`accept_partial` is off), so a link also stands for its
payment id, which every capture carries.  Webhooks are delivered until
accepted, in any order; the polled link callback carries another event id than
the webhook (`poll`), and the sweep's poll is not deduplicated at all.  An
attempt to pay may fail (`payment.failed`) and leave the link payable, so that
its report comes before or after a capture of the same link (`Declines` says on
which links).  Reports about a payment, these and refunds, are matched by the
stored provider id, as the mock provider and the tests do; partial refunds
change nothing and are left out.  A candidate of the
hold sweep is a transaction of its own here, a savepoint of one longer
transaction in the code: its row lock is shorter here, its read is the same.
One refund sweep runs at a time (advisory lock).  Pushes are skipped.  COD
orders are not in this module; `Init` is the state after the checkout's commit.

### Sessions and the code

State: `row` and `heir` are the columns of `refresh_tokens` (`revoked` is
`revoked_at` alone, `rotated` is `revoked_at` with `replaced_by`, `gone` is past
`expires_at`, deleted or not); `login` is history: the token of the sign-in a
token descends from, which is what the code's comments call a family or a
session.  `txn` holds each request's transaction with what it has read: a
refresh, or a logout (`Leave`) with the rows its UPDATE is about.  `answers` is
history: the tokens a logout was answered for, and the successor each had then.
`store` is `tokenStore`, `signedIn` the status of `useSession`, `trying` and
`tries` are `refreshInFlight` and its attempts, `awaits` says which request the
device is waiting for; `missed` is history: an answer may have been lost.

| Action | Code |
|---|---|
| `RefreshBegin` | `AuthService.refresh` up to the read of the row (`get`) |
| `Rotate` | `mark_rotated`: compare-and-swap, the row stays locked until the commit |
| `RefreshCommit` | `_issue_tokens`, the commit, the answer, `tokenStore.save` |
| `RefreshRefuse` | `Unauthorized`, the rollback, `tokenStore.clear` |
| `RefreshAbort` | a failed commit or a crash: 5xx or no answer |
| `LogoutBegin`, `LogoutAllBegin` | `revoke` of one token, `revoke_all_for_user`: one UPDATE, with the rows its snapshot has |
| `LogoutCommit`, `LogoutAbort` | its wait for rows under rotation, the rows still live then, the commit and the 204; a failure of the wait or the commit |
| `Expire` | `expires_at` passing, `delete_expired` |
| `StartRefresh`, `Drop` | `refreshTokens`, `attemptRefreshOnce`, the network |
| `SignIn`, `SignOut`, `Restart` | `LoginScreen`, `signOut`, `restore` |

Abstractions.  One account; the rows of two accounts never meet.  A sign-in is
one step, and its answer may be lost.  An answer is delivered with the commit
that produced it; one that is lost after the commit is a `Drop` just before it,
since nobody looks at the device in between.  A device waits for one request,
but the server may still be working on those it has given up.  A logout may
come at any moment with any token that was ever issued, live or not, and under
rotation or not; a logout-all at any moment: the server offers both, and the app
calls neither.  An UPDATE of several rows locks them one by one, here all at the
commit, which lets a refresh slip in between in more ways than the database
does.
Erasure and the access tokens that live on for 30 minutes are in `Accounts`;
the hash check is left out.

### Checkout and the code

State: `stock`, `policy`, `active` are columns of `variants`; `ledger` is the
sum of `stock_ledger` per variant; `screen` is the count the owner's client
shows and sends back as `expected_qty`; `counted` is history: what the owner has
put on the shelf in all.  `status` and `placed` are the order (`live` covers the
statuses from pending to out for delivery, `over` cancelled and refunded) and
what it was placed for; `claim` is the completed row of `idempotency_keys`, as
the order its stored response names; `told` is history: the answers given.
`link` is the gateway's.  `txn` holds each open checkout with what it has read
(`tracked`, the policies while pricing) and taken (`took`, the rows its UPDATE
has decremented).

| Action | Code |
|---|---|
| `Claim`, `Replay` | `IdempotencyRepository.claim`; the replay in `create_order` after the fingerprint check |
| `Price` | `_price`, `price_line`, `build_cart`, `_check_cod_eligibility` |
| `OpenLink` | `payments.create_order`, before any stock row is locked |
| `Reserve` | `reserve_stock_bulk` for all lines |
| `WriteOrder`, `PlaceOrder` | `next_order_number`, `insert`, `record_stock_movement`, `complete`; the commit of `TransactionalRoute` |
| `Abandon`, `CommitFails` | every refusal and error inside `_create_order_inner`, with the cancel call of its `except`; a commit that fails after it has returned |
| `CancelOrder`, `Deliver` | `_cancel` with `release_stock`; the delivery |
| `Look`, `SetStock`, `AdjustStock`, `SetActive` | the owner's stock screen, `set_stock`, `adjust_stock`, `set_variant_active` |

A checkout's writes are applied at its commit; until then the rows it has
decremented (`RowLocked`), the key it has inserted (`Claimed`) and the row of
the day's order number (`WriteOrder`) are locked, and whoever needs them waits.

Abstractions.  One customer: keys and the COD cap are per account.  A request is
a cart and a payment method, as the fingerprint is; amounts, the address and the
expected total are left out, so `PriceChanged` and the per-order limit are among
the refusals of `Abandon`.  A key reused for another cart is answered with a
conflict, which changes nothing.  A key's row is kept for 24 hours and then
deleted; the model ends before.  Claim and completion commit together, so no row
is ever seen in progress.  An order ends by `CancelOrder` or `Deliver`, whose
own races are those of `OrderPayments`.  A stock policy stays what it is: only
`scripts/seed.py` changes one, which is in `Catalogue`.  The key that a stock correction may carry is
left out: no client sends it.

### Delivery and the code

State: `method` is `payments.method`; `status` and `agent` are columns of
`orders`, `code` stands for its `delivery_otp_*` columns (`expired` is past
`delivery_otp_expires_at`); `deliveredBy` is the `by` of the `order_events` row
for delivered; `captured` is the status of a COD order's payment; `collectedBy`
and `settledIn` are the order's `cod_collections` row; `recipient` is
`cash_settlements.agent_id`, and `covers` the collections its expected amount
was summed from.  `txn` holds each open request with what it has read.

| Action | Code |
|---|---|
| `AcceptBegin`, `AcceptCommit` | `DeliveryService.accept`: `count_ongoing`, then the compare-and-swap |
| `Release`, `Reassign` | `release`, `reassign`: one UPDATE each |
| `AgentMoveBegin` | `get_one` in `update_status` and `verify_delivery` |
| `AgentMoveRead`, `StaffMoveRead` | the read of `OrderService.update_status`, and for an agent who moves an order to delivered the checks of `verify_delivery_code` before it |
| `MoveCommit` | `transition` with its event and code, `record_collection`, `set_payment_status`; `_cancel` for a cancel or a refund |
| `CodeExpires` | `DELIVERY_OTP_TTL` |
| `SettleBegin`, `SettleLock`, `SettleCommit` | `settle_agent`: the snapshot of `pending_for_agent`, its wait FOR UPDATE, `insert_settlement` with `claim_for_settlement` |
| `Abort` | every refusal, a wrong code among them, and every failure |

Abstractions.  Orders start confirmed; what comes before is in `OrderPayments`
and `Checkout`, and the refund of a captured online payment after a cancel is
in `OrderPayments`.  A refused request changes nothing, because
`TransactionalRoute` rolls it back, the attempt a wrong code has counted
included: that column never moves and is left out.  The read of
`verify_delivery_code` and the second read of `update_status` are one step:
between them an order that is out for delivery can only end, and then the
compare-and-swap loses as well.  Amounts are left out: an expected amount is
the sum over `covers`, and whether the amount received matches decides only the
settlement's label.  Cancel and refund are the owner's, the other moves any
staff member's; both are `Staff`.

### Alerts and the code

State: `stock`, `active`, `notified` are `stock_qty`, `is_active` and
`low_stock_notified` of `variants`; `refund` is the payment's status with its
age, `alerted` says that `refund_alerted_at` is set; `owner` and `stale` are
`push_tokens.user_id` and an `updated_at` past the cutoff; `gone` is Expo's.
`txn` is a sweep or a submission before its commit and, after it, a process
that still has pushes to send.  `raised` is history: the alerts committed since
the flag was last down.

| Action | Code |
|---|---|
| `SweepBegin`, `SweepCommit` | `_run_sweep_once`: the advisory lock, `find_newly_low_stock`; then `mark_low_stock_notified`, `clear_stale_low_stock_flags`, `find_stuck_refunds_to_alert` with its mark, `prune_stale`, the commit |
| `SubmitBegin`, `SubmitCommit`, `CloseTicket` | `SupportService.submit`, `close` |
| `SendOne`, `Finish`, `Crash`, `Abort` | `outbox.drain`, `notify_users` with `delete_invalid`; the session closed; the process gone; a rollback |
| `Register`, `Deregister`, `Lapse`, `Uninstall` | `routes/notifications.py` with `register` and `delete_for_user`; ninety days; the handset (external) |
| `MoveStock`, `SetActive`, `QueueRefund`, `RefundLingers` | the other modules, as an environment |

Abstractions.  The statements of a sweep that write are one step with the
commit, since the rows they write stay locked; the read they follow is a step
of its own, so stock moves in between.  Which queued refunds the gateway makes
is open.  A product's alert is per variant here as in the code; texts, the
batches of 100 tokens and the recipients' roles beyond owner are left out.

### Accounts and the code

State: `linked`, `status`, `named` are columns of `users`, `book` the labels in
`addresses`; `address` tells whose address an order carries, `buyer` is
`orders.user_id`; `holder` and `live` are columns of `refresh_tokens`; `access`
says that some access token still works.  `txn` holds each request in progress.

| Action | Code |
|---|---|
| `SignInBegin`, `SignInStamp`, `SignInVanished`, `SignInCommit` | `get_or_create_by_google`: the insert that does nothing on a conflict, the update of `last_login_at`, the read; `_issue_tokens` |
| `RefreshBegin`, `Rotate`, `RefreshCommit` | `AuthService.refresh` with its check of the account |
| `UpdateProfile`, `SaveInsert`, `SaveCommit`, `Rename`, `Delete` | `PATCH /me`, `upsert_address`, `delete_address` |
| `OrderInsert`, `OrderCommit` | the insert of `create_order` |
| `EraseBegin`, `EraseAddresses`, `EraseRow`, `EraseCommit` | `delete_me`: `revoke_all_for_user`, the DELETE and the UPDATE of `erase`, `anonymize_addresses_for_user` |

Abstractions.  Locks follow PostgreSQL: an insert for an account holds its row
in KEY SHARE, which an update of `google_sub`, a column with a unique index,
waits for and an update of the other columns does not.  An order counts as
written before the erasure ("home") or after it with an access token that was
still valid ("late").  Names and phone numbers are one flag, and an address is
its label.

### Catalogue and the code

State: `listed` are the variants there is a row for, `row` their price, policy
and switch, `stock` the quantity, `ledger` the sum of `stock_ledger`; `audit` is
`catalog_audit`, each entry with its `created_at`, and `clock` gives out those
dates; `offer` is what the device shows and sends back as
`expected_total_paise`, `charged` the order's total.  `strayed` is history, see
`SeedKeepsShelf`, and so is `wrote`: for each column, the date of the
transaction that wrote what it holds.  `txn` holds each open transaction; the
rows it has locked are read off it (`Holds`).

| Action | Code |
|---|---|
| `Open` | the transaction begins, with the check of the staff's role (`api/deps.py`) or the seed's first upsert: `now()` stands still in it from here |
| `StaffBegin`, `SetPrice`, `SetActive` | `set_price`, `set_variant_active`: the SELECT FOR UPDATE, then the write with its audit row (`Update`) |
| `SeedBegin`, `SeedRead`, `SeedCommit` | `scripts/seed.py`: `authorize_retirement` and the deletions; `upsert_product` of each product; the flush and the commit |
| `Quote` | the quote of a cart: `build_cart`, `price_line` |
| `Price`, `Reserve`, `PlaceOrder` | `create_order`: `_price` with `PriceChanged`; `reserve_stock_bulk`; the commit |

Abstractions.  A product is as coarse as its variants.  The MRP only gives a
reason to refuse.  What a seed run does to a variant is its list's: listed, no
longer among its product's variants, its product retired, or renamed.  An
SQLAlchemy flush writes the columns that differ from what was read, and only
those (`Merge`); the rows a transaction adds to the audit log for one variant,
one per such column, are one entry.  `catalog_audit.created_at` is `now()`, the
beginning of the transaction (`models.py:517`), so entries are dated by `Open`
and not by when they were written; no two transactions begin in the same
microsecond.  A list may give a made-to-order variant a quantity: the row gets
it, the ledger does not (`Opening`).  Cancellations and corrections are in
`Checkout`.

## 3. Runs

Every run of `OrderPayments` has one order; the interesting interactions are
between handlers of one order, since no row is shared between two (stock is
counted per order there, per variant in `Checkout`).

| Run | Instance | Shows |
|---|---|---|
| `race` | 2 links, 2 transactions, crashes, dashboard refunds of checkout's link, no mismatch | the safety invariants, the inductive invariant and the refinement of `OrderLifecycle` |
| `serial` | 1 link on which an attempt to pay may fail first or be reported late, and which may be paid short, 1 transaction at a time (with one handler and one order, `Spec` has the behaviours of `SerialSpec`), crashes, dashboard refunds | `MoneyFollowsOrder`: the accounting is right without interleaving |
| `sweeps` | 1 link that may be paid short, 2 transactions, crashes, fairness | holds get resolved, refunds get made, a stranded order has a ticket, what counts as refunded was returned |
| `captured`, `charge`, `reuse` | the smallest instance that shows it | statements of the repository that do not hold, section 5 |
| `devices` | `Sessions`: 2 devices, 3 tokens, 2 requests, 1 retry, 1 token logged out | `OneLivePerSignIn`, `LogoutAnsweredIsFinal`, `NoFalseAlarm` and the inductive invariant |
| `place` | `Checkout`: 2 variants of either policy, 2 keys, 2 orders, 2 checkouts at once, 2 carts | `KeyNamesOneOrder`, `NoUnitSoldTwice`, `LedgerMatchesStock` and the refinement of `Shop` |
| `handover` | `Delivery`: 2 orders of either method, 2 agents, 2 settlements, 2 requests, a cap of 1 | `CashFollowsDelivery`, `DeliveredStaysDelivered`, `SettlementsAddUp`, `CodeWhileOut`, `AcceptedJobKept` and the refinement of `CodCash` |
| `alerts` | `Alerts`: 1 variant, refund, ticket and handset, 2 replicas, 1 request | `AlertedOnce`, `SentIsCommitted`, the inductive invariant, and under fairness `FlagFollowsBand`, `StuckRefundsAlerted`, `StaleTokensGo` |
| `accounts` | `Accounts`: 2 accounts, 3 labels, a limit of 1, 1 order, 3 refresh tokens, 2 requests | `ErasedOrdersAnonymous`, `SignInsFindLiveAccounts`, `AddressesBounded`, `DeadAccountsStayDead` and the inductive invariant |
| `catalogue` | `Catalogue`: 2 variants, 3 lists, 3 prices, 2 carts, 1 order, 2 requests, 1 seed run, 3 dated transactions | `AuditExplains`, `SeedKeepsShelf`, `ChargedAsShown`, `QuotedCanBeReserved`, `UnconfirmedChangesSmall` and the inductive invariant |

Bounds.  Two transactions are enough for every race of a reader with a writer,
which is what a stale read needs; a third would have to exploit two stale reads
at once on one row, and the theorems of section 4 cover any number.  Two links
give a replaced and a current one.  No counter of `OrderPayments` needs a bound:
`credits` never exceeds 1 (proved), everything else is finite.  The owner refunds
checkout's link only (`DashboardRefunds`); the theorems allow every link.
`RefundedMeansReturned` is checked with one link: with two, `RefundCommit`
(an unconditional update in the code) can mark a newer capture as refunded
when it returned the older one.

Mismatches and retries together, and failed attempts among overlapping
transactions (`Declines` is empty in `race` and `sweeps`), are left to the
theorems.

Three tokens are what a fork needs (one token, two successors), or a sign-in, a
refresh and a second sign-in; two requests are what a race on one row needs.
Two devices of one account have a token and a `missed` each, so that requests of
both, and copies of one request, meet on the rows and a token might change
hands.  The run goes on after the answer for one token and not
after a second one (the constraint `OneAnswer`): `LogoutAnsweredIsFinal` is about
each answer by itself, and refreshes, sign-ins, expiry and other logouts may
follow it.  The theorems have no such bound.
`REFRESH_RETRY_ATTEMPTS` is 2 in the code and 1 here: the
second retry repeats what the first did.

`place` has a cart of one unit of the first variant and one of the whole shelf
of both, so two checkouts can compete for the last unit, for one of two
variants, or not at all; two keys allow both the retry of one checkout and two
different ones.  `MaxShelf` (2) bounds what a correction may fill a shelf to,
`Counts` and `Deltas` what the owner counts and corrects by; a third checkout
would wait for the same rows (the theorems cover it).  The COD cap is 1 here, 2
in the code.

`handover` has two orders because a settlement must be able to miss the
collection of a delivery that commits after its snapshot, and two agents
because a reassignment needs another one.  The cap of 1 lets the second accept
of an agent meet it (5 in the code).

`alerts` has one of everything: variants, refunds, tickets and handsets never
meet, only sweeps, and of those two replicas suffice for the lock to matter.
`Full` (2) has one level above, one inside and one below the band.  `accounts`
has two accounts because a person who comes back gets a new one, and three
labels because two saves at once must pass a limit of one (10 in the code).
`catalogue` has a list that leaves everything alone, one that reprices,
makes a variant to order with a quantity and drops the other, and one that
renames and retires; the
prices 1, 2 and 3 have changes that are large, small, and large in one direction
only, and bills on both sides of the free delivery threshold; one cart takes
both variants, one leaves out the first; `MaxBooked` keeps a variant from being retired and
listed again forever.  `MaxDated` (3) bounds the transactions that staff and
script begin in a behaviour: a seed run that begins first and overlaps two
changes, or one change and another run after it.  One seed run against two requests: the script is run by
hand, and two runs meet as a run and a request do.  The theorems of section 4
cover any number of all these.

Deadlock is checked where a run never ends (`devices`, `place`, `handover`,
`alerts`).  Elsewhere it is not: an order that is delivered and whose events
are processed has nothing left to do, nor has a person who has erased every
account of the instance, nor a shop whose order is placed and whose
`MaxDated` transactions are over.

Fairness of `OrderPayments` (`SweepFairness`, only in `FairSpec`).  The housekeeping loop runs for
the life of the process and visits its lists every two minutes (`main.py`
`_housekeeping`), so claiming, polling and committing are strongly fair: an
order that keeps coming back on the list is served in the end, provided the
gateway and the commit succeed now and then.  A transaction does not stay open
forever, because of the statement, lock and idle-in-transaction timeouts of
`db/base.py`.  Nothing is assumed of customers, staff or the gateway's events.

Fairness of `Alerts` (`Fairness`, only in `FairSpec`).  The loop catches every
exception and goes on (`main.py:293-295`), so a pass begins again and again
(weak fairness) and commits now and then (strong fairness: a pass may be rolled
back any number of times, but not every time).  A push times out after ten
seconds and its failure is swallowed, so an outbox is drained, or its process is
gone (weak fairness of each process).  Nothing is assumed of stock, handsets or
the gateway.

`HoldsGetResolved` and `RefundsGetMade` say that an item leaves the list; they
do not say that an order whose mismatched payment was returned ever leaves
`pending_payment`: it does not, a human has to end it, and
`StrandedOrderHasTicket` is the promise that one was asked to.  Nor does
`RefundsGetMade` say that the row of a refund that was made is ever marked: if
the commit after the call is lost, it is not (section 5).

## 4. Proofs

`OrderPaymentsProofs` proves, for all sets of orders, links, handlers,
shortfalls and declined attempts, from the named assumptions of `OrderPayments` only:

| Theorem | Statement |
|---|---|
| `Invariance` | `Spec => []IInv` |
| `TypeCorrect` | `Spec => []TypeOK` |
| `PendingStaysUnpaid` | `Spec => []PendingMeansUnpaid` |
| `RefundsOnlyWhenOver` | `Spec => []RefundOnlyWhenOver` |
| `StrandedOrdersAreTicketed` | `Spec => []StrandedOrderHasTicket` |
| `LifecycleImplemented` | `Spec => ImplementsLifecycle` |
| `PaymentsAreNamed` | `Spec => []PaymentsNamed` |
| `RefundedWasReturned` | `MaxLinks = 1` implies `Spec => []RefundedMeansReturned` |
| `MoneyFollows` | `MaxLinks = 1` implies `SerialSpec => []MoneyFollowsOrder` |

The argument.  None of the safety invariants is inductive: a handler writes on
the strength of a snapshot that may be old.  `SnapshotsSound` says what an old
snapshot is still worth.  The graph never leads back to pending and leaves a
finished order finished, so a snapshot "not pending" or "over" remains true of
the row however long the handler waits; only the conclusion "still pending" can
go stale, and every write that depends on it is a compare-and-swap.
`StockSettled` ties the stock columns to the status, which is what makes
"settled exactly once" follow.  The proof has one lemma on the graph
(`GraphFacts`), one on the ageing of snapshots (`SoundnessKept`), one on
`_cancel` (`CancelKeepsRows`), and one per group of actions; each step lemma
also yields `Advances`, from which `LifecycleImplemented` follows.

Where the money is takes a second invariant, `MoneyInv`, part of `IInv`.
`ReportsTrue`: an event that is on its way, or was consumed, tells what the
gateway did.  `PaymentsNamed`: the payments row names a payment of its own order
from the first capture on.  `ReadingsSound`: so does what a handler has read,
however old, and a handler past its refund call has seen that payment go back.
From this follows, for any number of links, that an order which says refunded
has had some payment returned; with one link it is the payment
that `RefundedMeansReturned` speaks of.  The hypothesis `MaxLinks = 1` is no
convenience: an order whose link was replaced can be paid twice (run `charge`),
and then `RefundCommit` marks the newer capture for the return of the older one.

`MoneyFollows` needs `SerialSpec` as well, since the run `captured` is an overlap
that breaks it: it is the accounting the handlers are written for, each on the
rows it has read.  Its invariant (`SerialInv`, next to `IInv`) says that nobody's
reading has aged (`ReadingsExact`; a report that is read a second time has only
the status left to rely on), that checkout's link was never replaced
(`FirstLinkUsed`), and that a reported payment is on record with a status that
suits its order, or failed if a failed attempt was reported (`PaymentsPlaced`).  `SerialCommit` covers the steps that write,
`SerialRead` those of a transaction that only read, `SerialElsewhere` the gateway
and the clock.

`SessionsProofs` proves, for all sets of tokens, devices and requests and any
number of retries:

| Theorem | Statement |
|---|---|
| `Invariance` | `Spec => []IInv` |
| `SessionsDoNotFork` | `Spec => []OneLivePerSignIn` |
| `LogoutsStand` | `Spec => []LogoutAnsweredIsFinal` |
| `NoOwnAlarm` | `Spec => []NoFalseAlarm` |

`OneLivePerSignIn` alone is not inductive: a rotation that has passed its
compare-and-swap will make its successor usable whatever the row says by then.
`RotationsSound` says that it need not look again: the row lock keeps its token
live, and no two rotations under way share a token or a successor.
`LoginsIssued` keeps a new sign-in out of every older lineage.  `HeirsSound` and
`OneEnd` make the tokens of a sign-in a chain with one end, and a usable token is
that end.  `LogoutsStand` rests on it: a token that has no successor when its
logout is answered is the end of its chain, the UPDATE has left it revoked if it
was live, nothing revives or renews it (`LogoutsSound`), and so no other token of
the sign-in is usable or can become so.  `DeviceStep` and `QuietStep` cover the
steps that leave the rows alone, `SignInStep`, `RotateStep`,
`RefreshCommitStep`, `ExpireStep` and `LogoutStep` the others.

`NoOwnAlarm` is about the client: it never presents a spent token unless an
answer was lost on the way.  Three facts carry it.  `TokensPrivate`: what one
device has, is renewing or is about to be given, no other device has, so a
rotation spends nobody else's token.  `HeldIssued` keeps the token of a new
sign-in apart from those.  `AnswersAwaited`: a request that the server works on
is the one its device waits for, or the device has missed an answer; this is
where the single flight of `refreshInFlight` is used, and `StartRefreshEach`,
the mutant without it, is refuted.

`CheckoutProofs` proves, for all sets of variants, keys, orders and checkouts in
progress, all carts, counts and corrections:

| Theorem | Statement |
|---|---|
| `Invariance` | `Spec => []IInv` |
| `RetriesPlaceOneOrder` | `Spec => []KeyNamesOneOrder` |
| `LedgerAccountsForStock` | `Spec => []LedgerMatchesStock` |
| `ShopImplemented` | `Spec => ImplementsShop` |
| `ReservationsAreGood` | `Spec => [](TypeOK /\ ReservationsHold)`, and `TypeOK` has the shelf never below zero |
| `NothingSoldTwice` | `Spec => []NoUnitSoldTwice` |
| `CodCapHolds` | for finitely many checkouts at once, at least one, `Spec => []CodCapNearlyKept` |

What makes them inductive is what an open checkout may rely on until its commit.
`ClaimsApart`: its key names nothing yet and its order id is nobody else's.
`ReservationsHold`: the rows it took still hold what it took, because every
other writer waits for them.  `EntriesAsTaken`: what it will enter in the
ledger, decided by the policies it read while pricing, is what the UPDATE took,
decided by the rows; this is where the assumption that a policy stays is used.
`TxnStep`, `AdvanceStep` and `CloseStep` cover a checkout until its commit,
`PlaceStep` the commit, `ShelfStep` and `OwnerStep` the owner, `OrderEndStep`
and `ReplayStep` the rest.

`ShopImplemented` needs one thing more than `IInv`: `TakenOnSale`, what a checkout
has taken stays on sale until it commits, since the switch waits for the row.
A made-to-order line has no row to lock (reserve_stock_bulk only reads it), so it
may be switched off between the reservation and the commit; `Shop` therefore
speaks of counted goods only.

`NothingSoldTwice` balances the shelf against a sum over the orders that stand.
`Orders` may be infinite; `UnitsAddUp` therefore carries that only finitely many
orders have taken anything, which every step preserves because it places one
order at most.  `UnitsPlaced` takes from the shelf what its order adds to the
sum (the took set is the cart's tracked lines, `EntriesAsTaken`),
`UnitsReturned` puts back what its order takes out, `UnitsTended` moves shelf
and count by the same amount: for a recount only because it is a compare-and-swap
on what the screen showed.  `UnitsKept` covers the rest.

`CodCapHolds` says how far the cap on active COD orders can be passed, since it
is counted in one statement and relied on by an insert after a gateway call
(section 5): by fewer orders than there are checkouts of the customer at once,
and not at all by one.  `CodRoom` counts with the orders the checkouts that have
already looked: the last of them saw less than the cap.  No run checks it:
`place` has two orders, and it takes three to break the bound with two
checkouts.

The facts about sums are in `FiniteSums`:

| Theorem | Statement |
|---|---|
| `SumOfNone` | the sum over no elements is 0 |
| `SumOfEqual` | a sum depends on its summands only |
| `SumIsInt` | integers sum to an integer |
| `SumWithout` | any summand may be taken out first |
| `SumWith` | one element more adds its summand |

`SumFunctionOnSet` folds a set in an order that `CHOOSE` picks, by recursion on
subsets, so even that it has a value must be proved.  The library's induction
rules take a predicate as a parameter, which the provers cannot instantiate;
here each induction is on the set of sizes at which the statement fails: if it
is not empty it has a least element (`LeastNumber`, from the well-foundedness of
`<`), and the step from the next smaller set contradicts it.
`SumsExist` constructs the function the fold defines, `SumsAgree` shows that two
of them agree wherever the summands do, and `SumWithout` exchanges the element
asked for with the one `CHOOSE` picks.

`DeliveryProofs` proves, for all sets of orders, agents, settlements and
requests and any cap:

| Theorem | Statement |
|---|---|
| `Invariance` | `Spec => []IInv` |
| `CashIsTheDeliverers` | `Spec => []CashFollowsDelivery` |
| `SettlementsAreExact` | `Spec => []SettlementsAddUp` |
| `DeliveriesStand` | `Spec => []DeliveredStaysDelivered` |
| `CodesGoOutWithOrders` | `Spec => []CodeWhileOut` |
| `AcceptedJobsAreKept` | `Spec => AcceptedJobKept` |
| `CodCashImplemented` | `Spec => ImplementsCodCash` |

A move writes on a status it read long before; `MovesSound` says that what it
read has an edge to its target, so once the compare-and-swap has confirmed the
status, the graph (`Edges`) says what the move may be: only an order that is out
becomes delivered, a delivered one becomes nothing but refunded.  That
is why a collection is never written twice and never contradicts the event.
`SettlesSound` is what a settlement may rely on until its commit: the rows it
holds are its agent's, unclaimed, and in no other open settlement.
`UnusedCoverNothing` makes a fresh settlement start empty, and gives, with
`SettlementsAddUp`, that an order without a collection is in no settlement,
which the refinement needs.  `OpenStep`, `LockStep` and `CloseStep` age the
requests, `AgentStep`, `ExpireStep`, `MoveStep` and `SettleStep` the rows;
`MoveInBook` and `SettleInBook` are the two steps that the COD book sees.

`AlertsProofs` proves, for all sets of variants, refunds, tickets, handsets,
users, replicas and requests:

| Theorem | Statement |
|---|---|
| `Invariance` | `Spec => []IInv` |
| `OneAlertPerDip` | `Spec => []AlertedOnce` |
| `PushesAreCommitted` | `Spec => []SentIsCommitted` |

`SweepsSound` is the argument: under the advisory lock one sweep is open, so
what it found unflagged is still unflagged when it writes.

`AccountsProofs` proves, for all sets of accounts, labels, orders and tokens and
any finite number of requests:

| Theorem | Statement |
|---|---|
| `Invariance` | `Spec => []IInv` |
| `ErasureReachesOrders` | `Spec => []ErasedOrdersAnonymous` |
| `SignInsAreLive` | `Spec => []SignInsFindLiveAccounts` |
| `DeadForGood` | `Spec => DeadAccountsStayDead` |
| `AddressBookBounded` | `Spec => []AddressesBounded` |

An order and a sign-in both hold the account's row until they commit, and
`ErasureIsAlone` says that the erasure, once it has the row, is the only one
who does: `OpenOrdersLive` follows, and with it that the last statement of the
erasure sees every order.  `AddressBookBounded` needs no locks but a count: a
save that passed the check leaves the others at most the requests in progress.

`CatalogueProofs` proves, for all sets of variants, prices, lists, carts, orders,
requests and seed runs, any limit, threshold and fee:

| Theorem | Statement |
|---|---|
| `Invariance` | `Spec => []IInv` |
| `AuditIsTrue` | `Spec => []AuditExplains` |
| `ShelfSurvivesSeeding` | `Spec => []SeedKeepsShelf` |
| `PaysWhatWasShown` | `Spec => []ChargedAsShown` |
| `QuotesHold` | `Spec => []QuotedCanBeReserved` |
| `NoUnconfirmedLeap` | `Spec => UnconfirmedChangesSmall` |

The seed writes what differs from an old read, into rows that may have moved on;
`AuditExplains` holds because the audit is written column by column in the same
way, and because the staff, who compare with what they have read, hold the row
(`StaffReadCurrent`).  It finds the entry of the last writer by the date its
transaction has to itself (`DatesApart`, `LogDated`); that this is the latest
date does not hold (section 5).  `CheckoutsSound` and `EntriesAsTaken` are what a checkout
may rely on: its rows hold enough, and what it will enter is what it takes,
unless a seed changed the policy (`strayed`).  `Sessional` restates these parts
as a condition on each transaction (`Sound`) and on each two (`Apart`), so that
`TxnStep` covers every step that writes no row and `CloseStep` every commit.

Only model-checked: the five liveness properties, `HoldsGetResolved`,
`RefundsGetMade`, `FlagFollowsBand`, `StuckRefundsAlerted` and `StaleTokensGo`.
They hold under fairness, whose `ENABLED` no installed prover reasons about.
Every invariant, action property and refinement of a passing run has its theorem;
for `MoneyFollowsOrder` and `RefundedMeansReturned` the theorem has the hypothesis
of the run, one link per order, and for the first `SerialSpec`.

## 5. Where the code and its own words differ

| Run | Statement | What happens |
|---|---|---|
| `captured` | order_service.py:760 "not a payment silently left CAPTURED against a CANCELLED order forever" | a cancel commits between the capture's read and its write; the branch that would refund is never taken |
| `charge` | order_service.py:1361 "must refuse rather than risk a second charge" | the old link is neither cancelled nor polled, both can be paid |
| `reuse` | tests/test_token_revocation.py:79 reuse "revokes every live session for the user" | the revocation is part of the transaction that the `Unauthorized` raised next rolls back; the test calls the service without the route |

Others were met on the way and are not kept as runs.  Payments: the webhook and
the polled callback of one payment carry different ids, so a second report can
reach a cancelled order already refunded and queue its refund again
(order_service.py:753, against 1149 "at most once per order"); staff may mark an
unpaid cancelled order refunded, and a payment of its open link is then recorded
nowhere (order_service.py:728, against 782 "a routine duplicate delivery of a
capture already applied"); a queued refund the owner makes in the dashboard
stays queued, because the event is ignored on a finished order and the sweep's
call is refused (order_service.py:808, against main.py:156, which sends the
owner there); the failure
event of a link that a retry replaced still cancels the order while the new hold
runs (order_service.py:788; tests/test_payment_retry.py:56 has a retry extend the
hold); a retry that loses the payment row to a mismatch still returns its fresh link
(repositories/orders.py:416), and it renews the hold the mismatch had cleared
(repositories/orders.py:456).  The 15-minute hold of the README and of the
comment at order_service.py:757 is 20 minutes in the code (line 107).  A `payment.failed` event of an attempt before
the one that succeeded, if it arrives last, overwrites a captured payment with
failed (order_service.py:788), and a later cancel then queues no refund
(`_maybe_refund`): payments/base.py:59 does not tell a failed attempt from a
failed payment; `MoneyFollowsOrder` excepts it.  When the commit
after a refund call is lost, the next sweep's call is refused and the row stays
refund_pending, though the docstring of `process_pending_refunds` has it
"retried on the next sweep instead of being lost" (order_service.py:1223): the
refund is made, the order never says so.  Sessions: `POST /auth/logout` "revokes the
one session this refresh token belongs to" (routes/auth.py:70), but of a token
that a refresh has just replaced, or is replacing and commits first, its UPDATE
matches nothing: the answer is 204 and the session goes on with the successor
(repositories/refresh_tokens.py `revoke`, auth_service.py:206);
when the answer to a refresh is lost, the client tries again with the token it
has spent, is refused and signed out, though client.ts:118-124 has a network
failure keep the session; `signOut` does not stop a refresh in flight, whose
answer is saved afterwards (client.ts:158); models.py:526 has rows "never
deleted", `delete_expired` deletes them; no client calls `/auth/logout`, so
signing out leaves the server's row live.  Stock: a seed that changes a policy
between a checkout's pricing and its reservation makes the ledger entry and the
decrement disagree (order_service.py:569), and so does a cancellation of an
order placed under the other policy.  Checkout: a commit that fails after
`create_order` has returned leaves a payable link (order_service.py:609), while
order_service.py:27-30 has the failure of that step cancel it.  Delivery: a
wrong code is counted and the count rolled back with the Conflict
(order_service.py:1020), so the lockout of
tests/test_batch35_delivery_otp.py:229, which calls the service without the
route, does not come about; "ask staff to reissue it" (order_service.py:1016)
has no operation behind it; an order reassigned to nobody after it was packed is
in no agent's list, while repositories/delivery.py:183 has it back in "the
unassigned pool"; an agent whose order is reassigned between `get_one` and the
compare-and-swap still moves it, against repositories/delivery.py:154 "an agent
can never advance the status of a job that isn't theirs"; two accepts of one
agent can both pass the cap (delivery_service.py:143, "it's always the agent's
real current load").  COD: the refund of an order whose cash was collected
leaves its payment captured, while order_service.py:1184 has such orders "never
reach here with anything to refund".

The cap on active COD orders: two checkouts with different keys both count
before either commits (order_service.py:384), while order_service.py:349 has it
keep "the same account" from "several unfulfilled COD orders in flight at once".
Logout-all: routes/auth.py:79 has "every refresh token this user has ... revoked
immediately", but the successor that a concurrent refresh commits is not in the
snapshot of the UPDATE (repositories/refresh_tokens.py:101) and stays usable.
Pushes: the tokens Expo reports dead are deleted while the outbox is drained,
after the commit, and the session is then closed without another one, so they
come back (`Finish`), while push_service.py:12-14 has them pruned; a process
that stops after the commit takes its pushes with it, the flag stays up and the
alert is lost (`Crash`); a variant that is restocked and dips again between two
passes is not announced again.  Accounts: a sign-in whose account is erased
between its insert and its update ends in the RuntimeError that "should be
impossible" (users.py:193, `SignInVanished`); an address saved between the
DELETE and the UPDATE of an erasure survives it; an access token that is still
valid writes a profile, an address or an order on the erased account (the
"late" orders), and the next erasure is the only thing that would remove them;
an erasure anonymises orders that are still on their way, which then have no
address to go to; it leaves the person's push tokens; a sign-in does not look at
the status, so a suspended account gets fresh access tokens (db/models.py:114-117).
Catalogue: a line cut to the limit per order of a made-to-order variant is
reported as out of stock (pricing.py:116, against the comment at 47-54); a seed
overwrites nothing it read as equal, so a price the staff change in the meantime
stays, though scripts/seed.py has PRODUCTS as the full source of truth, and the
audit's old value need not be the one that was overwritten; and whether a seed
overlaps a change of the staff or two changes of the staff overlap, the audit's
dates are those at which the transactions began (models.py:517), so the entry
with the latest date need not say what the row holds, while admin.py:178 has
"every actual change ... recorded (old value, new value, actor, timestamp)"; a
made-to-order variant that is listed with a quantity gets it as stock without an
entry in the ledger (products.py:647), which disagree once its policy is changed
to tracked (none of today's PRODUCTS is); retiring or
renaming a product keeps its ledger entries, so a SKU that the script
"frees ... for reuse" (seed.py:340) starts with a sum other than its stock (`strayed`); the docstring of
`upsert_product` has the row of an old slug silently orphaned, while the script
deletes it; a product's own switch is looked at when pricing and not when
reserving.

## 6. Plan

In this order, each with its runs and, where noted, a proof:

1. done — `OrderState`, `OrderLifecycle`, `OrderPayments`, `OrderPaymentsProofs`.
2. done — `Sessions`, `SessionsProofs`.
3. done — `Checkout` with the stock ledger, `CheckoutProofs`.
4. done — `CodCash`, `Delivery`, `DeliveryProofs`.
5. done — `Alerts`, `AlertsProofs`: the outbox, the alerts, tickets and push
   tokens.
6. done — `Accounts`, `AccountsProofs`.
7. done — `Catalogue`, `CatalogueProofs`.
8. done — `Shop`, which `Checkout` implements.
9. The agent's location and the list of requests by distance; the retention
   sweeps (idempotency keys, webhook payloads).
10. done — proofs of `MoneyFollowsOrder`, `RefundedMeansReturned`,
   `NoFalseAlarm` and `NoUnitSoldTwice`, with `FiniteSums`.

Not modelled and why: screens, schemas, logging, configuration and the wire
formats carry no state the properties speak of.  `domain/geo.py` is
floating-point arithmetic and `core/money.py` range checks, without state.  The
rate limiter keeps a window of timestamps in one process and never awaits
between reading and writing it, so nothing interleaves; its limits are per
replica.  Migrations run once; the constraints of `db/models.py` that matter
(unique keys, foreign keys, non-negative stock) are part of the actions that
rely on them.
