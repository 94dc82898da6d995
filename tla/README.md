# SaathiMart, verified in TLA+

SaathiMart is the hub of a marketplace: a Frappe application that holds one
catalogue and one cart for many vendors, takes orders, splits them by vendor, and
exchanges events with each vendor's own ERP site. This directory holds TLA+
models of its core, the TLC runs that check them on small instances, and TLAPS
proofs of what holds for every instance. Paths below are relative to `src/`;
`api/` and `events/` are `src/saathimart/api/` and `src/saathimart/events/`.

1. [The system](#1-the-system)
2. [The modules and how they correspond to the code](#2-the-modules)
3. [Atomicity: what is one step and why](#3-atomicity)
4. [The runs](#4-the-runs)
5. [Fairness](#5-fairness)
6. [What is proved](#6-what-is-proved)
7. [Where the code and its documentation disagree](#7-disagreements)
8. [What is only model-checked, and what is not modelled](#8-limits)
9. [The plan](#9-the-plan)

## 1. The system

The processes are: gunicorn request workers (shoppers, admins, vendors' sites, the
payment gateways' callbacks), one or two background workers per queue (the
`Procfile` starts one, the production compose file two), and the scheduler whose
jobs `hooks.py` lists. They share MariaDB (transactions at REPEATABLE READ,
committed at the end of a request or job) and Redis (job queues, counters, marks).
Nothing else synchronises them.

| Component | State | Operations | Interacts with |
|---|---|---|---|
| **Vendor stock** `api/stock.py`, `reconciliation.py`, `stock_snapshot.py` | Vendor Stock rows (available, reserved, physical, last event id and number), Stock Ledger Entry, Product.stock_qty | reserve, release, confirm; apply a vendor's stock event; reconcile; correct a reported difference; Product.save | called by orders, payments, expiry, vendor events |
| **Orders and fulfilment** `api/orders.py`, `doctype/order` | Order (status, payment status), one Vendor Fulfillment per vendor | checkout, status override, refund, partial payment, expiry, derived status | reserves stock, queues events, is moved by vendor events and payments |
| **Vendor events received** `api/events.py` | Webhook Event rows of direction In | receive, bulk receive, apply (order, stock, price, barcode, settlement), archive | a job per event writes orders, stock and listings |
| **Payment callbacks** `api/payments.py` | Payment Log, Order.payment_status | initiate, verify, poll, mark paid, mark failed | release stock, post entries, queue `payment.received` |
| **Outbound events** `events/publisher.py`, `api/event_ordering.py`, `event_dedup.py`, `fallback_delivery.py` | Webhook Event rows, Vendor.last_event_seq, fingerprints and the processed mark in Redis | publish, deliver, drain sweep, fall back to polling | gated by vendor health |
| **Vendor health** `api/circuit_breaker.py`, `partial_failure.py`, `connection_pool.py` | breaker and counters in Redis | record, allow, reset, force | defers deliveries |
| **Coupons, loyalty, payouts, delivery slots, carts** | counters and entries of their own | check, then count | called at checkout, by refunds or by cron |
| **Totals and membership** `api/totals.py`, `membership.py` | fields of one order; Customer Membership | arithmetic; sell, expire, reopen | called by every save of an order |
| **Accounting, ERPNext** `api/accounting.py`, `setup_accounts.py`, `erpnext_sync.py` | GL Entry, the cached accounts, sync status of an order | post, set up, export | posted to by payments, refunds, settlements |
| **Accounts, rate limits, secrets** `api/auth_full.py`, `utils.py`, `rate_limiter.py`, `secret_rotation.py` | Pending Verification, counts in Redis, a vendor's secrets | sign up, verify, reset; count; rotate | in front of every request |
| **Catalogue, search, content** `api/products.py`, `search.py`, `home.py`, `cms.py`, `admin_products.py` | listings, products, cached answers | choose a vendor, show, edit, invalidate, make variants | read by the storefront, the cart and the totals |
| **Notifications** `api/push_notifications.py` | SM Notification Device | register, unregister, age | sent to on order events |
| **Reports, audit, health, seeds** | single records, output | read, archive | none that matters here |

What makes it hard, and the property each part lives by:

* *Stock.* Orders change a row by one atomic UPDATE; stock events, reconciliations
  and corrections read it first and write absolute totals later. Rows must not go
  negative, the reserved quantity must be what open orders hold, an event must not
  count twice and an old one must not count at all.
* *Orders.* Five parties move an order without coordinating: vendors through events
  that arrive late, twice or out of order; an admin with a document read earlier;
  the gateway; the expiry cron; the checkout that may fail halfway. A reservation
  must be settled once, a delivered slice must have been deducted, and the order's
  status must follow its slices.
* *Delivery.* Jobs of one vendor run in parallel, answers are lost after the push
  was processed, workers die, sweeps enqueue rows selected earlier, and the mark
  that orders the events is read before the push and written after. A vendor must
  not see an event before its predecessors, no event may be lost, and one that
  nothing holds back must be served in the end.
* *Publishing.* A vendor's numbers are taken by transactions that overlap, fail and
  are retried, while the marks that recognise repetitions are in Redis and outlive
  a rollback. Numbers must follow commits, and nothing but a repetition be dropped.
* *Counters.* Coupons, points, payouts, slots, rate limits and the breaker are
  checked, then counted, without a lock between. What they promise is a limit, to
  be passed by no more than runs at once.
* *Money.* An order is priced again at every save, by four discounts that come off
  one another; a payment is booked by whichever request first sees no entry; the
  export to ERPNext commits once a day. Nothing may be charged, booked, owed or
  exported twice without a cause that can be named.
* *What a shopper sees.* Five surfaces choose a vendor by code of their own, behind
  caches that nothing deletes. What is shown must be deliverable at that price, and
  not older than the caches on its way.
* *Accounts.* Codes, secrets and phones change hands while requests that read them
  are under way. The last code must work and only once, a push signed before a
  rotation must be accepted after it, a phone must show its user's messages only.

`PROJECT.json` lists the components with their status and every hazard at the line
where it bites, with the properties that watch it.

## 2. The modules

```
StockRow ─┬─ VendorStock ──── MCVendorStock        StockRowProofs
          │        └───────── VendorStockProofs ──────┘   │
          └─ OrderLifecycle ─ MCOrderLifecycle            │
                 │  └──────── OrderLifecycleProofs ───────┘
                 └ refines Settlement
EventDelivery ─────────────── MCEventDelivery
       └───────────────────── EventDeliveryProofs
Publishing, Payouts ───────┐ EXTENDS
Ledger, ErpSync            │
ChartOfAccounts            │        ┌─ MCHub
CircuitBreaker, ErrorBudget├─ Hub ──┼─ HubProofs
RateLimits, AuthFailures   │        └─ LedgerProofs ─┐
SecretRotation             │ INSTANCE                │
PriceUpdates               │                         │
OneTimeCodes, Devices ─────┘                     SumProofs
Memberships ───────────────┐ EXTENDS                 │
Carts, Coupons, Loyalty    │                         │
DeliverySlots, OrderTotals ├─ Shop ─┬─ ShopProofs ───┘
VendorChoice, PriceCaches  │        └─ MCShop
CmsCache, Variants ────────┘ INSTANCE
EsewaPayments
```

Where a module defines an operator marked *Fault*, it is a plausible mistake in the
definition that follows it, used to confirm that a property notices. No
specification refers to it.

`Hub` and `Shop` put components side by side that share no record: a variable `part`
says which one a behaviour is about, the others keep their first state. That keeps
twenty-three components in two runs without multiplying their states. `MCHub` and
`MCShop` give their constants small values; the `Proofs` modules prove their
properties for all values that the named assumptions of `Hub` and `Shop` allow, which TLC
evaluates on the small ones. A property named after several things is a conjunction
whose conjuncts are stated, with a comment each, at the end of the component's module.

### StockRow

The arithmetic of one Vendor Stock row, one operator per SQL UPDATE of
`api/stock.py:272-414`: `CanReserve` is the WHERE clause, `Reserve`, `Release`,
`Deduct`, `Recount` the SET clauses with their `GREATEST(..., 0)` clamp (`Drop`),
`Overwrite` the absolute write of a stock event or reconciliation, `Corrected` that
of `correct_or_flag`. Quantities are integers.

### VendorStock

One product at one vendor, a row per warehouse, and everything that writes to it.

| Model | Code |
|---|---|
| `rows`, `present`, `seen` | quantities, existence, and `last_event_id` / `last_event_seq` of each row |
| `stockQty` | Product.stock_qty as `make_entry` keeps it, the ledger's running balance |
| `jobs[p]` | what a worker has read and not yet written |
| `held`, `made`, `applied`, `corrections` | what orders were promised and how often things happened; the last three also bound the instance |
| `AtomicReserve`, `ReleaseReservation`, `ConfirmDeduction` | the order's UPDATEs: the statements name vendor and product only, hence every row |
| `StartEvent`, `FinishEvent` | `apply_stock_event`: `_validate_event`, `get_or_create`, the delta, the mark, the ledger entry |
| `StartReconcile`, `FinishReconcile` | `reconcile_vendor_stock` |
| `RecordStockSnapshotReport`, `CorrectOrFlag` | a vendor's discrepancy report and its correction within 5 % or one unit |
| `LoseInsertRace` | two transactions insert the same missing row: the second fails whole |
| `SyncStockFromVendors` | Product.save recomputes stock_qty from the rows |

The hourly `reconcile_stock_hourly` is not a writer: its query does not select the
row's name, so `correct_or_flag` gets None where the row belongs.

### OrderLifecycle, Settlement

| Model | Code |
|---|---|
| `status`, `payment`, `slice` | Order.status (`none` before, `failed` after a checkout that raised), payment_status, Vendor Fulfillment.status |
| `stock[v]` | vendor v's row, changed through the operators of StockRow; each vendor sells one product |
| `site`, `inbox`, `outbound` | external: what a vendor's site knows, the events it has pushed (kept, so each may be applied again and in any order), the hub's events on their way |
| `jobs` | the order as a worker or an admin's request has read it |
| `expiring` | the batch the cron selected and has not finished |
| `settled` | history: how often each slice was reserved, released, confirmed |
| `Checkout`, `CheckoutShort`, `CheckoutRedeemFails` | `create_order`, with its two ways to fail after stock has moved |
| `StartEvent`, `ApplyOrderStatus`, `ApplyOrderDelivered`, `ApplyOrderCancelFromVendor` | the three order handlers of `api/events.py:263-394`, whose early returns are `Accepts` |
| `DerivedStatus`, `Recomputed` | `_derive_order_status` and its caller |
| `StartSave`, `UpdateOrderStatus`, `RefundOrder`, `ApplyPartialPayment` | the admin's handlers: what they read, then what they save |
| `MarkOrderPaid`, `MarkOrderFailed` | the two outcomes of a gateway callback |
| `ExpiryScan`, `ExpireOrder` | the cron's SELECT, then one transaction per order |
| `OnOrderUpdated`, `Notify` | the events a save or a checkout queues |
| `RollBack` | a job or request whose transaction ends without effect |

`Actors` chooses which parties act, because most of what the code promises it
promises of the vendors' events alone. `Settlement` is the abstract specification of
a reservation, the lifecycle described at the head of `api/stock.py`: units of an
order line are free, held, then returned or taken, once. `OrderLifecycle` maps
`free` to the available quantities and `claim` to the history of each slice.

### EventDelivery

| Model | Code |
|---|---|
| `queue` | the Webhook Event rows in order of creation: number, priority, status, method, retry count, and whether a job for it is queued or at its request |
| `lastSeq`, `watermark` | Vendor.last_event_seq; the Redis key `sm_last_processed_seq:<vendor>` |
| `sweep` | rows `drain_event_queue` has selected and not yet enqueued |
| `received` | history: numbers the vendor's site was ever sent |
| `Enqueue` | `_enqueue`: the number is taken under the vendor row's lock; scheduling the job may fail |
| `DrainSelect`, `EnqueueSwept`, `SkipSwept` | the sweep: by priority, then creation, `LIMIT` rows |
| `StartDelivery`, `DeferDelivery` | `_deliver_event` up to its request: the gap check; breaker, error budget or throttle |
| `DeliverySucceeds`, `DeliveryFails`, `DeliveryFallsBack`, `WorkerDies` | its ends; a request that got no good answer may still have reached the site |
| `WatermarkExpiry` | the key expires a day after its last write |

A job does not look at its row's status, so an event already Sent may be pushed
again by a stale sweep; this moves the watermark back, and is in the model. Dead
is not a state: for an event with a target vendor the fallback always claims it.

### Publishing, and what delivery takes from it

| Model | Code |
|---|---|
| `log`, `lastSeq` | the committed Webhook Event rows, Vendor.last_event_seq |
| `marks` | fingerprints in Redis, which no rollback takes back |
| `calls[c]` | how far a caller's `_enqueue` has come, and the rows its snapshot showed |
| `Ask`, `Skip`, `Mark` | `api/event_dedup.py`: look the fingerprint up, then set it; Redis may fail at either |
| `AskDatabase`, `Insert`, `Commit` | the lookup of the event_id, `next_seq` under the vendor row's lock, the insert against the unique index, the end of the transaction |
| `SwallowRefusal`, `Rollback` | a caller that catches the refusal and commits the number it took, or does not |
| `Expire` | the window of ten minutes ends |
| `lost`, `raced`, `marred`, `reopened`, `skipped` | history, used by the properties only |

`EventDelivery` starts where this ends: its `Enqueue` appends the next number, which is
`NumbersFollowCommits` together with no hole. Where two transactions race for one
event_id there is a hole (`HolesAreRaces` says nowhere else), and delivery stops at it
for good, as at an event left to the fallback.

### Vendor health

`CircuitBreaker` has the cached value `circuit` with the cooldowns it is still `kept`;
`Read` and `Write` are the two halves of `record_delivery_failure`,
`record_delivery_success` and `should_attempt_delivery`, which all read, change and write back
the whole value. `Failed`, `Succeeded` and `Allows` are what they change.
`ErrorBudget` is `api/partial_failure.py`: `ReadErrors`, `WriteErrors` are
`record_vendor_error`, whose key is that of the hour it started in;
`CheckErrorBudget` defers for half an hour; `Tick` lets the hour turn. `EventDelivery`
lets a delivery be deferred at any time, so its properties hold whatever these do.

### Vendor prices

`PriceUpdates` follows a `price.update` from receipt to the storefront. `rows`
and `jobs` are the Webhook Event and its job; `Receive` may fail to enqueue the job;
`StartJob` fixes what the job's transaction sees; `DropStale`, `ApplyPriceUpdate` and
`RefuseConflict` are its ends in `api/events.py`; `Archive` is the weekly move of old
rows, after which the same event_id is accepted again. The listing's save also
sets `display`, the cheapest price among the listings *as the job sees them*.

### Money

* `Payouts`: `Calculate` is the SELECT of `vendor_payout.py:43`, `Claim` the save of the
  totals and the stamping of the selected fulfilments; `Delete`, `MarkPaid`,
  `ApplySettlementReceived` the rest. A total is the set of fulfilments it adds up.
* `Ledger`: one order's entries. `Read` is what a request sees, `MarkOrderPaid`,
  `ApplyPartialPayment`, `RefundOrder` and `Settle` what it posts, as batches of legs. An
  account may be missing from the chart, then its leg is not inserted; a batch may
  stop after any leg, since its error is only logged. `Deals` are orders with their
  discounts; the amounts follow `record_order_payment_gl`.
* `ChartOfAccounts`: `GetAccount` is `_get_account` with the process's cache and its fallback
  keywords, beside `setup_platform_accounts` creating account after account.
* `ErpSync`: `StartDailySync`, `PushDaily`, `CommitDailySync` and `DailySyncDies` are
  `run_daily_sync`, whose writes become visible at its end only;
  `SyncSingleOrder` is the administrator's. `remote` is the other site (external).
* `EsewaPayments`: `InitiatePayment` names an attempt after the order and the second;
  `EsewaSuccess`, `EsewaFailure` look up what came back; `PollPendingEsewaOrders` asks for the
  bare order name.

### Accounts and access

* `OneTimeCodes`: `Compare` and `FinishVerification` are the two halves of `verify_signup_otp`
  and `verify_forgot_password_otp`; `ResendOtp` first renews the record it finds. `Expire`,
  `FindExpired` and `CleanupExpired` are the three ways a record ends.
* `RateLimits`: `Check`, `Pass`, `Expire`, one model of the three copies of that code.
* `AuthFailures`: `CheckPasses`, `CheckBlocks`, `VerifiedPush`, `RefusedPush`, `RecordFailure` are
  `verify_hub_secret` with `api/rate_limiter.py` around it.
* `SecretRotation`: `MakeSecret`, `StageReaches`, `Flip`, `PromoteReaches` and `Abandon` are
  the phases of `rotate_vendor_secret` on both sites; `Sign` and `Verify` a push
  that is under way meanwhile. `vendor` is external.
* `Devices`: `RegisterDevice` ends in the lookup, `InsertDevice` writes; a token that is
  known raises before it writes anything (`push_notifications.py:137`).

### What a shopper does

* `Carts`: `Open` and `LoginRead` read, every other action saves. `Save` is
  `Document.save`, which refuses a cart whose stamp moved and an empty one;
  `MarkCheckedOut` and the end of `Merge` are `db_set`, which does not look.
  `Write` is the guest's first line through the document API.
* `Coupons`: `Price` and `Save` validate, `Place` counts, `PlaceUncounted` is the
  swallowed failure, `PlaceFails` an order that is not inserted; `Refund` and
  `RefundAgain` take the use back before the save that may be refused.
* `Loyalty`: `Price` reads the balance, `Place` redeems, `PlaceRefused` fails after the
  order exists; `Deliver` and `Resave` earn (a delivered COD order earns again at each
  save), `ExpireOldPoints` and `CheckBirthdayRewards` are the crons.
* `DeliverySlots`: `StartBooking` counts, `FinishBooking` inserts; `Offered` is the
  listing's arithmetic, `Accepts` the booking's.
* `Memberships`: `StartSale` selects the active ones, `FinishSale` cancels those and
  inserts; `SetActive` is an admin's edit, `ExpireMemberships` the cron.
* `OrderTotals`: `TotalDiscount`, `MembershipDiscount`, `Redeemed`, `TaxRows` and the
  others are the functions of `api/totals.py` and `api/membership.py` over whole paisa. The
  state is an order's inputs, edited one at a time so that all combinations
  are visited.

### What a shopper sees

* `VendorChoice`: a state is a shop (active listings, zones, stock rows, distances, the
  selection mode) and a question. `Best`, `TemplateBest`, `PageOutside`, `Found`, `OnHome`,
  `SelectBest`, `EffectivePrice`, `CartPrice` are the resolvers of the product page, the
  catalogue, the search, the home feeds, the cart and the totals preview.
* `PriceCaches`: the age of the listing in each cached answer; an action per getter.
* `CmsCache`: `Read` and `Fill` are a getter's two halves, `Save` the hooks before the
  commit and `Commit` the commit; `Shown` says what each key's answer is.
* `Variants`: `CreateVariant`, `SkipCombination`, `FailCombination` are the loop of
  `create_variants`, `Deadlock` what the unique index makes of two of them,
  `DeleteVariant` the soft deletion.

## 3. Atomicity

Which steps may interleave decides everything here, so each choice has its reason.

* A statement `UPDATE ... SET x = x + q WHERE ...` reads the current committed row
  under its lock: one step, even in a transaction whose snapshot is older.
* A plain SELECT reads the transaction's snapshot, taken at its first read. A
  handler that computes from it and writes absolute values is two steps: what it
  read, then what it writes. Its own writes become visible together at commit, so
  there are no more than two. Vendor stock events, reconciliations, reports,
  vendor order events and admin requests are such handlers.
* A checkout, a gateway callback and the expiry of one order write only through
  UPDATEs and `set_value`, and what they read from the snapshot either cannot change
  or is not used for a decision: one step. The cron's SELECT of its batch is a step
  of its own, since each order of it is committed separately.
* `doc.save` compares the Order row's `modified` timestamp and raises if it moved.
  `Unmodified` compares the row's contents, which lets a save through where the row
  was changed and changed back: slightly more behaviours than the code's, never
  fewer. A slice is a row of its own table, and `frappe.db.set_value` on it does not
  touch the Order's timestamp, so the save does not notice it.
* When a handler raises, `handle_api_errors` turns the error into a response and the
  request commits what was written before. This is why a failed checkout and a
  failed refund leave something behind here.

## 4. The runs

`tlc -config X.cfg M` for each; the longest two take one to two minutes each.

| Run | Module, configuration | Checks | Shows |
|---|---|---|---|
| stock_events | MCVendorStock, `VendorStock_events.cfg` | ReservedIsHeld, AppliedAtMostOnce, SeqNeverRegresses | One worker, four events (a receipt, a counter sale that quotes the hub's quantity, an unnumbered adjustment, one over the size guard), each offered twice and in any order, one reconciliation or report, two orders, Product saves |
| stock_workers | MCVendorStock, `VendorStock_workers.cfg` | TypeOK, StockNonNegative | Two workers, two warehouses one of which has no row yet, so that two events race to create it, orders and a reconciliation between |
| stock_lost_update | MCVendorStock, `VendorStock_lost_update.cfg` | LedgerAgrees *(violated)* | A stock event overwrites a reservation committed after it read |
| orders_all | MCOrderLifecycle, `OrderLifecycle_all.cfg` | TypeOK, StockNonNegative, DeliveredIsDeducted | All parties on one order: three admin requests, a callback, a redemption that fails, expiry, the vendor's events |
| orders_vendor | MCOrderLifecycle, `OrderLifecycle_vendor.cfg` | SettledOnce, StatusFollowsSlices, VendorsIsolated, ImplementsSettlement | Two orders compete for a vendor's last unit, one of them a mixed cart; vendor events in any order and repeated |
| orders_short_checkout | MCOrderLifecycle, `OrderLifecycle_short_checkout.cfg` | FailedCheckoutHoldsNothing *(violated)* | A checkout that falls short at its second vendor keeps the first one's stock |
| delivery_all | MCEventDelivery, `EventDelivery_all.cfg` | TypeOK, InOrder, NothingLost | Three events of two vendors, two attempts each, every failure the model knows |
| delivery_live | MCEventDelivery, `EventDelivery_live.cfg` | DueIsServed | Two vendors, two priorities, a sweep that selects a single row |
| delivery_held | MCEventDelivery, `EventDelivery_held.cfg` | HeldEventsFollow *(violated)* | An event behind one left for polling is never delivered |
| hub_all | MCHub, `Hub_all.cfg` | TypeOK and the 13 properties below | Publishing, vendor health, prices, money, accounts |
| shop_all | MCShop, `Shop_all.cfg` | TypeOK and the 9 properties below | Carts, discounts, memberships, slots, totals, vendor choice, caches, variants |
| payments_lost | EsewaPayments, `EsewaPayments_lost.cfg` | CompletedIsPaid *(violated)* | A payment that eSewa completed is not recorded |

All properties but the violated ones have a fault, listed under `mutants` in
`PROJECT.json`, that makes them fail in the very same run. Of a conjunction only one is
listed; the modules define a fault for each of its other conjuncts too.

**hub_all** has 277 713 distinct states.

| Property | Says |
|---|---|
| NumbersFollowCommits | a vendor's events are committed in the order of their numbers, none twice |
| HolesAreRaces | a number is missing only where two transactions raced for one event_id |
| RepeatsAreDropped | a content is queued twice, or an event dropped, only for a cause named in the model: a window that ended, Redis failing, a race, a rollback |
| OwedOnce | a fulfilment is in one payout's total, one more per overwritten claim; no claim outlives its payout |
| BooksAgree | an order's payment, delivery and refund are booked once per overlapping request; journals balance; a payment's batch is out of balance by a known amount |
| ExportIsComplete | an order that counts as synced is in ERPNext, with one Sales Order and one invoice but for lost answers |
| LedgersAreSeparate | a process started on a complete chart posts no two keys to one account |
| LimitsHold | a rate limit, the guard of the webhook secret and the error budget let through, or hold back, what was counted and what overlapping requests lost |
| RotationKeepsPushes | a push signed before a rotation is accepted after it |
| CodesWorkOnce | the last sign-up code is the one that works, and a used code is on no record |
| BreakerCycle | an open circuit was opened by enough failures and is closed by successes of a test |
| PricesFollowEvents | an event reported Sent is in its listing, no listing goes back, the cheapest is shown unless jobs overlapped |
| PhonesAreOnesOwn | a phone shows one customer's messages, and none after that customer unregistered it |

**shop_all** has 553 422 distinct states, most of them shops and questions of VendorChoice
and combinations of discounts.

| Property | Says |
|---|---|
| OneMembershipApplies | two memberships are active only if sold at once or reopened by an admin |
| CouponLimitsHold | both limits are overshot by what runs at once and what the counter lost |
| PointsAreCovered | what was spent was earned, once per checkout at once; discounts are paid in points |
| SlotsAreSound | what is offered can be booked; a date is overbooked by races only |
| DiscountsAreSound | discounts together stay below the lines' total, taxes are paid in full, a second save changes nothing, the membership's ledger covers what it charged, the most specific rule wins |
| SurfacesAgree | catalogue, page, search, home, cart and totals agree on who can deliver and at what price |
| ShownIsRecent | a cached page is the committed one but for named causes; a price is no older than the caches on its way |
| MatrixIsReported | a combination is made once, what is reported created stays but for a deadlock's victims, what is refused is taken |
| CartsKeepTheirLines | an active cart has lines, a checked-out one stays as it was, a merge loses no unit |

Where a property is weaker than a reader hopes, the code makes it so, and the
exception is stated in it: bounds such as `MaxBusy - 1` and histories such as `races`,
`drift`, `reopened` and `overlapped` name what the code lets happen.

**Bounds.** Every bound is a constant guarding one action. `MaxApplied = 2` is what
a repeated event needs; `MaxOrders = 2` lets a reservation be taken from under a
reader and a second one compete with it. Two orders and two vendors are the
smallest mixed cart with a competitor; more vendors only repeat the roles. One
admin with three requests can read, be overtaken, and try again on what results.
Three events give a vendor a predecessor, a successor and a stale job at once, or
two vendors different progress; `MaxRetries = 2` separates a retry from the
fallback. `DrainLimit = 1` with two priorities is the sweep at its limit.
In the hub and the shop, two concurrent requests are what a check before a count
needs to go wrong, and a limit of one or two is what it takes to reach it;
Coupons has three orders of one phone and one of another, so that both limits can be
the one that refuses; SecretRotation's `MaxSecret = 3` is one rotation more than a
push may survive; PriceUpdates has a vendor with two events, so that they can be
applied in the wrong order; two matrices in Variants share a combination and two
slugs collide. Lifetimes (PriceCaches, CircuitBreaker, ErrorBudget, Devices) are
scaled to a few ticks and keep the order of the real ones. VendorChoice's distances and
limits lie on both sides of the radius. Beyond
these, the theorems of section 6 hold without bounds, and their invariants were
checked on these instances first.

`CHECK_DEADLOCK FALSE` is set in every configuration: the models stop once bounds are
used up and nothing is left to settle, as the shop is idle when nobody orders.
Symmetry among vendors is used in delivery_all only, whose properties are
invariants.

## 5. Fairness

Only the two runs delivery_live and delivery_held assume any; the specification there is
`FairSpec`. payments_lost is an invariant and needs none.

* `WF(DrainSelect)`: the scheduler starts the sweep every two minutes.
* `SF(EnqueueSwept(i))`: a row that sweep after sweep selects is enqueued by one of
  them. What skips it is an exhausted error budget, which lasts 30 minutes, or an
  enqueue that fails while Redis is down.
* `SF(StartDelivery(i))`: of the jobs that could push the event, one does. What turns
  them away is the breaker (open for five minutes), the budget, and the throttle
  (a count per minute). Strong rather than weak, because in between the job is gone
  and the event is not deliverable until the next sweep.
* `SF(FinishDelivery(i))`: of the requests made, one comes to an end; it has a timeout of
  ten seconds, and workers do not die for ever.

Nothing says that a push succeeds, that a watermark is ever advanced, or that it
survives. DueIsServed holds because a failing event is handed to the fallback after
its attempts. It is stated for an event that no gap holds back and that has fewer
than a sweep's limit ahead of it. Both conditions are needed: the violated run
shows the first, and 50 held rows of one vendor at the front of every sweep starve the
others, which `events/publisher.py:501-503` denies.

## 6. What is proved

For all values of the constants that the modules' assumptions allow, without the
bounds of section 4.

| Theorem | Says | Assumes besides the module's assumptions |
|---|---|---|
| VendorStockProofs!TypeCorrect | □TypeOK | - |
| VendorStockProofs!NeverNegative | □StockNonNegative | no vendor reports (`Reports = {}`): a correction checks nothing |
| VendorStockProofs!PromisesKept | □ReservedIsHeld | one warehouse, whose row exists: with more, an order line is reserved once per row |
| VendorStockProofs!OrdersAgree | □LedgerAgrees | orders alone; with a worker it is violated (stock_lost_update) |
| VendorStockProofs!SerialEvents, SerialNumbers | □AppliedAtMostOnce, SeqNeverRegresses | at most one worker |
| OrderLifecycleProofs!OrdersAreTyped, NeverNegative | □TypeOK, □StockNonNegative | - |
| OrderLifecycleProofs!VendorsSettleOnce | □SettledOnce | only vendors act, one worker |
| OrderLifecycleProofs!StatusKeepsPace | □StatusFollowsSlices | the same |
| OrderLifecycleProofs!VendorsKeepThePromise | implements Settlement | the same |
| OrderLifecycleProofs!DeliveredWasDeducted | □DeliveredIsDeducted | - |
| OrderLifecycleProofs!VendorsKeptApart | VendorsIsolated | - |
| EventDeliveryProofs!QueueIsTyped, DeliveredInOrder, SentWasReceived | □TypeOK, □InOrder, □NothingLost | - |
| HubProofs!CommittedInOrder, HolesComeFromRaces, OnlyRepeatsAreDropped | □NumbersFollowCommits, □HolesAreRaces, □RepeatsAreDropped | - |
| HubProofs!EachOwedOnce | □OwedOnce | - |
| LedgerProofs!BooksAlwaysAgree | □BooksAgree | - |
| HubProofs!LimitsAreKept | □LimitsHold | - |
| HubProofs!CodesAlwaysWorkOnce | □CodesWorkOnce | - |
| HubProofs!ExportStaysComplete | □ExportIsComplete | - |
| HubProofs!LedgersStaySeparate | □LedgersAreSeparate | - |
| HubProofs!RotationAlwaysKeepsPushes | □RotationKeepsPushes | - |
| HubProofs!BreakerKeepsItsCycle, PricesAlwaysFollowEvents, PhonesAreAlwaysOnesOwn | BreakerCycle, PricesFollowEvents, PhonesAreOnesOwn | - |
| ShopProofs!CouponLimitsAreKept, SlotsStaySound | □CouponLimitsHold, □SlotsAreSound | - |
| ShopProofs!PointsAreAlwaysCovered | □PointsAreCovered | - |
| ShopProofs!DiscountsAreAlwaysSound | □DiscountsAreSound | - |
| ShopProofs!SurfacesAlwaysAgree | □SurfacesAgree | - |
| ShopProofs!ContentsAndPricesAreRecent | □ShownIsRecent | - |
| ShopProofs!MatrixIsAlwaysReported | □MatrixIsReported | - |
| ShopProofs!OneAtATime, LinesAreAlwaysKept | □OneMembershipApplies, CartsKeepTheirLines | - |
| HubProofs!HubIsTyped, ShopProofs!ShopIsTyped | □TypeOK of each | - |

What `Hub` and `Shop` assume of their constants is what the code or its forms keep to,
with three exceptions that a reader should know of (the other assumptions say that a bound is
a number, that a limit is positive, and that what a first state chooses from is not empty):

* `ListingsAssumption`: `create_vendor_listing` keeps one listing of a product for a vendor.
  The desk form does not; where a second one without a zone has another priority, the card
  and the cart can show two prices of one vendor, so they are assumed to be ordered alike.
* `TotalsAssumption`: the percentages of coupons and of the onboarding table are at most
  100. No form refuses a coupon of 150 %, and with one DiscountsWithinNet would not hold.
* `LedgerAssumption`: the discounts of an order are at most its goods and taxes, which is
  what DiscountsWithinNet says of OrderTotals (so the two modules meet here), and a
  payout's commission is at most what the vendor sold.

The arguments:

* **StockRowProofs** states once what each UPDATE preserves and bounds; the
  theorems about rows cite these lemmas.
* **NeverNegative (stock).** A worker writes `read.available + delta`, whatever the
  row has become. The invariant therefore also says of every job in flight that the
  total it will write is non-negative, which the check at its start established
  and no other step disturbs, because the job's reading is its own.
* **PromisesKept.** With one existing row a reservation adds the same q to `reserved`
  and `held`, and the absolute writes leave `reserved` alone. The clamp never bites,
  since what is released is at most what is held.
* **SerialEvents.** `SerialInv` says of the job in flight that the number it will write
  is still above the row's mark, and that its event, if numbered, has not been
  applied yet: with one worker nobody else moves marks. An applied event's number
  is at most the mark of its row, so the comparison refuses it next time. Two
  workers break the first part, since both may compare with the same mark.
* **Orders, vendors only.** `SettledOnce` is not inductive. `VendorInv` adds:
  `Accounted`, each slice's status says how often its stock was reserved, released
  and confirmed; `OneEnd`, no site that reported Delivered ever reports Cancelled, or
  the other way round; `KnownSites` and `KnownMessages`, no message speaks of an
  order its site has not heard of; `WholeOrders`, an order has a slice for
  every vendor of its cart; `JobsCurrent`, what the one worker read is still
  so; and `StatusFollowsSlices`, without which a job could decide from an order
  status that does not fit its slices. Refinement then maps each accepted
  Delivered or Cancelled to Take or Return of a claim still held.
* **DeliveredWasDeducted** holds whoever acts. Its invariant adds `ReadDeducted`: each
  slice list in the hands of an admin's request shows as Delivered only what was
  deducted, and deductions are never taken back; so a request that writes back
  a stale list writes nothing false.
* **DeliveredInOrder.** The watermark moves both ways, so order cannot be read off it.
  What holds is that every number up to it was sent (`WatermarkReceived`), and that a
  job at its request, which passed the gap check against a watermark that may be gone
  by now, has all earlier numbers behind it (`SendingInOrder`). Both survive because
  `received` only grows.
* **Publishing.** `NumberInv`: at most one caller holds the vendor row's lock, and its
  number is one above `lastSeq` (`LockHeldOnce`); committed numbers are at most `lastSeq`; a
  commit therefore appends a larger number. The other three invariants rest on this
  one. `HoleInv` adds `RacesAreKnown`: two callers with one event_id, and a caller whose
  event_id was committed after its lookup, are in `raced`; so a refused insert is a race,
  and the number it loses is explained. `WindowInv` adds `WindowsAreMarked`: what
  is past its check or committed is marked or in `reopened`, and two of a content are
  in `reopened`. `SkipInv` adds `MarksAreAccounted`: every mark has a committed event, a
  caller under way, or a failed transaction, and none of the three disappears
  without leaving another (`StaysAccounted`).
* **EachOwedOnce** (and, like it, the theorems on publishing) goes through the refinement
  `Spec => PayoutsSpec`: what Hub does is a step of the component's or none.
  `CountedBeside` says that the payouts that count a fulfilment without
  holding its claim are at most the claims overwritten so far. A calculation that
  finds its fulfilments still unclaimed adds none; one that overwrites a claim adds one to
  both sides. A deletion takes its claims along, so no claim is orphaned.
* **OneAtATime.** `SalesSeeActive`: a sale under way has seen every membership that is
  active, but for those reopened or sold beside it. When it ends it cancels what
  it has seen, so only such exceptions can be left active next to it.

* **SumProofs.** A sum over a set is written with a recursion that picks its elements in
  some order. That it exists (`SumsExist`), that it depends neither on that order nor on
  the elements' names (`SumsAgree`, `SumRenamed`), and that it splits over parts
  (`SumOfParts`, `SumOfConcat`) is proved by induction on sets: the induction principles are
  stated of a set of numbers or of subsets (`NatInd`, `SubsetInd`), since the library's,
  which take an operator, cannot be cited. Points, tax rows, order lines, savings,
  postings and legs all rest on these lemmas.
* **BooksAlwaysAgree.** Two facts about a bag of batches. *Booked per overlap*: a request
  does not book what it saw booked when it started, so the requests that may book a kind
  again are those under way that have not seen it (`Unaware`). `OncePerOverlap`: bookings
  and unaware requests together are never more than the requests. A booking turns the one
  into the other, a request that starts later sees it, and one that ends books one of each
  kind at most (`AllReady`, also when the batch is cut short, `CutIsReady`). *Balance*: `Fair`
  says of each batch what its legs add up to when the chart has its accounts; it is shown
  of the five kinds leg by leg (`LegsAddUp`) and holds of a batch forever, because the
  order's amounts do not change.
* **PointsAreAlwaysCovered.** `PointsInv`: an order's points are earned once (`EarnedOnce`)
  and redeemed by one debit (`DebitedOnce`), and an order that is placed has paid for the
  discount it took (`DiscountsArePaid`). Spending is then compared with earning debit by debit.
* **DiscountsAreAlwaysSound.** A pure computation, for any basket and tables: each of the four
  discounts is bounded by what the ones before it leave (`CouponWithin`, `OnboardingWithin`,
  `MembershipWithin`, `RedeemedWithin`); a second pricing finds what the first one left
  (`Settles`); the membership's charge is spread over its lines with a rounding of at most
  half a paisa a line, so the ledger is off by no more than a paisa for each
  (`ShareRounds`, `LedgerCoversAny`).
* **Counters that are checked, then counted.** CouponsInv, SlotsInv, LimitsInv and AuthInv have
  one form: what counts already, together with what passed its check and will count, is at
  most the limit and one less than the requests that may run at once, and what is lost is
  added on the other side. The rest is arithmetic on cardinalities.
* **LinesAreAlwaysKept.** `Current`: whoever has a cart open for writing has in hand the lines
  that are in it, or will find the timestamp moved; so a save loses no line.
* **MatrixIsAlwaysReported.** That a failed combination has a twin is not inductive: the twin
  may be uncommitted and lost in a deadlock. `Explained` therefore admits a row of a transaction
  under way or one a deadlock took, and FailedIsTaken, which the run checks, was made to say so.
* **SurfacesAlwaysAgree** holds in each state by itself: the surfaces pick with different code,
  but each picks a least element of a set by a key, and the sets and keys of two surfaces
  agree where the property says (`BestByPlace`, `UnzonedFirst`, `RanksOfZones`).
* **ContentsAndPricesAreRecent.** An entry's age and its remaining lifetime add up to no more
  than what the layers below can hand it (`Ages`); a content that is not `behind` shows the
  rows as they are, in every layer and in every visitor's hands (`ContentInv`).
* **CodesAlwaysWorkOnce.** Records carry consecutive codes; `OneRecordPerCode` and
  `ComparedByName` say that a verification under way holds a code of the record it will
  delete; `OneSignup`, that signing up again replaces the record.
* **ExportStaysComplete.** `NamesAreExported`: a name in a row, or in the copy a run writes at
  its end, is of a document that was sent. `SentOnce` counts a document against the names
  and the mishaps.
* **PricesAlwaysFollowEvents.** A job's reading is at most its listing (`ReadsAreOlder`).
* **BreakerKeepsItsCycle.** `Counted` reads the streak of failures off the record; what a call
  under way has read satisfies it as well, since its write may replace the record.
* **RotationAlwaysKeepsPushes.** Until a second rotation crosses the first, the two sides are in
  one of three relations, `Unflipped`, `Flipped` or `Promoted`; in each the secret of a recent
  push is one the other side still accepts.
* **LedgersStaySeparate.** On a complete chart the first keyword of a key finds an account, so a
  process started on one has cached only accounts of first keywords, which no two keys share.
* **HubIsTyped, ShopIsTyped.** A type is seldom inductive alone: most of it is a conjunct of
  the invariant that proves the component's own property. Beyond those: a reader with a
  view in hand holds a key of the content it reads (`ContentTyped`), a request notes writes
  of carts it has read only (`CartsTyped`), the product's price is that of a listing
  (`CheapestIsPrice`), and an entry's age never exceeds the lifetimes on its way
  (`CachesTyped`).
* **PhonesAreAlwaysOnesOwn.** Rows and pending registrations of a token that was not registered
  twice at once are at most one.

## 7. Disagreements

Four claims of the code's own comments and documents are violated by what the code
does; the runs print the behaviour. They are listed under `findings`.

1. `api/stock.py:162` calls the stock event's write "atomic read-modify-write"; the read
   is a plain SELECT (stock_lost_update).
2. `IMPLEMENTATION.md:474`: a failed reservation rolls back the previous ones. The list
   of what to roll back is lost with the exception (orders_short_checkout).
3. `events/publisher.py:625-626`: a held event is delivered "once the gap fills".
   When the fallback fills it the watermark stays (delivery_held).
4. `api/payments.py:210-211`: the attempt's suffix is stripped when eSewa's redirect comes
   back. Nothing strips it, and the cron asks for a name that was never an attempt, so a
   completed payment is not recorded (payments_lost).

More of the kind, which the models contain but no run is spent on:

* `api/events.py:266-267`: the derived status "never outpaces the slowest vendor". With the
  two workers of the production compose file it does: raise `Workers` in
  `OrderLifecycle_vendor.cfg` and StatusFollowsSlices fails.
* `api/stock.py:367`: a reservation is undone "before delivery confirmation". An admin's
  cancellation releases a delivered slice (OrderLifecycle, UpdateOrderStatus).
* `api/constants.py:14`: nothing follows Cancelled. A vendor's late confirmation revives an
  order that expired, because the expiry leaves its slices alone.
* `api/secret_rotation.py:23-25` says "Every phase is safe to retry". A rotation run again after a
  crash between flip and promotion replaces both secrets the vendor still accepts,
  and the hub is locked out; hence `crossed` in RotationKeepsPushes.
* `push_notifications.py:120` speaks of a token that is reassigned; the lookup's tuple
  raises before it is.
* `api/products.py:259-266` describes tiers of listings that the loop at 289 does not follow.
* `vendor_payout.py` says an amount is only ever counted as owed once; two calculations at
  once count it twice (`races` in OwedOnce).
* `accounting.py` says all entries must balance; a payment's batch is out of balance by
  the vendors' clearing amount less what no account bears, which
  PaymentExcessIsClearing states exactly.

Read in the source on the way, and not modelled: a batch or snapshot event lacks
the mandatory unique `event_id`, so its insert fails; `next_retry_at` is set and nothing
reads it; `retry_failed_order_events` filters on a column that does not exist, and so
does `expire_abandoned_carts`; the CASE branches of a batch of two products of one
vendor are joined with `+`; the remark by which loyalty reimbursements are recognised
never matches; `redis_fallback`'s CREATE TABLE does not parse;
a second `sync_listing_to_vendor` reuses its event_id and is never sent; a status
`Refunded` is not an option of Payment Log.

## 8. Limits

*Hazards no property covers.* The list in `PROJECT.json` holds those a property watches.
These it does not:

* A partial payment confirms an order whose slices are Pending
  (`api/orders.py:589`), against the rule of `orders.py:50-51` that fulfilment decides. The
  step is in OrderLifecycle (`ApplyPartialPayment`), which is why StatusFollowsSlices is
  stated for vendors only. The amounts of several partial payments are not added up.
* A vendor's product in several warehouses has several rows, and the order's UPDATEs name
  only vendor and product (`stock.py:285`): each row is reduced. VendorStock models it;
  PromisesKept therefore assumes one warehouse.
* Two checkouts of the same vendors in opposite order lock rows crosswise
  (`orders.py:206`); MariaDB ends one of them, which `RollBack` stands for.
* A crash between a commit and what follows it: the notice of a payment
  (`payments.py:441`), of a settlement (`payouts.py:96`). Nothing records that it is
  still owed, so there is nothing to check but its absence.
* A double click on checkout makes two orders (`orders.py:244`); two logins
  that adopt a guest's cart leave two active ones; a checkout whose redemption fails leaves an
  order that nobody was told of (`doctype/order/order.py:47`).
* Product.stock_qty is written from two sources, the ledger and the sum of the rows.

*Only model-checked*: DueIsServed, since liveness under fairness (ENABLED) is beyond
the prover. Every other property of a passing run is a theorem. The four disagreements of
section 7 are counterexamples and stay with TLC. The library's induction theorems take an
operator, which no installed prover instantiates; SumProofs and the tax rows of OrderTotals
use induction over a set of numbers instead. No proved module declares RECURSIVE.

*Abstracted*: quantities are integers, amounts whole paisa; each vendor sells one
product in OrderLifecycle (several in one slice move together in one statement), and the
coupons, points and prices a checkout writes are in modules of their own; the vendors'
sites, eSewa and ERPNext are what the hub may receive from them. The Webhook Event rows
received are a set from which any may be applied again, which stands for retries, bulk
deliveries and duplicates alike (PriceUpdates has them as rows and jobs). Time is not
modelled in the first group of modules: whatever is old enough may be old enough at any
moment; where lifetimes matter (caches, breaker, budget, phones, memberships) it
passes in ticks.

*Composed only through what they promise*: components of MCHub and MCShop share
no record and are checked side by side, not interleaved. Where one relies on another it
takes its promise: EventDelivery takes Publishing's numbers, and lets the breaker and the
budget defer at will; OrderTotals takes any answer of Coupons, Loyalty and
Memberships.

*Not modelled*: the reports and housekeeping, seeds, migrations and deployment files
listed as `not_modelled`; and the parts named in the notes of components that are
`partly`: signatures and redirects of Khalti and ConnectIPS, geometry, ranking and
embeddings, reviews, wishlists, addresses, profiles, password rules, the sending of
messages, the in-process queue of `sse.py`. They are single reads or edits, output, or
computation in floating point, in which nothing interacts.

## 9. The plan

Done: vendor stock, orders with all their parties, outbound delivery; publishing, vendor
health, price events, money, accounts, carts, discounts, memberships, slots, totals,
vendor choice, caches, variants, eSewa. Proved: every type invariant, safety and action
property that a passing run checks, and the refinement of the first group.

Left, by weight:

1. **Publishing and EventDelivery as one specification**, so that a hole made by a race is
   seen to hold a vendor's later events, with DueIsServed stated on it.
2. **Payments** composed with OrderLifecycle and Publishing: the crash between commit and
   notice, Khalti and ConnectIPS.
3. An abstract limited counter that Coupons, DeliverySlots, RateLimits and AuthFailures
   each implement, with the overshoot as its parameter; its proof once for all.
4. DeliveredInOrder with numbers that have holes; the vendor theorems with an admin whose
   requests never touch a settled slice.
5. What is left when a refund's save fails; events of the order whose redemption failed.
