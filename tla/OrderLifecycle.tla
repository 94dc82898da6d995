---------------------------- MODULE OrderLifecycle ----------------------------
(***************************************************************************)
(* Orders, their per-vendor slices and the stock those slices reserve.     *)
(*                                                                         *)
(* An Order (api/orders.py) carries one Vendor Fulfillment row per vendor. *)
(* Its status is moved by five parties that do not coordinate: the         *)
(* vendors' sites, whose events background jobs apply in any order         *)
(* (api/events.py); an admin; the payment gateway (api/payments.py); the   *)
(* expiry cron; and the checkout that creates it.                          *)
(*                                                                         *)
(* A vendor event and an admin request read the order in the snapshot of   *)
(* their transaction and write what follows from it at the end: two steps, *)
(* and whatever commits in between is missed, except that an admin's       *)
(* doc.save notices a change of the Order row itself.  The cron selects    *)
(* its batch and cancels the orders one by one.  What a checkout or a      *)
(* gateway callback writes depends on current rows only: one step.         *)
(*                                                                         *)
(* Each vendor sells one product here, so a slice has one quantity.  The   *)
(* vendors' sites are not part of the repository: the site* actions say    *)
(* what the hub may receive from them, in what order they may act.         *)
(***************************************************************************)
EXTENDS StockRow, FiniteSets

CONSTANTS
    Orders,        \* the orders shoppers may place
    Vendors,       \* the vendors that sell on the hub
    Qty,           \* Qty[o][v]: units of vendor v's product in order o
    OpeningStock,  \* OpeningStock[v]: units vendor v starts with
    Actors,        \* which of Parties act on orders once they are placed
    Workers,       \* the background workers, each with a job at a time
    Admins,        \* the admins' sessions, each with a request at a time
    MaxCallbacks,  \* bound: gateway callbacks per order
    MaxRequests    \* bound: admin requests in all

Parties == {"vendor", "admin", "gateway", "expiry", "redemption"}

ASSUME OrdersAssumption ==
    /\ Qty \in [Orders -> [Vendors -> Nat]]
    /\ OpeningStock \in [Vendors -> Nat]
    /\ Actors \subseteq Parties
    /\ Workers \cap Admins = {}
    /\ MaxCallbacks \in Nat
    /\ MaxRequests \in Nat

VARIABLES
    stock,      \* stock[v]: vendor v's Vendor Stock row
    status,     \* status[o]: Order.status, or whether o exists
    payment,    \* payment[o]: Order.payment_status
    slice,      \* slice[o][v]: Vendor Fulfillment.status
    site,       \* site[o][v]: what vendor v's own site records of o
    inbox,      \* vendor events the hub has recorded; any may be applied again
    outbound,   \* hub events on their way to a vendor
    jobs,       \* what each job or request has read and not yet acted upon
    expiring,   \* orders the cron has selected and not yet cancelled
    callbacks,  \* callbacks[o]: gateway answers so far
    requests,   \* admin requests so far
    settled     \* settled[o][v]: times the slice's stock was reserved, released
                \* and confirmed

vars == <<stock, status, payment, slice, site, inbox, outbound, jobs, expiring,
          callbacks, requests, settled>>

-----------------------------------------------------------------------------

FlowStatus == {"Pending", "Confirmed", "Preparing", "Out for Delivery", "Delivered"}
SliceStatus == FlowStatus \cup {"Cancelled"}
OrderStatus == SliceStatus \cup {"Refunded"}
PaymentStatus == {"Unpaid", "Partially Paid", "Paid", "Refunded"}

\* _FULFILLMENT_STATUS_ORDER.
Rank(s) == CASE s = "Pending" -> 0
             [] s = "Confirmed" -> 1
             [] s = "Preparing" -> 2
             [] s = "Out for Delivery" -> 3
             [] s = "Delivered" -> 4
             [] OTHER -> 5

VALID_ORDER_TRANSITIONS(s) ==
    CASE s = "Pending" -> {"Confirmed", "Cancelled"}
      [] s = "Confirmed" -> {"Preparing", "Cancelled"}
      [] s = "Preparing" -> {"Out for Delivery", "Cancelled"}
      [] s = "Out for Delivery" -> {"Delivered"}
      [] OTHER -> {}

\* The vendors of an order: each has a Vendor Fulfillment row.
Cart(o) == {v \in Vendors : Qty[o][v] > 0}

Placed(o) == status[o] \in OrderStatus

\* What a vendor's site reports and, in this order, when.
SiteStatus == {"unaware", "received", "Confirmed", "Preparing",
               "Out for Delivery", "Delivered", "Cancelled"}

Reports == {"Confirmed", "Preparing", "Out for Delivery", "Delivered", "Cancelled"}

Message == [type : Reports, order : Orders, vendor : Vendors]

Notice == [type : {"order.new", "order.cancel"}, order : Orders, vendor : Vendors]

\* The columns of the Order row whose change its modified timestamp tells.
OrderRow == [status : OrderStatus, payment : PaymentStatus, callbacks : Nat]

Slices == [Vendors -> SliceStatus \cup {"none"}]

\* An event that was accepted, and the order status to write ("same": leave it).
EventJob == [kind : {"event"}, type : Reports, order : Orders, vendor : Vendors,
             status : SliceStatus \cup {"none", "same"}]

\* An admin's request: the document as it was read, and what it shall become.
SaveJob(kind, targets) ==
    [kind : {kind}, to : targets, order : Orders, row : OrderRow, slices : Slices]

Idle == [kind |-> "idle"]
Job == {Idle} \cup EventJob
         \cup SaveJob("update", SliceStatus)
         \cup SaveJob("refund", {"Refunded"})
         \cup SaveJob("payment", {"Paid", "Partially Paid"})

Moves == [reserved : Nat, released : Nat, confirmed : Nat]
NoMoves == [reserved |-> 0, released |-> 0, confirmed |-> 0]
Reserved(m) == [m EXCEPT !.reserved = @ + 1]
Released(m) == [m EXCEPT !.released = @ + 1]
Confirmed(m) == [m EXCEPT !.confirmed = @ + 1]

TypeOK ==
    /\ stock \in [Vendors -> Row]
    /\ status \in [Orders -> OrderStatus \cup {"none", "failed"}]
    /\ payment \in [Orders -> PaymentStatus]
    /\ slice \in [Orders -> Slices]
    /\ site \in [Orders -> [Vendors -> SiteStatus]]
    /\ inbox \subseteq Message
    /\ outbound \subseteq Notice
    /\ jobs \in [Workers \cup Admins -> Job]
    /\ expiring \subseteq Orders
    /\ callbacks \in [Orders -> Nat]
    /\ requests \in Nat
    /\ settled \in [Orders -> [Vendors -> Moves]]

Init ==
    /\ stock = [v \in Vendors |-> OpeningRow(OpeningStock[v])]
    /\ status = [o \in Orders |-> "none"]
    /\ payment = [o \in Orders |-> "Unpaid"]
    /\ slice = [o \in Orders |-> [v \in Vendors |-> "none"]]
    /\ site = [o \in Orders |-> [v \in Vendors |-> "unaware"]]
    /\ inbox = {}
    /\ outbound = {}
    /\ jobs = [w \in Workers \cup Admins |-> Idle]
    /\ expiring = {}
    /\ callbacks = [o \in Orders |-> 0]
    /\ requests = 0
    /\ settled = [o \in Orders |-> [v \in Vendors |-> NoMoves]]

-----------------------------------------------------------------------------
(* Effects on the rows of the vendors in S, one UPDATE per order line.     *)

ReserveFor(o, S) ==
    /\ stock' = [v \in Vendors |->
                    IF v \in S THEN Reserve(stock[v], Qty[o][v]) ELSE stock[v]]
    /\ settled' = [p \in Orders |-> [v \in Vendors |->
                    IF p = o /\ v \in S THEN Reserved(settled[p][v]) ELSE settled[p][v]]]

ReleaseFor(o, S) ==
    /\ stock' = [v \in Vendors |->
                    IF v \in S THEN Release(stock[v], Qty[o][v]) ELSE stock[v]]
    /\ settled' = [p \in Orders |-> [v \in Vendors |->
                    IF p = o /\ v \in S THEN Released(settled[p][v]) ELSE settled[p][v]]]

ConfirmFor(o, S) ==
    /\ stock' = [v \in Vendors |->
                    IF v \in S THEN Recount(Deduct(stock[v], Qty[o][v])) ELSE stock[v]]
    /\ settled' = [p \in Orders |-> [v \in Vendors |->
                    IF p = o /\ v \in S THEN Confirmed(settled[p][v]) ELSE settled[p][v]]]

\* Webhook Events queued for the vendors in S.
Notify(type, o, S) ==
    outbound' = outbound \cup {[type |-> type, order |-> o, vendor |-> v] : v \in S}

SetSlices(o, S, s) ==
    slice' = [slice EXCEPT ![o] = [v \in Vendors |-> IF v \in S THEN s ELSE @[v]]]

-----------------------------------------------------------------------------
(* Checkout (api/orders.py:90-274).                                        *)

\* Every vendor's UPDATE finds enough: the order is inserted and order.new is
\* queued for each vendor.
Checkout(o) ==
    /\ status[o] = "none"
    /\ Cart(o) # {}
    /\ \A v \in Cart(o) : CanReserve(stock[v], Qty[o][v])
    /\ ReserveFor(o, Cart(o))
    /\ status' = [status EXCEPT ![o] = "Pending"]
    /\ SetSlices(o, Cart(o), "Pending")
    /\ Notify("order.new", o, Cart(o))
    /\ UNCHANGED <<payment, site, inbox, jobs, expiring, callbacks, requests>>

\* The batch raises at the first vendor that falls short.  It has returned
\* nothing yet, so the except clause has nothing to release; the error is
\* turned into a response and the request commits the vendors already served.
CheckoutShort(o) ==
    /\ status[o] = "none"
    /\ \E v \in Cart(o) :
        /\ ~CanReserve(stock[v], Qty[o][v])
        /\ \E S \in SUBSET {u \in Cart(o) \ {v} : CanReserve(stock[u], Qty[o][u])} :
             ReserveFor(o, S)
    /\ status' = [status EXCEPT ![o] = "failed"]
    /\ UNCHANGED <<payment, slice, site, inbox, outbound, jobs, expiring, callbacks, requests>>

\* Redeeming the loyalty points fails in after_insert (another order spent
\* them first): the reservation is undone, but the inserted row is committed,
\* and its vendors never hear of it.
CheckoutRedeemFails(o) ==
    /\ "redemption" \in Actors
    /\ status[o] = "none"
    /\ Cart(o) # {}
    /\ \A v \in Cart(o) : CanReserve(stock[v], Qty[o][v])
    /\ status' = [status EXCEPT ![o] = "Pending"]
    /\ SetSlices(o, Cart(o), "Pending")
    /\ stock' = [v \in Vendors |->
                    IF v \in Cart(o)
                    THEN Release(Reserve(stock[v], Qty[o][v]), Qty[o][v])
                    ELSE stock[v]]
    /\ settled' = [p \in Orders |-> [v \in Vendors |->
                    IF p = o /\ v \in Cart(o) THEN Released(Reserved(settled[p][v]))
                                             ELSE settled[p][v]]]
    /\ UNCHANGED <<payment, site, inbox, outbound, jobs, expiring, callbacks, requests>>

-----------------------------------------------------------------------------
(* The vendors' sites: outside the repository, as the hub may see them.    *)

SiteUnchanged ==
    UNCHANGED <<stock, status, payment, slice, jobs, expiring, callbacks, requests, settled>>

\* order.new is delivered.
SiteReceivesOrder(o, v) ==
    /\ [type |-> "order.new", order |-> o, vendor |-> v] \in outbound
    /\ outbound' = outbound \ {[type |-> "order.new", order |-> o, vendor |-> v]}
    /\ site' = [site EXCEPT ![o][v] = IF @ = "unaware" THEN "received" ELSE @]
    /\ UNCHANGED inbox
    /\ SiteUnchanged

SiteReports(o, v, s) ==
    /\ site' = [site EXCEPT ![o][v] = s]
    /\ inbox' = inbox \cup {[type |-> s, order |-> o, vendor |-> v]}
    /\ UNCHANGED outbound
    /\ SiteUnchanged

\* Accept, prepare (an optional step), dispatch, deliver.
SiteAdvances(o, v) ==
    \/ site[o][v] = "received" /\ SiteReports(o, v, "Confirmed")
    \/ site[o][v] = "Confirmed" /\ SiteReports(o, v, "Preparing")
    \/ site[o][v] \in {"Confirmed", "Preparing"} /\ SiteReports(o, v, "Out for Delivery")
    \/ site[o][v] = "Out for Delivery" /\ SiteReports(o, v, "Delivered")

SiteCancels(o, v) ==
    /\ site[o][v] \in {"received", "Confirmed", "Preparing", "Out for Delivery"}
    /\ SiteReports(o, v, "Cancelled")

\* The hub's cancellation is delivered; a delivered order stays delivered.
SiteHearsCancellation(o, v) ==
    /\ [type |-> "order.cancel", order |-> o, vendor |-> v] \in outbound
    /\ outbound' = outbound \ {[type |-> "order.cancel", order |-> o, vendor |-> v]}
    /\ site' = [site EXCEPT ![o][v] = IF @ = "Delivered" THEN @ ELSE "Cancelled"]
    /\ UNCHANGED inbox
    /\ SiteUnchanged

SiteStep(o, v) ==
    \/ SiteReceivesOrder(o, v)
    \/ SiteAdvances(o, v)
    \/ SiteCancels(o, v)
    \/ SiteHearsCancellation(o, v)

-----------------------------------------------------------------------------
(* Vendor events, applied by background jobs (api/events.py:263-394).      *)

\* Fault: the fastest slice decides.
DerivedStatusOfFastest(f, o) ==
    LET active == {v \in Cart(o) : f[v] # "Cancelled"}
    IN IF active = {} THEN "Cancelled"
       ELSE CHOOSE s \in {f[v] : v \in active} :
                \A v \in active : Rank(s) >= Rank(f[v])

\* The status of the slowest slice that is not cancelled.
DerivedStatus(f, o) ==
    LET active == {v \in Cart(o) : f[v] # "Cancelled"}
    IN IF active = {} THEN "Cancelled"
       ELSE CHOOSE s \in {f[v] : v \in active} :
                \A v \in active : Rank(s) <= Rank(f[v])

\* _recompute_order_status_from_fulfillments, with v's slice at s.  reload reads
\* the same snapshot again, but for the transaction's own write.
Recomputed(o, v, s) ==
    LET new == DerivedStatus([slice[o] EXCEPT ![v] = s], o)
    IN IF status[o] = "Refunded" \/ new = status[o] THEN "same" ELSE new

\* Fault: the slice is not looked at.
AcceptsCancelAgain(o, v) == status[o] \notin {"Delivered", "Cancelled"}

\* The order, then the slice: the early returns of the three handlers.
AcceptsCancel(o, v) ==
    status[o] \notin {"Delivered", "Cancelled"} /\ slice[o][v] # "Cancelled"

AcceptsDelivery(o, v) == status[o] # "Delivered" /\ slice[o][v] # "Delivered"

AcceptsStatus(o, v, s) ==
    /\ s \in {"Confirmed", "Preparing", "Out for Delivery"}
    /\ s \in VALID_ORDER_TRANSITIONS(slice[o][v])

Accepts(o, v, s) ==
    \/ AcceptsStatus(o, v, s)
    \/ s = "Delivered" /\ AcceptsDelivery(o, v)
    \/ s = "Cancelled" /\ AcceptsCancel(o, v)

\* A job reads the order.  What it does not accept it leaves as it is: no step.
StartEvent(w, o, v, s) ==
    /\ "vendor" \in Actors
    /\ jobs[w] = Idle
    /\ [type |-> s, order |-> o, vendor |-> v] \in inbox
    /\ Accepts(o, v, s)
    /\ jobs' = [jobs EXCEPT ![w] =
                    [kind |-> "event", type |-> s, order |-> o, vendor |-> v,
                     status |-> Recomputed(o, v, s)]]
    /\ UNCHANGED <<stock, status, payment, slice, site, inbox, outbound, expiring,
                   callbacks, requests, settled>>

\* The writes that the handlers share.
WriteSlice(w) ==
    /\ SetSlices(jobs[w].order, {jobs[w].vendor}, jobs[w].type)
    /\ status' = [status EXCEPT ![jobs[w].order] =
                    IF jobs[w].status = "same" THEN @ ELSE jobs[w].status]
    /\ jobs' = [jobs EXCEPT ![w] = Idle]
    /\ UNCHANGED <<payment, site, inbox, outbound, expiring, callbacks, requests>>

\* order.confirmed, order.preparing, order.dispatched.
ApplyOrderStatus(w) ==
    /\ jobs[w].kind = "event"
    /\ jobs[w].type \in {"Confirmed", "Preparing", "Out for Delivery"}
    /\ WriteSlice(w)
    /\ UNCHANGED <<stock, settled>>

\* Fault: the slice is closed and its stock forgotten.
ApplyOrderDeliveredUndeducted(w) ==
    /\ jobs[w].kind = "event"
    /\ jobs[w].type = "Delivered"
    /\ WriteSlice(w)
    /\ UNCHANGED <<stock, settled>>

ApplyOrderDelivered(w) ==
    /\ jobs[w].kind = "event"
    /\ jobs[w].type = "Delivered"
    /\ ConfirmFor(jobs[w].order, {jobs[w].vendor})
    /\ WriteSlice(w)

\* Fault: one vendor's cancellation releases the whole order.
ApplyOrderCancelFromVendorWhole(w) ==
    /\ jobs[w].kind = "event"
    /\ jobs[w].type = "Cancelled"
    /\ ReleaseFor(jobs[w].order, Cart(jobs[w].order))
    /\ WriteSlice(w)

ApplyOrderCancelFromVendor(w) ==
    /\ jobs[w].kind = "event"
    /\ jobs[w].type = "Cancelled"
    /\ ReleaseFor(jobs[w].order, {jobs[w].vendor})
    /\ WriteSlice(w)

ApplyVendorEvent(w) ==
    \/ ApplyOrderStatus(w)
    \/ ApplyOrderDelivered(w)
    \/ ApplyOrderCancelFromVendor(w)

-----------------------------------------------------------------------------
(* The admin (api/orders.py:346-377 and 477-615).                          *)

RowOf(o) == [status |-> status[o], payment |-> payment[o], callbacks |-> callbacks[o]]

\* get_doc, and the checks that follow it.
StartSave(a, o, kind, to) ==
    /\ "admin" \in Actors
    /\ jobs[a] = Idle
    /\ Placed(o)
    /\ CASE kind = "update" -> to \in VALID_ORDER_TRANSITIONS(status[o])
         [] kind = "refund" -> status[o] # "Cancelled" /\ payment[o] # "Refunded"
         [] kind = "payment" -> payment[o] \notin {"Paid", "Refunded"}
    /\ requests < MaxRequests
    /\ requests' = requests + 1
    /\ jobs' = [jobs EXCEPT ![a] =
                    [kind |-> kind, to |-> to, order |-> o,
                     row |-> RowOf(o), slices |-> slice[o]]]
    /\ UNCHANGED <<stock, status, payment, slice, site, inbox, outbound, expiring,
                   callbacks, settled>>

\* doc.save raises when the Order row was modified since it was read.
Unmodified(a) == RowOf(jobs[a].order) = jobs[a].row

\* It writes the slices too, as they were read.
DocSave(a, s, p, slices) ==
    /\ status' = [status EXCEPT ![jobs[a].order] = s]
    /\ payment' = [payment EXCEPT ![jobs[a].order] = p]
    /\ slice' = [slice EXCEPT ![jobs[a].order] = slices]

\* on_order_updated: a save that leaves the order cancelled tells every vendor
\* whose slice was not delivered when it was read.
OnOrderUpdated(o, s, f) ==
    IF s = "Cancelled"
    THEN Notify("order.cancel", o, {v \in Cart(o) : f[v] # "Delivered"})
    ELSE UNCHANGED outbound

RequestEnds(a) ==
    /\ jobs' = [jobs EXCEPT ![a] = Idle]
    /\ UNCHANGED <<site, inbox, expiring, callbacks, requests>>

\* The slices still open take the order's status; the stock of every line is
\* then released or confirmed, whatever its slice had come to.
UpdateOrderStatus(a) ==
    /\ jobs[a].kind = "update"
    /\ Unmodified(a)
    /\ LET o == jobs[a].order
           s == jobs[a].to
           f == jobs[a].slices
       IN /\ DocSave(a, s, payment[o],
                     [v \in Vendors |->
                        IF v \in Cart(o) /\ f[v] \notin {"Delivered", "Cancelled"}
                        THEN s ELSE f[v]])
          /\ OnOrderUpdated(o, s, f)
          /\ CASE s = "Cancelled" -> ReleaseFor(o, Cart(o))
               [] s = "Delivered" -> ConfirmFor(o, Cart(o))
               [] OTHER -> UNCHANGED <<stock, settled>>
    /\ RequestEnds(a)

\* The stock is released and the vendors are told before the document is saved.
\* When the save raises, the error becomes a response and the rest is committed.
RefundOrder(a) ==
    /\ jobs[a].kind = "refund"
    /\ ReleaseFor(jobs[a].order, Cart(jobs[a].order))
    /\ Notify("order.cancel", jobs[a].order, Cart(jobs[a].order))
    /\ IF Unmodified(a)
       THEN DocSave(a, "Refunded", "Refunded", jobs[a].slices)
       ELSE UNCHANGED <<status, payment, slice>>
    /\ RequestEnds(a)

\* apply_partial_payment: paid in full confirms a pending order, without its
\* slices; anything less is recorded but never added up.
ApplyPartialPayment(a) ==
    /\ jobs[a].kind = "payment"
    /\ Unmodified(a)
    /\ LET s == IF jobs[a].to = "Paid" /\ jobs[a].row.status = "Pending"
                THEN "Confirmed" ELSE jobs[a].row.status
       IN /\ DocSave(a, s, jobs[a].to, jobs[a].slices)
          /\ OnOrderUpdated(jobs[a].order, s, jobs[a].slices)
    /\ RequestEnds(a)
    /\ UNCHANGED <<stock, settled>>

\* A transaction is rolled back: a save that comes first raises, a worker is
\* killed, or the database breaks a deadlock.
RollBack(w) ==
    /\ jobs[w] # Idle
    /\ jobs' = [jobs EXCEPT ![w] = Idle]
    /\ UNCHANGED <<stock, status, payment, slice, site, inbox, outbound, expiring,
                   callbacks, requests, settled>>

-----------------------------------------------------------------------------
(* The gateway's answers (api/payments.py:408-491).                        *)

Callback(o) ==
    /\ "gateway" \in Actors
    /\ Placed(o)
    /\ callbacks[o] < MaxCallbacks
    /\ callbacks' = [callbacks EXCEPT ![o] = @ + 1]

MarkOrderPaid(o) ==
    /\ Callback(o)
    /\ payment[o] # "Paid"
    /\ payment' = [payment EXCEPT ![o] = "Paid"]
    /\ UNCHANGED <<stock, status, slice, site, inbox, outbound, jobs, expiring,
                   requests, settled>>

\* Fault: a payment status that Order does not know.
MarkOrderFailedAsFailed(o) ==
    /\ Callback(o)
    /\ payment' = [payment EXCEPT ![o] = "Failed"]
    /\ ReleaseFor(o, Cart(o))
    /\ UNCHANGED <<status, slice, site, inbox, outbound, jobs, expiring, requests>>

\* Neither the order's status nor its payment is looked at first.
MarkOrderFailed(o) ==
    /\ Callback(o)
    /\ payment' = [payment EXCEPT ![o] = "Unpaid"]
    /\ ReleaseFor(o, Cart(o))
    /\ UNCHANGED <<status, slice, site, inbox, outbound, jobs, expiring, requests>>

-----------------------------------------------------------------------------
(* The expiry cron (api/orders.py:618-645).                                *)

Expirable == {o \in Orders : status[o] = "Pending" /\ payment[o] = "Unpaid"}

\* The SELECT: whichever of the expirable orders are old enough.
ExpiryScan ==
    /\ "expiry" \in Actors
    /\ expiring = {}
    /\ \E S \in SUBSET Expirable : S # {} /\ expiring' = S
    /\ UNCHANGED <<stock, status, payment, slice, site, inbox, outbound, jobs,
                   callbacks, requests, settled>>

\* One order of the batch, in a transaction of its own: set_value, so the
\* slices and the vendors are left as they are.
ExpireOrder(o) ==
    /\ o \in expiring
    /\ expiring' = expiring \ {o}
    /\ ReleaseFor(o, Cart(o))
    /\ status' = [status EXCEPT ![o] = "Cancelled"]
    /\ UNCHANGED <<payment, slice, site, inbox, outbound, jobs, callbacks, requests>>

-----------------------------------------------------------------------------

CheckoutStep(o) == Checkout(o) \/ CheckoutShort(o) \/ CheckoutRedeemFails(o)

SomeSite ==
    /\ "vendor" \in Actors
    /\ \E o \in Orders, v \in Vendors : SiteStep(o, v)

WorkerStep(w) ==
    \/ \E o \in Orders, v \in Vendors, s \in Reports : StartEvent(w, o, v, s)
    \/ ApplyVendorEvent(w)

AdminStep(a) ==
    \/ \E o \in Orders :
        \/ \E s \in SliceStatus : StartSave(a, o, "update", s)
        \/ StartSave(a, o, "refund", "Refunded")
        \/ \E p \in {"Paid", "Partially Paid"} : StartSave(a, o, "payment", p)
    \/ UpdateOrderStatus(a)
    \/ RefundOrder(a)
    \/ ApplyPartialPayment(a)

Next ==
    \/ \E o \in Orders : CheckoutStep(o)
    \/ SomeSite
    \/ \E w \in Workers : WorkerStep(w)
    \/ \E a \in Admins : AdminStep(a)
    \/ \E w \in Workers \cup Admins : RollBack(w)
    \/ \E o \in Orders : MarkOrderPaid(o) \/ MarkOrderFailed(o)
    \/ ExpiryScan
    \/ \E o \in Orders : ExpireOrder(o)

Spec == Init /\ [][Next]_vars

-----------------------------------------------------------------------------
(* What must hold, whoever acts.                                           *)

\* However often slices are released or confirmed, no row goes negative
\* (api/stock.py:309-414).
StockNonNegative ==
    \A v \in Vendors : stock[v].available >= 0 /\ stock[v].reserved >= 0

\* A vendor's slice counts as delivered only once its stock was deducted, even
\* where a stale admin request writes slices back (api/events.py:323-331,
\* api/orders.py:371-375).
DeliveredIsDeducted ==
    \A o \in Orders, v \in Vendors :
        slice[o][v] = "Delivered" => settled[o][v].confirmed > 0

\* An event from one vendor leaves the slices and the stock of every other
\* vendor alone (README.md:159-161, api/events.py:299-394).
VendorsIsolated ==
    [][\A w \in Workers : ApplyVendorEvent(w) =>
        \A o \in Orders, u \in Vendors \ {jobs[w].vendor} :
            slice'[o][u] = slice[o][u] /\ stock'[u] = stock[u]]_vars

-----------------------------------------------------------------------------
(* What holds as long as only vendors act on orders and one worker applies *)
(* their events, in whatever order.                                        *)

\* Each reservation is settled at most once, as a release or as a delivery.
\* (api/events.py:317-325 and 366-375: the early returns of the handlers).
SettledOnce ==
    \A o \in Orders, v \in Vendors :
        settled[o][v].released + settled[o][v].confirmed <= settled[o][v].reserved

\* An order is exactly as advanced as its slowest slice that is not cancelled,
\* and cancelled when all are, in whatever order the vendors' events come
\* (api/orders.py:48-77).
StatusFollowsSlices ==
    \A o \in Orders : Placed(o) =>
        LET active == {v \in Cart(o) : slice[o][v] # "Cancelled"}
        IN /\ active = {} => status[o] = "Cancelled"
           /\ active # {} => \E v \in active : status[o] = slice[o][v]
           /\ \A v \in active : Rank(status[o]) <= Rank(slice[o][v])

\* With no one but the vendors acting, reserving, releasing and confirming
\* implement Settlement: no unit is sold twice or put back twice, and a
\* delivered line is never put back on sale (api/stock.py:10-16).
ClaimOf(m) ==
    IF m.confirmed > 0 THEN "taken"
    ELSE IF m.released > 0 THEN "returned"
    ELSE IF m.reserved > 0 THEN "held"
    ELSE "none"

Promise == INSTANCE Settlement WITH
    Opening <- OpeningStock,
    free <- [v \in Vendors |-> stock[v].available],
    claim <- [o \in Orders |-> [v \in Vendors |-> ClaimOf(settled[o][v])]]

ImplementsSettlement == Promise!Spec

-----------------------------------------------------------------------------
(* What the documentation says, and the code breaks.                       *)

\* "if any reservation fails -> rollback all previous reservations"
\* (IMPLEMENTATION.md:474, api/orders.py:206-220): a checkout that fails leaves no
\* stock reserved.
FailedCheckoutHoldsNothing ==
    \A o \in Orders : status[o] = "failed" =>
        \A v \in Vendors : settled[o][v].reserved = settled[o][v].released
=============================================================================
