------------------------- MODULE OrderLifecycleProofs -------------------------
(***************************************************************************)
(* Theorems about OrderLifecycle, for every set of orders and vendors and  *)
(* every quantity.                                                         *)
(***************************************************************************)
EXTENDS OrderLifecycle, StockRowProofs

-----------------------------------------------------------------------------
(* The operators.                                                          *)

LEMMA RankNat == \A s : Rank(s) \in 0..5
  BY DEF Rank

\* Among any vendors there is one whose slice is the slowest.
LEMMA SlowestExists ==
    ASSUME NEW f, NEW A, A # {}
    PROVE  \E v \in A : \A u \in A : Rank(f[v]) <= Rank(f[u])
  <1>. DEFINE At(n) == \E v \in A : Rank(f[v]) = n
  <1>0. \A v \in A : Rank(f[v]) \in 0..5
        BY RankNat
  <1>1. CASE At(0)
        BY <1>0, <1>1
  <1>2. CASE ~At(0) /\ At(1)
        BY <1>0, <1>2
  <1>3. CASE ~At(0) /\ ~At(1) /\ At(2)
        BY <1>0, <1>3
  <1>4. CASE ~At(0) /\ ~At(1) /\ ~At(2) /\ At(3)
        BY <1>0, <1>4
  <1>5. CASE ~At(0) /\ ~At(1) /\ ~At(2) /\ ~At(3) /\ At(4)
        BY <1>0, <1>5
  <1>6. CASE ~At(0) /\ ~At(1) /\ ~At(2) /\ ~At(3) /\ ~At(4)
        BY <1>0, <1>6
  <1>. QED
        BY <1>1, <1>2, <1>3, <1>4, <1>5, <1>6

\* _recompute_order_status_from_fulfillments yields the status of one of the
\* slices still active, none of which is slower.
LEMMA DerivedIsSlowest ==
    ASSUME NEW o \in Orders, NEW f
    PROVE  LET active == {v \in Cart(o) : f[v] # "Cancelled"} IN
           /\ active = {} => DerivedStatus(f, o) = "Cancelled"
           /\ active # {} => /\ \E v \in active : DerivedStatus(f, o) = f[v]
                             /\ \A v \in active : Rank(DerivedStatus(f, o)) <= Rank(f[v])
  <1>. DEFINE active == {v \in Cart(o) : f[v] # "Cancelled"}
              Slowest(s) == \A v \in active : Rank(s) <= Rank(f[v])
  <1>1. CASE active = {}
        BY <1>1 DEF DerivedStatus
  <1>2. CASE active # {}
    <2>1. \E s \in {f[v] : v \in active} : Slowest(s)
      <3>1. PICK v \in active : \A u \in active : Rank(f[v]) <= Rank(f[u])
            BY <1>2, SlowestExists
      <3>. QED
            BY <3>1
    <2>2. DerivedStatus(f, o) = CHOOSE s \in {f[v] : v \in active} : Slowest(s)
          BY <1>2 DEF DerivedStatus
    <2>3. DerivedStatus(f, o) \in {f[v] : v \in active} /\ Slowest(DerivedStatus(f, o))
          BY <2>1, <2>2
    <2>. QED
          BY <1>2, <2>3
  <1>. QED
        BY <1>1, <1>2

LEMMA MovesClosed ==
    ASSUME NEW m \in Moves
    PROVE  Reserved(m) \in Moves /\ Released(m) \in Moves /\ Confirmed(m) \in Moves
  BY DEF Moves, Reserved, Released, Confirmed

\* Every write to the stock leaves well-formed, non-negative rows, and adds one
\* to one of the counts of each vendor in S.
LEMMA MovesTyped ==
    ASSUME TypeOK, NEW o \in Orders, NEW S \in SUBSET Vendors,
           \/ ReserveFor(o, S) /\ \A v \in S : CanReserve(stock[v], Qty[o][v])
           \/ ReleaseFor(o, S)
           \/ ConfirmFor(o, S)
    PROVE  /\ stock' \in [Vendors -> Row]
           /\ settled' \in [Orders -> [Vendors -> Moves]]
           /\ StockNonNegative => StockNonNegative'
  <1>0. /\ \A v \in Vendors : Qty[o][v] \in Nat /\ stock[v] \in Row
        /\ \A p \in Orders, v \in Vendors : settled[p][v] \in Moves
        BY OrdersAssumption DEF TypeOK
  <1>1. CASE ReserveFor(o, S) /\ \A v \in S : CanReserve(stock[v], Qty[o][v])
    <2>1. stock' \in [Vendors -> Row]
          BY <1>0, <1>1, RowClosed DEF ReserveFor
    <2>2. settled' \in [Orders -> [Vendors -> Moves]]
          BY <1>0, MovesClosed, <1>1 DEF ReserveFor
    <2>3. StockNonNegative => StockNonNegative'
          BY <1>0, <1>1, RowSound DEF ReserveFor, StockNonNegative, Sound
    <2>. QED
          BY <2>1, <2>2, <2>3
  <1>2. CASE ReleaseFor(o, S)
    <2>1. stock' \in [Vendors -> Row]
          BY <1>0, <1>2, RowClosed DEF ReleaseFor
    <2>2. settled' \in [Orders -> [Vendors -> Moves]]
          BY <1>0, MovesClosed, <1>2 DEF ReleaseFor
    <2>3. StockNonNegative => StockNonNegative'
          BY <1>0, <1>2, RowSound DEF ReleaseFor, StockNonNegative, Sound
    <2>. QED
          BY <2>1, <2>2, <2>3
  <1>3. CASE ConfirmFor(o, S)
    <2>1. stock' \in [Vendors -> Row]
          BY <1>0, <1>3, RowClosed DEF ConfirmFor
    <2>2. settled' \in [Orders -> [Vendors -> Moves]]
          BY <1>0, MovesClosed, <1>3 DEF ConfirmFor
    <2>3. StockNonNegative => StockNonNegative'
          BY <1>0, <1>3, RowSound DEF ConfirmFor, StockNonNegative, Sound
    <2>. QED
          BY <2>1, <2>2, <2>3
  <1>. QED
        BY <1>1, <1>2, <1>3

\* Setting slices keeps the table of slices well formed.
LEMMA SlicesTyped ==
    ASSUME TypeOK, NEW o \in Orders, NEW S, NEW s \in SliceStatus, SetSlices(o, S, s)
    PROVE  slice' \in [Orders -> Slices]
  BY DEF TypeOK, SetSlices, Slices

\* Queueing an event for some vendors keeps the queue well formed.
LEMMA NotifyTyped ==
    ASSUME TypeOK, NEW o \in Orders, NEW S \in SUBSET Vendors,
           NEW type \in {"order.new", "order.cancel"}, Notify(type, o, S)
    PROVE  outbound' \subseteq Notice
  <1>1. \A v \in S : [type |-> type, order |-> o, vendor |-> v] \in Notice
        BY DEF Notice
  <1>. QED
        BY <1>1 DEF Notify, TypeOK

\* The status derived from slices is one of theirs, or Cancelled.
LEMMA DerivedTyped ==
    ASSUME NEW o \in Orders, NEW f \in Slices
    PROVE  DerivedStatus(f, o) \in SliceStatus \cup {"none"}
  <1>. DEFINE active == {v \in Cart(o) : f[v] # "Cancelled"}
  <1>1. CASE active = {}
        BY <1>1, DerivedIsSlowest DEF SliceStatus
  <1>2. CASE active # {}
    <2>1. \E v \in active : DerivedStatus(f, o) = f[v]
          BY <1>2, DerivedIsSlowest
    <2>. QED
          BY <2>1 DEF Cart, Slices
  <1>. QED
        BY <1>1, <1>2

\* A job with what it has read is well formed.
LEMMA EventTyped ==
    ASSUME TypeOK, NEW o \in Orders, NEW v \in Vendors, NEW s \in Reports
    PROVE  [kind |-> "event", type |-> s, order |-> o, vendor |-> v,
            status |-> Recomputed(o, v, s)] \in EventJob
  <1>1. [slice[o] EXCEPT ![v] = s] \in Slices
        BY DEF TypeOK, Slices, Reports, SliceStatus, FlowStatus
  <1>2. DerivedStatus([slice[o] EXCEPT ![v] = s], o) \in SliceStatus \cup {"none"}
        BY <1>1, DerivedTyped
  <1>3. Recomputed(o, v, s) \in SliceStatus \cup {"none", "same"}
        BY <1>2 DEF Recomputed
  <1>. QED
        BY <1>3 DEF EventJob

\* Jobs of different kinds are told apart by their kind.
LEMMA JobKinds ==
    ASSUME NEW j \in Job
    PROVE  /\ j = Idle \/ j.kind \in {"event", "update", "refund", "payment"}
           /\ j.kind = "event" => j \in EventJob
           /\ j.kind = "update" => j \in SaveJob("update", SliceStatus)
           /\ j.kind = "refund" => j \in SaveJob("refund", {"Refunded"})
           /\ j.kind = "payment" => j \in SaveJob("payment", {"Paid", "Partially Paid"})
  <1>1. CASE j = Idle
        BY <1>1 DEF Idle
  <1>2. CASE j \in EventJob
    <2>1. j.kind = "event"
          BY <1>2 DEF EventJob
    <2>. QED
          BY <1>2, <2>1
  <1>3. CASE j \in SaveJob("update", SliceStatus)
    <2>1. j.kind = "update"
          BY <1>3 DEF SaveJob
    <2>. QED
          BY <1>3, <2>1
  <1>4. CASE j \in SaveJob("refund", {"Refunded"})
    <2>1. j.kind = "refund"
          BY <1>4 DEF SaveJob
    <2>. QED
          BY <1>4, <2>1
  <1>5. CASE j \in SaveJob("payment", {"Paid", "Partially Paid"})
    <2>1. j.kind = "payment"
          BY <1>5 DEF SaveJob
    <2>. QED
          BY <1>5, <2>1
  <1>. QED
        BY <1>1, <1>2, <1>3, <1>4, <1>5 DEF Job

-----------------------------------------------------------------------------
(* Type correctness, and no negative quantity.                             *)

TypedInv == TypeOK /\ StockNonNegative

LEMMA TypedInit == Init => TypedInv
  <1>. SUFFICES ASSUME Init PROVE TypedInv
       OBVIOUS
  <1>1. \A v \in Vendors : OpeningRow(OpeningStock[v]) \in Row /\ Sound(OpeningRow(OpeningStock[v]))
        BY OrdersAssumption DEF OpeningRow, Row, Sound
  <1>2. NoMoves \in Moves
        BY DEF NoMoves, Moves
  <1>. QED
        BY <1>1, <1>2 DEF Init, TypedInv, TypeOK, StockNonNegative, Sound, SiteStatus, OrderStatus,
                       PaymentStatus, Slices, Job

\* Each party's steps, one lemma each.
LEMMA TypedCheckout ==
    ASSUME TypedInv, NEW o \in Orders, CheckoutStep(o)
    PROVE  TypedInv'
  <1>. USE DEF TypedInv
  <1>c. Cart(o) \in SUBSET Vendors
        BY DEF Cart
  <1>1. CASE Checkout(o)
    <2>1. /\ stock' \in [Vendors -> Row]
          /\ settled' \in [Orders -> [Vendors -> Moves]]
          /\ StockNonNegative'
          BY <1>c, <1>1, MovesTyped DEF Checkout
    <2>2. slice' \in [Orders -> Slices]
          BY <1>1, SlicesTyped DEF Checkout, SliceStatus, FlowStatus
    <2>3. status' \in [Orders -> OrderStatus \cup {"none", "failed"}]
          BY <1>1 DEF Checkout, TypeOK, OrderStatus, SliceStatus, FlowStatus
    <2>4. outbound' \subseteq Notice
          BY <1>c, <1>1, NotifyTyped DEF Checkout
    <2>. QED
          BY <1>1, <2>1, <2>2, <2>3, <2>4 DEF Checkout, TypeOK
  <1>2. CASE CheckoutShort(o)
    <2>1. PICK S \in SUBSET {u \in Cart(o) : CanReserve(stock[u], Qty[o][u])} : ReserveFor(o, S)
          BY <1>2 DEF CheckoutShort
    <2>2. /\ stock' \in [Vendors -> Row]
          /\ settled' \in [Orders -> [Vendors -> Moves]]
          /\ StockNonNegative'
          BY <1>c, <2>1, MovesTyped
    <2>3. status' \in [Orders -> OrderStatus \cup {"none", "failed"}]
          BY <1>2 DEF CheckoutShort, TypeOK
    <2>. QED
          BY <1>2, <2>2, <2>3 DEF CheckoutShort, TypeOK
  <1>3. CASE CheckoutRedeemFails(o)
    <2>1. ASSUME NEW v \in Cart(o)
          PROVE  /\ Release(Reserve(stock[v], Qty[o][v]), Qty[o][v]) \in Row
                 /\ Sound(Release(Reserve(stock[v], Qty[o][v]), Qty[o][v]))
      <3>0. v \in Vendors
            BY <1>c
      <3>1. /\ stock[v] \in Row /\ Qty[o][v] \in Nat
            /\ Sound(stock[v])
            /\ CanReserve(stock[v], Qty[o][v])
        <4>1. stock[v] \in Row /\ Qty[o][v] \in Nat
              BY <3>0, OrdersAssumption DEF TypeOK
        <4>2. Sound(stock[v])
              BY <3>0 DEF StockNonNegative, Sound
        <4>3. CanReserve(stock[v], Qty[o][v])
              BY <1>3 DEF CheckoutRedeemFails
        <4>. QED
              BY <4>1, <4>2, <4>3
      <3>2. Reserve(stock[v], Qty[o][v]) \in Row /\ Sound(Reserve(stock[v], Qty[o][v]))
            BY <3>1, RowClosed, RowSound
      <3>. QED
            BY <3>1, <3>2, RowClosed, RowSound
    <2>2. stock' \in [Vendors -> Row] /\ StockNonNegative'
          BY <1>3, <2>1 DEF CheckoutRedeemFails, TypeOK, StockNonNegative, Sound
    <2>3. settled' \in [Orders -> [Vendors -> Moves]]
          BY <1>3, MovesClosed DEF CheckoutRedeemFails, TypeOK
    <2>4. slice' \in [Orders -> Slices]
          BY <1>3, SlicesTyped DEF CheckoutRedeemFails, SliceStatus, FlowStatus
    <2>5. status' \in [Orders -> OrderStatus \cup {"none", "failed"}]
          BY <1>3 DEF CheckoutRedeemFails, TypeOK, OrderStatus, SliceStatus, FlowStatus
    <2>. QED
          BY <1>3, <2>2, <2>3, <2>4, <2>5 DEF CheckoutRedeemFails, TypeOK
  <1>. QED
        BY <1>1, <1>2, <1>3 DEF CheckoutStep

LEMMA TypedSite ==
    ASSUME TypedInv, NEW o \in Orders, NEW v \in Vendors, SiteStep(o, v)
    PROVE  TypedInv'
  <1>. USE DEF TypedInv
  <1>1. CASE SiteReceivesOrder(o, v)
        BY <1>1 DEF SiteReceivesOrder, SiteUnchanged, TypeOK, SiteStatus, StockNonNegative
  <1>2. CASE SiteAdvances(o, v) \/ SiteCancels(o, v)
    <2>1. PICK s \in Reports : SiteReports(o, v, s)
          BY <1>2 DEF SiteAdvances, SiteCancels, Reports
    <2>2. site' \in [Orders -> [Vendors -> SiteStatus]]
          BY <2>1 DEF SiteReports, TypeOK, SiteStatus, Reports
    <2>3. inbox' \subseteq Message
      <3>1. [type |-> s, order |-> o, vendor |-> v] \in Message
            BY DEF Message
      <3>. QED
            BY <2>1, <3>1 DEF SiteReports, TypeOK
    <2>. QED
          BY <2>1, <2>2, <2>3 DEF SiteReports, SiteUnchanged, TypeOK, StockNonNegative
  <1>3. CASE SiteHearsCancellation(o, v)
        BY <1>3 DEF SiteHearsCancellation, SiteUnchanged, TypeOK, SiteStatus, StockNonNegative
  <1>. QED
        BY <1>1, <1>2, <1>3 DEF SiteStep

LEMMA TypedWorker ==
    ASSUME TypedInv, NEW w \in Workers, WorkerStep(w)
    PROVE  TypedInv'
  <1>. USE DEF TypedInv
  <1>0. jobs[w] \in Job
        BY DEF TypeOK
  <1>1. ASSUME NEW o \in Orders, NEW v \in Vendors, NEW s \in Reports, StartEvent(w, o, v, s)
        PROVE  TypedInv'
    <2>1. jobs' = [jobs EXCEPT ![w] = [kind |-> "event", type |-> s, order |-> o, vendor |-> v,
                                       status |-> Recomputed(o, v, s)]]
          BY <1>1 DEF StartEvent
    <2>2. jobs' \in [Workers \cup Admins -> Job]
          BY <2>1, EventTyped DEF TypeOK, Job
    <2>. QED
          BY <1>1, <2>2 DEF StartEvent, TypeOK, StockNonNegative
  <1>2. CASE ApplyVendorEvent(w)
    <2>1. jobs[w].kind = "event" /\ WriteSlice(w)
          BY <1>2 DEF ApplyVendorEvent, ApplyOrderStatus, ApplyOrderDelivered,
                      ApplyOrderCancelFromVendor
    <2>2. jobs[w] \in EventJob
          BY <1>0, <2>1, JobKinds
    <2>. DEFINE o == jobs[w].order
                v == jobs[w].vendor
    <2>3. /\ o \in Orders /\ v \in Vendors
          /\ jobs[w].type \in SliceStatus
          /\ jobs[w].status \in SliceStatus \cup {"none", "same"}
          BY <2>2 DEF EventJob, Reports, SliceStatus, FlowStatus
    <2>4. slice' \in [Orders -> Slices]
          BY <2>1, <2>3, SlicesTyped DEF WriteSlice
    <2>5. status' \in [Orders -> OrderStatus \cup {"none", "failed"}]
          BY <2>1, <2>3 DEF WriteSlice, TypeOK, OrderStatus
    <2>6. jobs' \in [Workers \cup Admins -> Job]
          BY <2>1 DEF WriteSlice, TypeOK, Job
    <2>7. /\ stock' \in [Vendors -> Row]
          /\ settled' \in [Orders -> [Vendors -> Moves]]
          /\ StockNonNegative'
      <3>1. CASE ApplyOrderStatus(w)
            BY <3>1 DEF ApplyOrderStatus, TypeOK, StockNonNegative
      <3>2. CASE ApplyOrderDelivered(w)
        <4>1. ConfirmFor(o, {v})
              BY <3>2 DEF ApplyOrderDelivered
        <4>. QED
              BY <2>3, <4>1, MovesTyped
      <3>3. CASE ApplyOrderCancelFromVendor(w)
        <4>1. ReleaseFor(o, {v})
              BY <3>3 DEF ApplyOrderCancelFromVendor
        <4>. QED
              BY <2>3, <4>1, MovesTyped
      <3>. QED
            BY <1>2, <3>1, <3>2, <3>3 DEF ApplyVendorEvent
    <2>. QED
          BY <2>1, <2>4, <2>5, <2>6, <2>7 DEF WriteSlice, TypeOK
  <1>. QED
        BY <1>1, <1>2 DEF WorkerStep

\* What a request reads makes it well formed.
LEMMA SaveTyped ==
    ASSUME TypeOK, NEW a \in Admins, NEW o \in Orders, NEW kind, NEW T, NEW to \in T,
           StartSave(a, o, kind, to), SaveJob(kind, T) \subseteq Job
    PROVE  jobs' \in [Workers \cup Admins -> Job] /\ requests' \in Nat
  <1>1. RowOf(o) \in OrderRow
        BY DEF StartSave, Placed, RowOf, OrderRow, TypeOK
  <1>2. [kind |-> kind, to |-> to, order |-> o, row |-> RowOf(o), slices |-> slice[o]]
            \in SaveJob(kind, T)
        BY <1>1 DEF SaveJob, TypeOK
  <1>3. jobs' = [jobs EXCEPT ![a] = [kind |-> kind, to |-> to, order |-> o,
                                     row |-> RowOf(o), slices |-> slice[o]]]
        BY DEF StartSave
  <1>. QED
        BY <1>2, <1>3 DEF StartSave, TypeOK

LEMMA DocSaveTyped ==
    ASSUME TypeOK, NEW a, jobs[a].order \in Orders, NEW s \in OrderStatus,
           NEW p \in PaymentStatus, NEW f \in Slices, DocSave(a, s, p, f)
    PROVE  /\ status' \in [Orders -> OrderStatus \cup {"none", "failed"}]
           /\ payment' \in [Orders -> PaymentStatus]
           /\ slice' \in [Orders -> Slices]
  BY DEF DocSave, TypeOK

\* What on_order_updated queues is well formed.
LEMMA UpdatedTyped ==
    ASSUME TypeOK, NEW o \in Orders, NEW s, NEW f, OnOrderUpdated(o, s, f)
    PROVE  outbound' \subseteq Notice
  <1>1. CASE s = "Cancelled"
    <2>1. Notify("order.cancel", o, {v \in Cart(o) : f[v] # "Delivered"})
          BY <1>1 DEF OnOrderUpdated
    <2>2. {v \in Cart(o) : f[v] # "Delivered"} \in SUBSET Vendors
          BY DEF Cart
    <2>. QED
          BY <2>1, <2>2, NotifyTyped
  <1>2. CASE s # "Cancelled"
        BY <1>2 DEF OnOrderUpdated, TypeOK
  <1>. QED
        BY <1>1, <1>2

LEMMA TypedAdmin ==
    ASSUME TypedInv, NEW a \in Admins, AdminStep(a)
    PROVE  TypedInv'
  <1>. USE DEF TypedInv
  <1>0. jobs[a] \in Job
        BY DEF TypeOK
  <1>c. \A o \in Orders : Cart(o) \in SUBSET Vendors
        BY DEF Cart
  <1>1. ASSUME NEW o \in Orders, NEW kind \in {"update", "refund", "payment"},
               NEW T, NEW to \in T, SaveJob(kind, T) \subseteq Job, StartSave(a, o, kind, to)
        PROVE  TypedInv'
    <2>1. jobs' \in [Workers \cup Admins -> Job] /\ requests' \in Nat
          BY <1>1, SaveTyped
    <2>. QED
          BY <1>1, <2>1 DEF StartSave, TypeOK, StockNonNegative
  <1>2. ASSUME NEW o \in Orders,
               \/ \E s \in SliceStatus : StartSave(a, o, "update", s)
               \/ StartSave(a, o, "refund", "Refunded")
               \/ \E p \in {"Paid", "Partially Paid"} : StartSave(a, o, "payment", p)
        PROVE  TypedInv'
    <2>1. /\ SaveJob("update", SliceStatus) \subseteq Job
          /\ SaveJob("refund", {"Refunded"}) \subseteq Job
          /\ SaveJob("payment", {"Paid", "Partially Paid"}) \subseteq Job
          BY DEF Job
    <2>2. CASE \E s \in SliceStatus : StartSave(a, o, "update", s)
          BY <1>1, <2>1, <2>2
    <2>3. CASE StartSave(a, o, "refund", "Refunded")
          BY <1>1, <2>1, <2>3
    <2>4. CASE \E p \in {"Paid", "Partially Paid"} : StartSave(a, o, "payment", p)
          BY <1>1, <2>1, <2>4
    <2>. QED
          BY <1>2, <2>2, <2>3, <2>4
  <1>3. CASE UpdateOrderStatus(a)
    <2>. DEFINE o == jobs[a].order
                s == jobs[a].to
                f == jobs[a].slices
                g == [v \in Vendors |->
                        IF v \in Cart(o) /\ f[v] \notin {"Delivered", "Cancelled"}
                        THEN s ELSE f[v]]
    <2>1. jobs[a] \in SaveJob("update", SliceStatus)
          BY <1>0, <1>3, JobKinds DEF UpdateOrderStatus
    <2>2. o \in Orders /\ s \in SliceStatus /\ f \in Slices
          BY <2>1 DEF SaveJob
    <2>3. g \in Slices /\ payment[o] \in PaymentStatus /\ s \in OrderStatus
          BY <2>2 DEF Slices, TypeOK, OrderStatus
    <2>4. DocSave(a, s, payment[o], g)
          BY <1>3 DEF UpdateOrderStatus
    <2>5. /\ status' \in [Orders -> OrderStatus \cup {"none", "failed"}]
          /\ payment' \in [Orders -> PaymentStatus]
          /\ slice' \in [Orders -> Slices]
      <3>. HIDE DEF g
      <3>. QED
            BY <2>2, <2>3, <2>4, DocSaveTyped
    <2>6. /\ stock' \in [Vendors -> Row]
          /\ settled' \in [Orders -> [Vendors -> Moves]]
          /\ StockNonNegative'
      <3>0. /\ s = "Cancelled" => ReleaseFor(o, Cart(o))
            /\ s = "Delivered" => ConfirmFor(o, Cart(o))
            /\ s # "Cancelled" /\ s # "Delivered" => UNCHANGED <<stock, settled>>
            BY <1>3 DEF UpdateOrderStatus
      <3>. HIDE DEF o, s
      <3>1. CASE s = "Cancelled"
            BY <1>c, <2>2, <3>0, <3>1, MovesTyped
      <3>2. CASE s = "Delivered"
            BY <1>c, <2>2, <3>0, <3>2, MovesTyped
      <3>3. CASE s # "Cancelled" /\ s # "Delivered"
            BY <3>0, <3>3 DEF TypeOK, StockNonNegative
      <3>. QED
            BY <3>1, <3>2, <3>3
    <2>7. outbound' \subseteq Notice
      <3>1. OnOrderUpdated(o, s, f)
            BY <1>3 DEF UpdateOrderStatus
      <3>. HIDE DEF o, s, f
      <3>. QED
            BY <2>2, <3>1, UpdatedTyped
    <2>8. jobs' \in [Workers \cup Admins -> Job]
          BY <1>3 DEF UpdateOrderStatus, RequestEnds, TypeOK, Job
    <2>9. UNCHANGED <<site, inbox, expiring, callbacks, requests>>
          BY <1>3 DEF UpdateOrderStatus, RequestEnds
    <2>. QED
          BY <2>5, <2>6, <2>7, <2>8, <2>9 DEF TypeOK
  <1>4. CASE RefundOrder(a)
    <2>. DEFINE o == jobs[a].order
    <2>1. jobs[a] \in SaveJob("refund", {"Refunded"})
          BY <1>0, <1>4, JobKinds DEF RefundOrder
    <2>2. o \in Orders /\ jobs[a].slices \in Slices
          BY <2>1 DEF SaveJob
    <2>3. ReleaseFor(o, Cart(o)) /\ Notify("order.cancel", o, Cart(o))
          BY <1>4 DEF RefundOrder
    <2>4. /\ stock' \in [Vendors -> Row]
          /\ settled' \in [Orders -> [Vendors -> Moves]]
          /\ StockNonNegative'
          /\ outbound' \subseteq Notice
          BY <1>c, <2>2, <2>3, MovesTyped, NotifyTyped
    <2>5. /\ status' \in [Orders -> OrderStatus \cup {"none", "failed"}]
          /\ payment' \in [Orders -> PaymentStatus]
          /\ slice' \in [Orders -> Slices]
      <3>1. CASE Unmodified(a)
        <4>1. DocSave(a, "Refunded", "Refunded", jobs[a].slices)
              BY <1>4, <3>1 DEF RefundOrder
        <4>. QED
              BY <2>2, <4>1, DocSaveTyped DEF OrderStatus, PaymentStatus
      <3>2. CASE ~Unmodified(a)
            BY <1>4, <3>2 DEF RefundOrder, TypeOK
      <3>. QED
            BY <3>1, <3>2
    <2>6. jobs' \in [Workers \cup Admins -> Job]
          BY <1>4 DEF RefundOrder, RequestEnds, TypeOK, Job
    <2>7. UNCHANGED <<site, inbox, expiring, callbacks, requests>>
          BY <1>4 DEF RefundOrder, RequestEnds
    <2>. QED
          BY <2>4, <2>5, <2>6, <2>7 DEF TypeOK
  <1>5. CASE ApplyPartialPayment(a)
    <2>. DEFINE s == IF jobs[a].to = "Paid" /\ jobs[a].row.status = "Pending"
                     THEN "Confirmed" ELSE jobs[a].row.status
    <2>1. jobs[a] \in SaveJob("payment", {"Paid", "Partially Paid"})
          BY <1>0, <1>5, JobKinds DEF ApplyPartialPayment
    <2>2. /\ jobs[a].order \in Orders
          /\ jobs[a].slices \in Slices
          /\ jobs[a].to \in PaymentStatus
          /\ s \in OrderStatus
          BY <2>1 DEF SaveJob, OrderRow, PaymentStatus, OrderStatus, SliceStatus, FlowStatus
    <2>3. DocSave(a, s, jobs[a].to, jobs[a].slices)
          BY <1>5 DEF ApplyPartialPayment
    <2>4. /\ status' \in [Orders -> OrderStatus \cup {"none", "failed"}]
          /\ payment' \in [Orders -> PaymentStatus]
          /\ slice' \in [Orders -> Slices]
      <3>. HIDE DEF s
      <3>. QED
            BY <2>2, <2>3, DocSaveTyped
    <2>5. jobs' \in [Workers \cup Admins -> Job]
          BY <1>5 DEF ApplyPartialPayment, RequestEnds, TypeOK, Job
    <2>6. UNCHANGED <<stock, site, inbox, expiring, callbacks, requests, settled>>
          BY <1>5 DEF ApplyPartialPayment, RequestEnds
    <2>7. outbound' \subseteq Notice
      <3>1. OnOrderUpdated(jobs[a].order, s, jobs[a].slices)
            BY <1>5 DEF ApplyPartialPayment
      <3>. HIDE DEF s
      <3>. QED
            BY <2>2, <3>1, UpdatedTyped
    <2>. QED
          BY <2>4, <2>5, <2>6, <2>7 DEF TypeOK, StockNonNegative
  <1>. QED
        BY <1>2, <1>3, <1>4, <1>5 DEF AdminStep

LEMMA TypedOther ==
    ASSUME TypedInv,
           \/ ExpiryScan
           \/ \E o \in Orders : MarkOrderPaid(o) \/ MarkOrderFailed(o) \/ ExpireOrder(o)
           \/ \E w \in Workers \cup Admins : RollBack(w)
    PROVE  TypedInv'
  <1>. USE DEF TypedInv
  <1>c. \A o \in Orders : Cart(o) \in SUBSET Vendors
        BY DEF Cart
  <1>1. CASE ExpiryScan
        BY <1>1 DEF ExpiryScan, Expirable, TypeOK, StockNonNegative
  <1>2. ASSUME NEW o \in Orders, MarkOrderPaid(o) PROVE TypedInv'
    <2>1. payment' \in [Orders -> PaymentStatus]
          BY <1>2 DEF MarkOrderPaid, TypeOK, PaymentStatus
    <2>2. callbacks' \in [Orders -> Nat]
      <3>1. callbacks \in [Orders -> Nat]
            BY DEF TypeOK
      <3>2. callbacks' = [callbacks EXCEPT ![o] = @ + 1]
            BY <1>2 DEF MarkOrderPaid, Callback
      <3>. QED
            BY <3>1, <3>2
    <2>. QED
          BY <1>2, <2>1, <2>2 DEF MarkOrderPaid, TypeOK, StockNonNegative
  <1>3. ASSUME NEW o \in Orders, MarkOrderFailed(o) PROVE TypedInv'
    <2>1. /\ stock' \in [Vendors -> Row]
          /\ settled' \in [Orders -> [Vendors -> Moves]]
          /\ StockNonNegative'
          BY <1>c, <1>3, MovesTyped DEF MarkOrderFailed
    <2>2. payment' \in [Orders -> PaymentStatus]
          BY <1>3 DEF MarkOrderFailed, TypeOK, PaymentStatus
    <2>3. callbacks' \in [Orders -> Nat]
      <3>1. callbacks \in [Orders -> Nat]
            BY DEF TypeOK
      <3>2. callbacks' = [callbacks EXCEPT ![o] = @ + 1]
            BY <1>3 DEF MarkOrderFailed, Callback
      <3>. QED
            BY <3>1, <3>2
    <2>. QED
          BY <1>3, <2>1, <2>2, <2>3 DEF MarkOrderFailed, TypeOK
  <1>4. ASSUME NEW o \in Orders, ExpireOrder(o) PROVE TypedInv'
    <2>1. /\ stock' \in [Vendors -> Row]
          /\ settled' \in [Orders -> [Vendors -> Moves]]
          /\ StockNonNegative'
          BY <1>c, <1>4, MovesTyped DEF ExpireOrder
    <2>. QED
          BY <1>4, <2>1 DEF ExpireOrder, TypeOK, OrderStatus, SliceStatus
  <1>5. ASSUME NEW w \in Workers \cup Admins, RollBack(w) PROVE TypedInv'
    <2>1. jobs' \in [Workers \cup Admins -> Job]
          BY <1>5 DEF RollBack, TypeOK, Job
    <2>. QED
          BY <1>5, <2>1 DEF RollBack, TypeOK, StockNonNegative
  <1>. QED
        BY <1>1, <1>2, <1>3, <1>4, <1>5

LEMMA TypedNext == TypedInv /\ [Next]_vars => TypedInv'
  <1>1. TypedInv /\ UNCHANGED vars => TypedInv'
        BY DEF TypedInv, TypeOK, StockNonNegative, vars
  <1>. QED
        BY <1>1, TypedCheckout, TypedSite, TypedWorker, TypedAdmin, TypedOther DEF Next, SomeSite

\* Every variable keeps its type, whoever acts on the orders and whatever stale
\* document they write back.
THEOREM OrdersAreTyped == Spec => []TypeOK
  <1>1. TypedInv => TypeOK
        BY DEF TypedInv
  <1>. QED
        BY <1>1, TypedInit, TypedNext, PTL DEF Spec

\* No row goes negative, however often the stock of an order is released or
\* confirmed (api/stock.py:309-414).
THEOREM NeverNegative == Spec => []StockNonNegative
  <1>1. TypedInv => StockNonNegative
        BY DEF TypedInv
  <1>. QED
        BY <1>1, TypedInit, TypedNext, PTL DEF Spec

-----------------------------------------------------------------------------
(* Only the vendors act, and one worker applies their events.              *)

OneWorker == \A w, x \in Workers : w = x

Held == Reserved(NoMoves)
Returned == Released(Held)
Taken == Confirmed(Held)

LEMMA MoveValues ==
    /\ NoMoves = [reserved |-> 0, released |-> 0, confirmed |-> 0]
    /\ Held = [reserved |-> 1, released |-> 0, confirmed |-> 0]
    /\ Returned = [reserved |-> 1, released |-> 1, confirmed |-> 0]
    /\ Taken = [reserved |-> 1, released |-> 0, confirmed |-> 1]
  <1>1. Held = [reserved |-> 1, released |-> 0, confirmed |-> 0]
        BY DEF NoMoves, Held, Reserved
  <1>2. Returned = [reserved |-> 1, released |-> 1, confirmed |-> 0]
        BY <1>1 DEF Returned, Released
  <1>3. Taken = [reserved |-> 1, released |-> 0, confirmed |-> 1]
        BY <1>1 DEF Taken, Confirmed
  <1>. QED
        BY <1>1, <1>2, <1>3 DEF NoMoves

LEMMA ClaimValues ==
    /\ ClaimOf(NoMoves) = "none"
    /\ ClaimOf(Held) = "held"
    /\ ClaimOf(Returned) = "returned"
    /\ ClaimOf(Taken) = "taken"
  BY MoveValues DEF ClaimOf

\* What a slice says of its stock.  A reservation without a slice was left by a
\* checkout that failed.
Accounted ==
    \A o \in Orders, v \in Vendors :
        /\ slice[o][v] = "none" => settled[o][v] \in {NoMoves, Held}
        /\ slice[o][v] \in FlowStatus \ {"Delivered"} => settled[o][v] = Held
        /\ slice[o][v] = "Cancelled" => settled[o][v] = Returned
        /\ slice[o][v] = "Delivered" => settled[o][v] = Taken

\* A slice ends as its vendor's site reported, and the site reports one end.
OneEnd ==
    \A o \in Orders, v \in Vendors, s \in {"Delivered", "Cancelled"} :
        /\ slice[o][v] = s => site[o][v] = s
        /\ [type |-> s, order |-> o, vendor |-> v] \in inbox => site[o][v] = s

\* Only vendors with a slice ever speak of an order.
KnownSites ==
    \A o \in Orders, v \in Vendors :
        /\ site[o][v] # "unaware" => slice[o][v] # "none"
        /\ [type |-> "order.new", order |-> o, vendor |-> v] \in outbound =>
                slice[o][v] # "none"
        /\ [type |-> "order.cancel", order |-> o, vendor |-> v] \notin outbound

KnownMessages ==
    \A o \in Orders, v \in Vendors, s \in Reports :
            [type |-> s, order |-> o, vendor |-> v] \in inbox => slice[o][v] # "none"

\* An order has all its slices or none, and none without a checkout.
WholeOrders ==
    \A o \in Orders, v \in Vendors :
        /\ slice[o][v] # "none" => \A u \in Cart(o) : slice[o][u] # "none"
        /\ ~Placed(o) => slice[o][v] = "none"
        /\ status[o] = "none" => settled[o][v] = NoMoves

\* What the job of w has read is what it would read now.
Current(w, o, v, s) ==
    /\ jobs[w] = [kind |-> "event", type |-> s, order |-> o, vendor |-> v,
                  status |-> Recomputed(o, v, s)]
    /\ [type |-> s, order |-> o, vendor |-> v] \in inbox
    /\ Accepts(o, v, s)

JobsCurrent ==
    /\ \A w \in Workers :
           jobs[w] = Idle \/ \E o \in Orders, v \in Vendors, s \in Reports : Current(w, o, v, s)
    /\ \A a \in Admins : jobs[a] = Idle

VendorInv ==
    /\ TypedInv
    /\ Accounted
    /\ OneEnd
    /\ KnownSites
    /\ KnownMessages
    /\ WholeOrders
    /\ JobsCurrent
    /\ StatusFollowsSlices
    /\ expiring = {}

LEMMA VendorInit == Init => VendorInv
  <1>. SUFFICES ASSUME Init PROVE VendorInv
       OBVIOUS
  <1>1. TypedInv
        BY TypedInit
  <1>2. Accounted /\ OneEnd
        BY DEF Init, Accounted, OneEnd, FlowStatus
  <1>3. KnownSites /\ KnownMessages /\ WholeOrders
        BY DEF Init, KnownSites, KnownMessages, WholeOrders
  <1>4. JobsCurrent
        BY DEF Init, JobsCurrent
  <1>5. StatusFollowsSlices
        BY DEF Init, StatusFollowsSlices, Placed, OrderStatus, SliceStatus, FlowStatus
  <1>. QED
        BY <1>1, <1>2, <1>3, <1>4, <1>5 DEF Init, VendorInv

\* The steps that only the other parties take are disabled.
LEMMA OnlyVendors ==
    ASSUME Actors = {"vendor"}, VendorInv, [Next]_vars
    PROVE  \/ \E o \in Orders : Checkout(o) \/ CheckoutShort(o)
           \/ \E o \in Orders, v \in Vendors : SiteStep(o, v)
           \/ \E w \in Workers :
                \/ \E o \in Orders, v \in Vendors, s \in Reports : StartEvent(w, o, v, s)
                \/ ApplyVendorEvent(w)
                \/ RollBack(w)
           \/ UNCHANGED vars
  <1>1. ASSUME NEW a \in Admins PROVE ~AdminStep(a) /\ ~RollBack(a)
    <2>1. jobs[a] = Idle
          BY DEF VendorInv, JobsCurrent
    <2>2. jobs[a].kind \notin {"update", "refund", "payment"}
          BY <2>1 DEF Idle
    <2>. QED
          BY <2>1, <2>2 DEF AdminStep, StartSave, UpdateOrderStatus, RefundOrder,
                            ApplyPartialPayment, RollBack
  <1>2. ASSUME NEW o \in Orders
        PROVE  ~CheckoutRedeemFails(o) /\ ~MarkOrderPaid(o) /\ ~MarkOrderFailed(o) /\ ~ExpireOrder(o)
        BY DEF CheckoutRedeemFails, MarkOrderPaid, MarkOrderFailed, Callback, ExpireOrder, VendorInv
  <1>3. ~ExpiryScan
        BY DEF ExpiryScan
  <1>. QED
        BY <1>1, <1>2, <1>3 DEF Next, CheckoutStep, SomeSite, WorkerStep

\* The row of one order changes and its status follows its slices again.
LEMMA FollowsStep ==
    ASSUME StatusFollowsSlices, NEW o \in Orders,
           \A p \in Orders : p # o => slice'[p] = slice[p] /\ status'[p] = status[p],
           status'[o] \in OrderStatus =>
               LET active == {v \in Cart(o) : slice'[o][v] # "Cancelled"}
               IN /\ active = {} => status'[o] = "Cancelled"
                  /\ active # {} => \E v \in active : status'[o] = slice'[o][v]
                  /\ \A v \in active : Rank(status'[o]) <= Rank(slice'[o][v])
    PROVE  StatusFollowsSlices'
  <1>. SUFFICES ASSUME NEW p \in Orders, status'[p] \in OrderStatus
                PROVE  LET active == {v \in Cart(p) : slice'[p][v] # "Cancelled"}
                       IN /\ active = {} => status'[p] = "Cancelled"
                          /\ active # {} => \E v \in active : status'[p] = slice'[p][v]
                          /\ \A v \in active : Rank(status'[p]) <= Rank(slice'[p][v])
       BY DEF StatusFollowsSlices, Placed
  <1>1. CASE p = o
        BY <1>1
  <1>2. CASE p # o
    <2>1. slice'[p] = slice[p] /\ status'[p] = status[p]
          BY <1>2
    <2>2. Placed(p)
          BY <2>1 DEF Placed
    <2>. QED
          BY <2>1, <2>2 DEF StatusFollowsSlices
  <1>. QED
        BY <1>1, <1>2

\* The order of a job that is current is placed, and so not refunded.
LEMMA PlacedOrder ==
    ASSUME VendorInv, NEW o \in Orders, NEW v \in Vendors, slice[o][v] # "none"
    PROVE  Placed(o) /\ status[o] \in SliceStatus
  <1>1. Placed(o)
        BY DEF VendorInv, WholeOrders
  <1>2. slice[o] \in Slices
        BY DEF VendorInv, TypedInv, TypeOK
  <1>3. \A u \in Cart(o) : slice[o][u] \in SliceStatus
        BY <1>2 DEF VendorInv, WholeOrders, Cart, Slices
  <1>. DEFINE active == {u \in Cart(o) : slice[o][u] # "Cancelled"}
  <1>4. CASE active = {}
        BY <1>1, <1>4 DEF VendorInv, StatusFollowsSlices, SliceStatus
  <1>5. CASE active # {}
    <2>1. \E u \in active : status[o] = slice[o][u]
          BY <1>1, <1>5 DEF VendorInv, StatusFollowsSlices
    <2>. QED
          BY <1>1, <1>3, <2>1
  <1>. QED
        BY <1>4, <1>5

\* A job stays current while its order's row and slices do.
LEMMA JobsKept ==
    ASSUME VendorInv, jobs' = jobs, inbox \subseteq inbox',
           \A p \in Orders, u \in Vendors :
               slice[p][u] # "none" => slice'[p] = slice[p] /\ status'[p] = status[p]
    PROVE  JobsCurrent'
  <1>. SUFFICES ASSUME NEW w \in Workers, NEW p \in Orders, NEW u \in Vendors, NEW s \in Reports,
                       Current(w, p, u, s)
                PROVE  Current(w, p, u, s)'
       BY DEF VendorInv, JobsCurrent
  <1>1. slice[p][u] # "none"
        BY DEF Current, VendorInv, KnownMessages
  <1>2. slice'[p] = slice[p] /\ status'[p] = status[p]
        BY <1>1
  <1>3. Recomputed(p, u, s)' = Recomputed(p, u, s)
        BY <1>2 DEF Recomputed
  <1>4. Accepts(p, u, s)' = Accepts(p, u, s)
        BY <1>2 DEF Accepts, AcceptsStatus, AcceptsDelivery, AcceptsCancel
  <1>. QED
        BY <1>3, <1>4 DEF Current

\* A checkout that succeeds holds the stock of each vendor of the order; one
\* that fails may leave some held, without a slice.
LEMMA VendorCheckout ==
    ASSUME VendorInv, NEW o \in Orders, Checkout(o) \/ CheckoutShort(o)
    PROVE  VendorInv'
  <1>t. TypeOK /\ TypedInv'
        BY TypedCheckout DEF VendorInv, TypedInv, CheckoutStep
  <1>0. status[o] = "none"
        BY DEF Checkout, CheckoutShort
  <1>1. \A v \in Vendors : slice[o][v] = "none" /\ settled[o][v] = NoMoves
        BY <1>0 DEF VendorInv, WholeOrders, Placed, OrderStatus, SliceStatus, FlowStatus
  <1>c. Cart(o) \in SUBSET Vendors
        BY DEF Cart
  <1>2. CASE Checkout(o)
    <2>1. ASSUME NEW p \in Orders, NEW v \in Vendors
          PROVE  IF p = o /\ v \in Cart(o)
                 THEN slice'[p][v] = "Pending" /\ settled'[p][v] = Held
                 ELSE slice'[p][v] = slice[p][v] /\ settled'[p][v] = settled[p][v]
      <3>1. slice'[p][v] = IF p = o /\ v \in Cart(o) THEN "Pending" ELSE slice[p][v]
            BY <1>t, <1>2 DEF Checkout, SetSlices, TypeOK
      <3>2. settled'[p][v] = IF p = o /\ v \in Cart(o) THEN Reserved(settled[p][v])
                             ELSE settled[p][v]
            BY <1>2 DEF Checkout, ReserveFor
      <3>. QED
            BY <1>1, <3>1, <3>2 DEF Held
    <2>2. \A p \in Orders : status'[p] = IF p = o THEN "Pending" ELSE status[p]
          BY <1>t, <1>2 DEF Checkout, TypeOK
    <2>3. Accounted'
      <3>. SUFFICES ASSUME NEW p \in Orders, NEW v \in Vendors
                    PROVE  /\ slice'[p][v] = "none" => settled'[p][v] \in {NoMoves, Held}
                           /\ slice'[p][v] \in FlowStatus \ {"Delivered"} => settled'[p][v] = Held
                           /\ slice'[p][v] = "Cancelled" => settled'[p][v] = Returned
                           /\ slice'[p][v] = "Delivered" => settled'[p][v] = Taken
           BY DEF Accounted
      <3>1. CASE p = o /\ v \in Cart(o)
            BY <2>1, <3>1 DEF FlowStatus
      <3>2. CASE ~(p = o /\ v \in Cart(o))
        <4>1. slice'[p][v] = slice[p][v] /\ settled'[p][v] = settled[p][v]
              BY <2>1, <3>2
        <4>. QED
              BY <4>1 DEF VendorInv, Accounted
      <3>. QED
            BY <3>1, <3>2
    <2>4. OneEnd'
      <3>. SUFFICES ASSUME NEW p \in Orders, NEW v \in Vendors, NEW s \in {"Delivered", "Cancelled"}
                    PROVE  /\ slice'[p][v] = s => site'[p][v] = s
                           /\ [type |-> s, order |-> p, vendor |-> v] \in inbox' =>
                                  site'[p][v] = s
           BY DEF OneEnd
      <3>1. slice'[p][v] = s => slice[p][v] = s
            BY <2>1
      <3>2. UNCHANGED <<site, inbox>>
            BY <1>2 DEF Checkout
      <3>. QED
            BY <3>1, <3>2 DEF VendorInv, OneEnd
    <2>5. \A p \in Orders, v \in Vendors : slice[p][v] # "none" => slice'[p][v] # "none"
          BY <2>1
    <2>6. KnownSites'
      <3>. SUFFICES ASSUME NEW p \in Orders, NEW v \in Vendors
                    PROVE  /\ site'[p][v] # "unaware" => slice'[p][v] # "none"
                           /\ [type |-> "order.new", order |-> p, vendor |-> v] \in outbound' =>
                                   slice'[p][v] # "none"
                           /\ [type |-> "order.cancel", order |-> p, vendor |-> v] \notin outbound'
           BY DEF KnownSites
      <3>1. site' = site /\ Notify("order.new", o, Cart(o))
            BY <1>2 DEF Checkout
      <3>2. [type |-> "order.new", order |-> p, vendor |-> v] \in outbound' =>
                \/ [type |-> "order.new", order |-> p, vendor |-> v] \in outbound
                \/ p = o /\ v \in Cart(o)
            BY <3>1 DEF Notify
      <3>3. [type |-> "order.cancel", order |-> p, vendor |-> v] \notin outbound'
            BY <3>1 DEF Notify, VendorInv, KnownSites
      <3>. QED
            BY <2>1, <2>5, <3>1, <3>2, <3>3 DEF VendorInv, KnownSites
    <2>7. KnownMessages'
          BY <1>2, <2>5 DEF VendorInv, KnownMessages, Checkout
    <2>8. WholeOrders'
      <3>. SUFFICES ASSUME NEW p \in Orders, NEW v \in Vendors
                    PROVE  /\ slice'[p][v] # "none" => \A u \in Cart(p) : slice'[p][u] # "none"
                           /\ status'[p] \notin OrderStatus => slice'[p][v] = "none"
                           /\ status'[p] = "none" => settled'[p][v] = NoMoves
           BY DEF WholeOrders, Placed
      <3>1. CASE p = o
        <4>1. status'[p] = "Pending" /\ "Pending" \in OrderStatus
              BY <2>2, <3>1 DEF OrderStatus, SliceStatus, FlowStatus
        <4>2. slice'[p][v] # "none" => v \in Cart(p)
              BY <1>1, <2>1, <3>1
        <4>3. \A u \in Cart(p) : slice'[p][u] = "Pending"
              BY <1>c, <2>1, <3>1
        <4>. QED
              BY <4>1, <4>2, <4>3
      <3>2. CASE p # o
        <4>1. slice'[p][v] = slice[p][v] /\ settled'[p][v] = settled[p][v] /\ status'[p] = status[p]
              BY <2>1, <2>2, <3>2
        <4>2. \A u \in Cart(p) : slice'[p][u] = slice[p][u]
              BY <2>1, <3>2 DEF Cart
        <4>. QED
              BY <4>1, <4>2 DEF VendorInv, WholeOrders, Placed
      <3>. QED
            BY <3>1, <3>2
    <2>9. expiring' = {}
          BY <1>2 DEF Checkout, VendorInv
    <2>10. \A p \in Orders : p # o => slice'[p] = slice[p] /\ status'[p] = status[p]
          BY <1>t, <1>2 DEF Checkout, SetSlices, TypeOK
    <2>11. JobsCurrent'
          BY <1>1, <1>2, <2>10, JobsKept DEF Checkout
    <2>12. StatusFollowsSlices'
      <3>1. \A v \in Cart(o) : slice'[o][v] = "Pending"
            BY <1>c, <2>1
      <3>2. status'[o] = "Pending" /\ Cart(o) # {}
            BY <1>2, <2>2 DEF Checkout
      <3>. QED
            BY <2>10, <3>1, <3>2, FollowsStep, RankNat DEF VendorInv
    <2>. QED
          BY <1>t, <2>3, <2>4, <2>6, <2>7, <2>8, <2>9, <2>11, <2>12 DEF VendorInv
  <1>3. CASE CheckoutShort(o)
    <2>1. PICK S \in SUBSET Vendors : ReserveFor(o, S)
          BY <1>c, <1>3 DEF CheckoutShort
    <2>2. ASSUME NEW p \in Orders, NEW v \in Vendors
          PROVE  settled'[p][v] = IF p = o /\ v \in S THEN Held ELSE settled[p][v]
      <3>1. settled'[p][v] = IF p = o /\ v \in S THEN Reserved(settled[p][v]) ELSE settled[p][v]
            BY <2>1 DEF ReserveFor
      <3>. QED
            BY <1>1, <3>1 DEF Held
    <2>3. \A p \in Orders : status'[p] = IF p = o THEN "failed" ELSE status[p]
          BY <1>t, <1>3 DEF CheckoutShort, TypeOK
    <2>4. UNCHANGED <<slice, site, inbox, outbound, jobs, expiring>>
          BY <1>3 DEF CheckoutShort
    <2>5. Accounted'
      <3>. SUFFICES ASSUME NEW p \in Orders, NEW v \in Vendors
                    PROVE  /\ slice[p][v] = "none" => settled'[p][v] \in {NoMoves, Held}
                           /\ slice[p][v] \in FlowStatus \ {"Delivered"} => settled'[p][v] = Held
                           /\ slice[p][v] = "Cancelled" => settled'[p][v] = Returned
                           /\ slice[p][v] = "Delivered" => settled'[p][v] = Taken
           BY <2>4 DEF Accounted
      <3>1. CASE p = o /\ v \in S
            BY <1>1, <2>2, <3>1 DEF FlowStatus
      <3>2. CASE ~(p = o /\ v \in S)
        <4>1. settled'[p][v] = settled[p][v]
              BY <2>2, <3>2
        <4>. QED
              BY <4>1 DEF VendorInv, Accounted
      <3>. QED
            BY <3>1, <3>2
    <2>6. OneEnd' /\ KnownSites' /\ KnownMessages'
          BY <2>4 DEF VendorInv, OneEnd, KnownSites, KnownMessages
    <2>7. WholeOrders'
      <3>. SUFFICES ASSUME NEW p \in Orders, NEW v \in Vendors
                    PROVE  /\ slice[p][v] # "none" => \A u \in Cart(p) : slice[p][u] # "none"
                           /\ status'[p] \notin OrderStatus => slice[p][v] = "none"
                           /\ status'[p] = "none" => settled'[p][v] = NoMoves
           BY <2>4 DEF WholeOrders, Placed
      <3>1. CASE p = o
            BY <1>1, <2>3, <3>1 DEF VendorInv, WholeOrders
      <3>2. CASE p # o
            BY <2>2, <2>3, <3>2 DEF VendorInv, WholeOrders, Placed
      <3>. QED
            BY <3>1, <3>2
    <2>8. \A p \in Orders : p # o => slice'[p] = slice[p] /\ status'[p] = status[p]
          BY <2>3, <2>4
    <2>9. JobsCurrent'
          BY <1>1, <2>4, <2>8, JobsKept
    <2>10. StatusFollowsSlices'
      <3>1. status'[o] \notin OrderStatus
            BY <2>3 DEF OrderStatus, SliceStatus, FlowStatus
      <3>. QED
            BY <2>8, <3>1, FollowsStep DEF VendorInv
    <2>. QED
          BY <1>t, <2>4, <2>5, <2>6, <2>7, <2>9, <2>10 DEF VendorInv
  <1>. QED
        BY <1>2, <1>3

\* A vendor's site: it speaks of orders it was told of, and ends them once.
LEMMA VendorSite ==
    ASSUME VendorInv, NEW o \in Orders, NEW v \in Vendors, SiteStep(o, v)
    PROVE  VendorInv'
  <1>t. TypeOK /\ TypedInv'
        BY TypedSite DEF VendorInv, TypedInv
  <1>0. UNCHANGED <<stock, status, payment, slice, jobs, expiring, settled>>
        BY DEF SiteStep, SiteReceivesOrder, SiteAdvances, SiteCancels, SiteHearsCancellation,
               SiteReports, SiteUnchanged
  <1>1. Accounted' /\ WholeOrders' /\ StatusFollowsSlices' /\ expiring' = {}
        BY <1>0 DEF VendorInv, Accounted, WholeOrders, StatusFollowsSlices, Placed
  <1>j. JobsCurrent'
    <2>1. inbox \subseteq inbox'
          BY DEF SiteStep, SiteReceivesOrder, SiteAdvances, SiteCancels, SiteHearsCancellation,
                 SiteReports
    <2>. QED
          BY <1>0, <2>1, JobsKept
  <1>2. CASE SiteReceivesOrder(o, v)
    <2>1. /\ inbox' = inbox
          /\ outbound' \subseteq outbound
          /\ slice[o][v] # "none"
          BY <1>2 DEF SiteReceivesOrder, VendorInv, KnownSites
    <2>2. \A p \in Orders, u \in Vendors :
              site'[p][u] = IF p = o /\ u = v /\ site[p][u] = "unaware" THEN "received"
                            ELSE site[p][u]
          BY <1>t, <1>2 DEF SiteReceivesOrder, TypeOK
    <2>3. OneEnd'
      <3>. SUFFICES ASSUME NEW p \in Orders, NEW u \in Vendors, NEW r \in {"Delivered", "Cancelled"}
                    PROVE  /\ slice[p][u] = r => site'[p][u] = r
                           /\ [type |-> r, order |-> p, vendor |-> u] \in inbox =>
                                  site'[p][u] = r
           BY <1>0, <2>1 DEF OneEnd
      <3>1. site[p][u] = r => site'[p][u] = r
            BY <2>2
      <3>. QED
            BY <3>1 DEF VendorInv, OneEnd
    <2>4. KnownSites'
          BY <1>0, <2>1, <2>2, ZenonT(40) DEF VendorInv, KnownSites
    <2>5. KnownMessages'
          BY <1>0, <2>1 DEF VendorInv, KnownMessages
    <2>. QED
          BY <1>t, <1>1, <1>j, <2>3, <2>4, <2>5 DEF VendorInv
  <1>3. CASE SiteAdvances(o, v) \/ SiteCancels(o, v)
    <2>1. PICK s \in Reports : SiteReports(o, v, s)
          BY <1>3 DEF SiteAdvances, SiteCancels, Reports
    <2>2. site[o][v] \in {"received", "Confirmed", "Preparing", "Out for Delivery"}
          BY <1>3 DEF SiteAdvances, SiteCancels
    <2>3. \A p \in Orders, u \in Vendors :
              site'[p][u] = IF p = o /\ u = v THEN s ELSE site[p][u]
          BY <1>t, <2>1 DEF SiteReports, TypeOK
    <2>4. \A r : \A p \in Orders, u \in Vendors :
              [type |-> r, order |-> p, vendor |-> u] \in inbox' =>
                  \/ [type |-> r, order |-> p, vendor |-> u] \in inbox
                  \/ r = s /\ p = o /\ u = v
          BY <2>1 DEF SiteReports
    <2>5. slice[o][v] # "none" /\ slice[o][v] # "Delivered" /\ slice[o][v] # "Cancelled"
          BY <2>2 DEF VendorInv, OneEnd, KnownSites
    <2>6. OneEnd'
      <3>. SUFFICES ASSUME NEW p \in Orders, NEW u \in Vendors, NEW r \in {"Delivered", "Cancelled"}
                    PROVE  /\ slice'[p][u] = r => site'[p][u] = r
                           /\ [type |-> r, order |-> p, vendor |-> u] \in inbox' =>
                                  site'[p][u] = r
           BY DEF OneEnd
      <3>1. CASE p = o /\ u = v
        <4>1. [type |-> r, order |-> p, vendor |-> u] \notin inbox
              BY <2>2, <3>1 DEF VendorInv, OneEnd
        <4>. QED
              BY <1>0, <2>3, <2>4, <2>5, <3>1, <4>1
      <3>2. CASE ~(p = o /\ u = v)
        <4>1. /\ slice[p][u] = r => site[p][u] = r
              /\ [type |-> r, order |-> p, vendor |-> u] \in inbox => site[p][u] = r
              BY DEF VendorInv, OneEnd
        <4>2. [type |-> r, order |-> p, vendor |-> u] \in inbox' =>
                  [type |-> r, order |-> p, vendor |-> u] \in inbox
              BY <2>4, <3>2
        <4>3. site'[p][u] = site[p][u]
              BY <2>3, <3>2
        <4>. QED
              BY <1>0, <4>1, <4>2, <4>3
      <3>. QED
            BY <3>1, <3>2
    <2>7. KnownSites'
          BY <1>0, <2>1, <2>3, <2>5, ZenonT(40) DEF VendorInv, KnownSites, SiteReports
    <2>8. KnownMessages'
          BY <1>0, <2>4, <2>5 DEF VendorInv, KnownMessages
    <2>. QED
          BY <1>t, <1>1, <1>j, <2>6, <2>7, <2>8 DEF VendorInv
  <1>4. ~SiteHearsCancellation(o, v)
        BY DEF SiteHearsCancellation, VendorInv, KnownSites
  <1>. QED
        BY <1>2, <1>3, <1>4 DEF SiteStep

\* A worker that applies an event has a job.
LEMMA Busy ==
    ASSUME NEW w \in Workers, ApplyVendorEvent(w)
    PROVE  jobs[w] # Idle
  <1>1. jobs[w].kind = "event"
        BY DEF ApplyVendorEvent, ApplyOrderStatus, ApplyOrderDelivered,
               ApplyOrderCancelFromVendor
  <1>. QED
        BY <1>1 DEF Idle

\* Starting a job and giving it up touch nothing but the job.
LEMMA VendorJobs ==
    ASSUME OneWorker, VendorInv, NEW w \in Workers,
           \/ RollBack(w)
           \/ \E o \in Orders, v \in Vendors, s \in Reports : StartEvent(w, o, v, s)
    PROVE  VendorInv' /\ UNCHANGED <<stock, settled>>
  <1>t. TypeOK /\ TypedInv'
        BY TypedWorker, TypedOther DEF VendorInv, TypedInv, WorkerStep
  <1>0. UNCHANGED <<stock, status, slice, site, inbox, outbound, expiring, settled>>
        BY DEF RollBack, StartEvent
  <1>1. Accounted' /\ OneEnd' /\ KnownSites' /\ KnownMessages' /\ expiring' = {}
        BY <1>0 DEF VendorInv, Accounted, OneEnd, KnownSites, KnownMessages
  <1>2. WholeOrders' /\ StatusFollowsSlices'
        BY <1>0 DEF VendorInv, WholeOrders, StatusFollowsSlices, Placed
  <1>3. w \notin Admins
        BY OrdersAssumption
  <1>4. JobsCurrent'
    <2>1. CASE RollBack(w)
      <3>1. jobs' = [jobs EXCEPT ![w] = Idle]
            BY <2>1 DEF RollBack
      <3>2. jobs'[w] = Idle
            BY <1>t, <3>1 DEF TypeOK
      <3>3. \A a \in Admins : jobs'[a] = jobs[a]
            BY <1>t, <1>3, <3>1 DEF TypeOK
      <3>. QED
            BY <3>2, <3>3 DEF OneWorker, VendorInv, JobsCurrent
    <2>2. ASSUME NEW o \in Orders, NEW v \in Vendors, NEW s \in Reports, StartEvent(w, o, v, s)
          PROVE  JobsCurrent'
      <3>1. jobs' = [jobs EXCEPT ![w] =
                        [kind |-> "event", type |-> s, order |-> o, vendor |-> v,
                         status |-> Recomputed(o, v, s)]]
            BY <2>2 DEF StartEvent
      <3>2. jobs'[w] = [kind |-> "event", type |-> s, order |-> o, vendor |-> v,
                        status |-> Recomputed(o, v, s)]
            BY <1>t, <3>1 DEF TypeOK
      <3>3. Recomputed(o, v, s)' = Recomputed(o, v, s)
            BY <1>0 DEF Recomputed
      <3>4. Accepts(o, v, s)'
        <4>1. Accepts(o, v, s)
              BY <2>2 DEF StartEvent
        <4>2. Accepts(o, v, s)' = Accepts(o, v, s)
              BY <1>0 DEF Accepts, AcceptsStatus, AcceptsDelivery, AcceptsCancel
        <4>. QED
              BY <4>1, <4>2
      <3>5. Current(w, o, v, s)'
            BY <1>0, <2>2, <3>2, <3>3, <3>4 DEF StartEvent, Current
      <3>6. \A a \in Admins : jobs'[a] = jobs[a]
            BY <1>t, <1>3, <3>1 DEF TypeOK
      <3>. QED
            BY <3>5, <3>6 DEF OneWorker, VendorInv, JobsCurrent
    <2>. QED
          BY <2>1, <2>2
  <1>. QED
        BY <1>0, <1>t, <1>1, <1>2, <1>4 DEF VendorInv

\* What the three handlers have in common: the slice of v takes s, the order the
\* status that follows, and the stock of v is settled as s says.
LEMMA VendorEventInv ==
    ASSUME OneWorker, VendorInv, NEW w \in Workers, NEW o \in Orders, NEW v \in Vendors,
           NEW s \in SliceStatus, Current(w, o, v, s), WriteSlice(w), TypedInv',
           s \in {"Delivered", "Cancelled"} => site[o][v] = s,
           \A p \in Orders, u \in Vendors : ~(p = o /\ u = v) => settled'[p][u] = settled[p][u],
           /\ s \in FlowStatus \ {"Delivered"} => settled'[o][v] = Held
           /\ s = "Cancelled" => settled'[o][v] = Returned
           /\ s = "Delivered" => settled'[o][v] = Taken
    PROVE  VendorInv'
  <1>t. TypeOK
        BY DEF VendorInv, TypedInv
  <1>w. jobs[w].order = o /\ jobs[w].vendor = v /\ jobs[w].type = s
        /\ jobs[w].status = Recomputed(o, v, s)
        BY DEF Current
  <1>0. UNCHANGED <<site, inbox, outbound, expiring>>
        BY DEF WriteSlice
  <1>s. /\ SetSlices(o, {v}, s)
        /\ status' = [status EXCEPT ![o] = IF Recomputed(o, v, s) = "same" THEN @
                                           ELSE Recomputed(o, v, s)]
        /\ jobs' = [jobs EXCEPT ![w] = Idle]
        BY <1>w DEF WriteSlice
  <1>1. slice[o][v] # "none"
    <2>1. s \in Reports
          BY DEF Current, Accepts, AcceptsStatus, Reports
    <2>. QED
          BY <2>1 DEF Current, VendorInv, KnownMessages
  <1>2. \A p \in Orders, u \in Vendors :
            slice'[p][u] = IF p = o /\ u = v THEN s ELSE slice[p][u]
        BY <1>t, <1>s DEF SetSlices, TypeOK, Slices
  <1>3. s # "none"
        BY DEF SliceStatus, FlowStatus
  <1>4. \A p \in Orders, u \in Vendors : slice[p][u] # "none" <=> slice'[p][u] # "none"
        BY <1>1, <1>2, <1>3
  <1>5. \A p \in Orders : p # o => slice'[p] = slice[p] /\ status'[p] = status[p]
        BY <1>t, <1>s DEF SetSlices, TypeOK
  <1>6. slice'[o] = [slice[o] EXCEPT ![v] = s]
    <2>1. slice[o] \in Slices /\ slice'[o] = [u \in Vendors |-> IF u \in {v} THEN s ELSE slice[o][u]]
          BY <1>t, <1>s DEF SetSlices, TypeOK
    <2>. QED
          BY <2>1 DEF Slices
  \* The derived status, and that it is a status.
  <1>. DEFINE new == DerivedStatus(slice'[o], o)
              active == {u \in Cart(o) : slice'[o][u] # "Cancelled"}
  <1>7. new \in SliceStatus
    <2>1. slice'[o] \in Slices
          BY DEF TypedInv, TypeOK
    <2>2. \A u \in Cart(o) : slice'[o][u] # "none"
          BY <1>1, <1>4 DEF VendorInv, WholeOrders, Cart
    <2>3. CASE active = {}
      <3>1. new = "Cancelled"
            BY <2>3, DerivedIsSlowest
      <3>. QED
            BY <3>1 DEF SliceStatus
    <2>4. CASE active # {}
      <3>1. \E u \in active : new = slice'[o][u]
            BY <2>4, DerivedIsSlowest
      <3>2. \A u \in active : slice'[o][u] \in SliceStatus
            BY <2>1, <2>2 DEF Slices, Cart
      <3>. HIDE DEF new
      <3>. QED
            BY <3>1, <3>2
    <2>. QED
          BY <2>3, <2>4
  <1>8. status'[o] = new
    <2>1. status[o] # "Refunded"
      <3>1. status[o] \in SliceStatus
            BY <1>1, PlacedOrder
      <3>. QED
            BY <3>1 DEF SliceStatus, FlowStatus
    <2>2. Recomputed(o, v, s) = IF new = status[o] THEN "same" ELSE new
          BY <1>6, <2>1 DEF Recomputed
    <2>3. new # "same"
          BY <1>7 DEF SliceStatus, FlowStatus
    <2>4. status'[o] = IF Recomputed(o, v, s) = "same" THEN status[o] ELSE Recomputed(o, v, s)
          BY <1>t, <1>s DEF TypeOK
    <2>. HIDE DEF new
    <2>. QED
          BY <2>2, <2>3, <2>4
  <1>9. Accounted'
    <2>. SUFFICES ASSUME NEW p \in Orders, NEW u \in Vendors
                  PROVE  /\ slice'[p][u] = "none" => settled'[p][u] \in {NoMoves, Held}
                         /\ slice'[p][u] \in FlowStatus \ {"Delivered"} => settled'[p][u] = Held
                         /\ slice'[p][u] = "Cancelled" => settled'[p][u] = Returned
                         /\ slice'[p][u] = "Delivered" => settled'[p][u] = Taken
         BY DEF Accounted
    <2>1. CASE p = o /\ u = v
          BY <1>2, <1>3, <2>1
    <2>2. CASE ~(p = o /\ u = v)
      <3>1. slice'[p][u] = slice[p][u] /\ settled'[p][u] = settled[p][u]
            BY <1>2, <2>2
      <3>. QED
            BY <3>1 DEF VendorInv, Accounted
    <2>. QED
          BY <2>1, <2>2
  <1>10. OneEnd'
    <2>. SUFFICES ASSUME NEW p \in Orders, NEW u \in Vendors, NEW r \in {"Delivered", "Cancelled"}
                  PROVE  /\ slice'[p][u] = r => site[p][u] = r
                         /\ [type |-> r, order |-> p, vendor |-> u] \in inbox =>
                                site[p][u] = r
         BY <1>0 DEF OneEnd
    <2>1. /\ slice[p][u] = r => site[p][u] = r
          /\ [type |-> r, order |-> p, vendor |-> u] \in inbox => site[p][u] = r
          BY DEF VendorInv, OneEnd
    <2>. QED
          BY <1>2, <2>1
  <1>11. KnownSites' /\ KnownMessages'
        BY <1>0, <1>4 DEF VendorInv, KnownSites, KnownMessages
  <1>12. WholeOrders'
    <2>. SUFFICES ASSUME NEW p \in Orders, NEW u \in Vendors
                  PROVE  /\ slice'[p][u] # "none" => \A x \in Cart(p) : slice'[p][x] # "none"
                         /\ status'[p] \notin OrderStatus => slice'[p][u] = "none"
                         /\ status'[p] = "none" => settled'[p][u] = NoMoves
         BY DEF WholeOrders, Placed
    <2>1. slice'[p][u] # "none" => \A x \in Cart(p) : slice'[p][x] # "none"
          BY <1>4 DEF VendorInv, WholeOrders, Cart
    <2>2. CASE p = o
      <3>1. status'[p] \in OrderStatus /\ status'[p] # "none"
            BY <1>7, <1>8, <2>2 DEF OrderStatus, SliceStatus, FlowStatus
      <3>. QED
            BY <2>1, <3>1
    <2>3. CASE p # o
      <3>1. slice'[p] = slice[p] /\ status'[p] = status[p] /\ settled'[p][u] = settled[p][u]
            BY <1>5, <2>3
      <3>. QED
            BY <2>1, <3>1 DEF VendorInv, WholeOrders, Placed
    <2>. QED
          BY <2>2, <2>3
  <1>13. JobsCurrent'
    <2>1. w \notin Admins
          BY OrdersAssumption
    <2>2. jobs'[w] = Idle /\ \A a \in Admins : jobs'[a] = jobs[a]
          BY <1>t, <1>s, <2>1 DEF TypeOK
    <2>. QED
          BY <2>2 DEF OneWorker, VendorInv, JobsCurrent
  <1>14. StatusFollowsSlices'
    <2>1. /\ active = {} => new = "Cancelled"
          /\ active # {} => /\ \E u \in active : new = slice'[o][u]
                            /\ \A u \in active : Rank(new) <= Rank(slice'[o][u])
          BY DerivedIsSlowest
    <2>. HIDE DEF new
    <2>. QED
          BY <1>5, <1>8, <2>1, FollowsStep DEF VendorInv
  <1>. QED
        BY <1>0, <1>9, <1>10, <1>11, <1>12, <1>13, <1>14 DEF VendorInv

\* A vendor's event moves its own slice, along its reservation.
LEMMA VendorEvent ==
    ASSUME OneWorker, VendorInv, NEW w \in Workers, NEW o \in Orders, NEW v \in Vendors,
           NEW s \in Reports, Current(w, o, v, s), ApplyVendorEvent(w)
    PROVE  /\ VendorInv'
           /\ \/ UNCHANGED <<stock, settled>>
              \/ settled[o][v] = Held /\ (ReleaseFor(o, {v}) \/ ConfirmFor(o, {v}))
  <1>t. TypeOK /\ TypedInv'
        BY TypedWorker DEF VendorInv, TypedInv, WorkerStep
  <1>w. jobs[w].order = o /\ jobs[w].vendor = v /\ jobs[w].type = s
        BY DEF Current
  <1>0. WriteSlice(w)
        BY DEF ApplyVendorEvent, ApplyOrderStatus, ApplyOrderDelivered,
               ApplyOrderCancelFromVendor
  <1>1. slice[o][v] # "none"
        BY DEF Current, VendorInv, KnownMessages
  <1>2. slice[o][v] \in SliceStatus
    <2>1. slice[o] \in Slices
          BY <1>t DEF TypeOK
    <2>. QED
          BY <1>1, <2>1 DEF Slices
  <1>3. s \in SliceStatus
        BY DEF Reports, SliceStatus, FlowStatus
  <1>4. s \in {"Delivered", "Cancelled"} => site[o][v] = s
        BY DEF Current, VendorInv, OneEnd
  <1>5. CASE ApplyOrderStatus(w)
    <2>1. s \in {"Confirmed", "Preparing", "Out for Delivery"} /\ UNCHANGED <<stock, settled>>
          BY <1>5, <1>w DEF ApplyOrderStatus
    <2>2. slice[o][v] \in FlowStatus \ {"Delivered"}
      <3>1. s \in VALID_ORDER_TRANSITIONS(slice[o][v])
            BY <2>1 DEF Current, Accepts, AcceptsStatus
      <3>. QED
            BY <1>2, <3>1 DEF VALID_ORDER_TRANSITIONS, SliceStatus, FlowStatus
    <2>3. settled[o][v] = Held
          BY <2>2 DEF VendorInv, Accounted
    <2>4. s # "Delivered" /\ s # "Cancelled"
          BY <2>1
    <2>. QED
          BY <1>t, <1>0, <1>3, <1>4, <2>1, <2>3, <2>4, VendorEventInv
  <1>6. CASE ApplyOrderDelivered(w)
    <2>1. s = "Delivered" /\ ConfirmFor(o, {v})
          BY <1>6, <1>w DEF ApplyOrderDelivered
    <2>2. slice[o][v] \in FlowStatus \ {"Delivered"}
      <3>1. slice[o][v] # "Delivered"
            BY <2>1 DEF Current, Accepts, AcceptsStatus, AcceptsDelivery
      <3>2. slice[o][v] # "Cancelled"
            BY <1>4, <2>1 DEF VendorInv, OneEnd
      <3>. QED
            BY <1>2, <3>1, <3>2 DEF SliceStatus
    <2>3. settled[o][v] = Held
          BY <2>2 DEF VendorInv, Accounted
    <2>4. \A p \in Orders, u \in Vendors :
              settled'[p][u] = IF p = o /\ u = v THEN Confirmed(settled[p][u]) ELSE settled[p][u]
          BY <2>1 DEF ConfirmFor
    <2>5. settled'[o][v] = Taken
          BY <2>3, <2>4 DEF Taken
    <2>6. VendorInv'
          BY <1>t, <1>0, <1>3, <1>4, <2>1, <2>4, <2>5, VendorEventInv
    <2>. QED
          BY <2>1, <2>3, <2>6
  <1>7. CASE ApplyOrderCancelFromVendor(w)
    <2>1. s = "Cancelled" /\ ReleaseFor(o, {v})
          BY <1>7, <1>w DEF ApplyOrderCancelFromVendor
    <2>2. slice[o][v] \in FlowStatus \ {"Delivered"}
      <3>1. slice[o][v] # "Cancelled"
            BY <2>1 DEF Current, Accepts, AcceptsStatus, AcceptsCancel
      <3>2. slice[o][v] # "Delivered"
            BY <1>4, <2>1 DEF VendorInv, OneEnd
      <3>. QED
            BY <1>2, <3>1, <3>2 DEF SliceStatus
    <2>3. settled[o][v] = Held
          BY <2>2 DEF VendorInv, Accounted
    <2>4. \A p \in Orders, u \in Vendors :
              settled'[p][u] = IF p = o /\ u = v THEN Released(settled[p][u]) ELSE settled[p][u]
          BY <2>1 DEF ReleaseFor
    <2>5. settled'[o][v] = Returned
          BY <2>3, <2>4 DEF Returned
    <2>6. "Cancelled" \notin FlowStatus
          BY DEF FlowStatus
    <2>7. VendorInv'
          BY <1>t, <1>0, <1>3, <1>4, <2>1, <2>4, <2>5, <2>6, VendorEventInv
    <2>. QED
          BY <2>1, <2>3, <2>7
  <1>. QED
        BY <1>5, <1>6, <1>7 DEF ApplyVendorEvent

LEMMA VendorNext ==
    ASSUME Actors = {"vendor"}, OneWorker, VendorInv, [Next]_vars
    PROVE  VendorInv'
  <1>1. CASE UNCHANGED vars
    <2>1. TypedInv'
          BY TypedNext DEF VendorInv
    <2>2. UNCHANGED <<status, slice, site, inbox, outbound, jobs, expiring, settled>>
          BY <1>1 DEF vars
    <2>3. Accounted' /\ OneEnd' /\ StatusFollowsSlices'
          BY <2>2 DEF VendorInv, Accounted, OneEnd, StatusFollowsSlices, Placed
    <2>4. KnownSites' /\ KnownMessages' /\ WholeOrders' /\ expiring' = {}
          BY <2>2 DEF VendorInv, KnownSites, KnownMessages, WholeOrders, Placed
    <2>5. JobsCurrent'
          BY <2>2, JobsKept
    <2>. QED
          BY <2>1, <2>3, <2>4, <2>5 DEF VendorInv
  <1>2. ASSUME NEW w \in Workers, ApplyVendorEvent(w) PROVE VendorInv'
    <2>1. jobs[w] # Idle
          BY <1>2, Busy
    <2>2. PICK o \in Orders, v \in Vendors, s \in Reports : Current(w, o, v, s)
          BY <2>1 DEF VendorInv, JobsCurrent
    <2>. QED
          BY <1>2, <2>2, VendorEvent
  <1>. QED
        BY <1>1, <1>2, OnlyVendors, VendorCheckout, VendorSite, VendorJobs

\* While only the vendors act and one worker applies their events, in whatever
\* order and however often, a reservation is released or confirmed at most once
\* (api/events.py:299-394).
THEOREM VendorsSettleOnce ==
    ASSUME Actors = {"vendor"}, OneWorker
    PROVE  Spec => []SettledOnce
  <1>1. Init => VendorInv
        BY VendorInit
  <1>2. VendorInv /\ [Next]_vars => VendorInv'
        BY VendorNext
  <1>3. VendorInv => SettledOnce
    <2>. SUFFICES ASSUME VendorInv, NEW o \in Orders, NEW v \in Vendors
                  PROVE  settled[o][v].released + settled[o][v].confirmed
                            <= settled[o][v].reserved
         BY DEF SettledOnce
    <2>1. slice[o][v] \in SliceStatus \cup {"none"}
      <3>1. slice[o] \in Slices
            BY DEF VendorInv, TypedInv, TypeOK
      <3>. QED
            BY <3>1 DEF Slices
    <2>2. settled[o][v] \in {NoMoves, Held, Returned, Taken}
          BY <2>1 DEF VendorInv, Accounted, SliceStatus
    <2>. QED
          BY <2>2, MoveValues
  <1>. QED
        BY <1>1, <1>2, <1>3, PTL DEF Spec

-----------------------------------------------------------------------------
(* The status of an order.                                                 *)

\* With one worker, an order is as advanced as its slowest slice that is not
\* cancelled, in whatever order the events of its vendors are applied
\* (api/orders.py:48-77, api/events.py:263-394).
THEOREM StatusKeepsPace ==
    ASSUME Actors = {"vendor"}, OneWorker
    PROVE  Spec => []StatusFollowsSlices
  <1>1. Init => VendorInv
        BY VendorInit
  <1>2. VendorInv /\ [Next]_vars => VendorInv'
        BY VendorNext
  <1>3. VendorInv => StatusFollowsSlices
        BY DEF VendorInv
  <1>. QED
        BY <1>1, <1>2, <1>3, PTL DEF Spec

-----------------------------------------------------------------------------
(* The refinement.                                                         *)

FreeBar == [v \in Vendors |-> stock[v].available]
ClaimBar == [o \in Orders |-> [v \in Vendors |-> ClaimOf(settled[o][v])]]

LEMMA RefineInit == Init => Promise!Init
  <1>. SUFFICES ASSUME Init PROVE Promise!Init
       OBVIOUS
  <1>1. FreeBar = OpeningStock
        BY OrdersAssumption DEF Init, FreeBar, OpeningRow
  <1>2. ClaimBar = [o \in Orders |-> [v \in Vendors |-> "none"]]
        BY ClaimValues DEF Init, ClaimBar
  <1>. QED
        BY <1>1, <1>2 DEF Promise!Init, FreeBar, ClaimBar

\* Reserving for an order that has no claim yet is Hold.
LEMMA RefineHold ==
    ASSUME VendorInv, NEW o \in Orders, status[o] = "none", NEW S \in SUBSET Vendors,
           ReserveFor(o, S), \A v \in S : CanReserve(stock[v], Qty[o][v])
    PROVE  Promise!Hold(o, S)
  <1>1. \A v \in Vendors : settled[o][v] = NoMoves
        BY DEF VendorInv, WholeOrders
  <1>2. \A v \in Vendors : ClaimBar[o][v] = "none"
        BY <1>1, ClaimValues DEF ClaimBar
  <1>3. \A v \in S : FreeBar[v] >= Qty[o][v]
        BY DEF FreeBar, CanReserve
  <1>4. FreeBar' = [v \in Vendors |-> IF v \in S THEN FreeBar[v] - Qty[o][v] ELSE FreeBar[v]]
        BY DEF FreeBar, ReserveFor, Reserve
  <1>5. \A p \in Orders, v \in Vendors :
            ClaimOf(settled'[p][v]) = IF p = o THEN IF v \in S THEN "held" ELSE "none"
                                      ELSE ClaimOf(settled[p][v])
        BY <1>1, ClaimValues DEF ReserveFor, Held
  <1>6. ClaimBar' = [ClaimBar EXCEPT ![o] =
                        [v \in Vendors |-> IF v \in S THEN "held" ELSE "none"]]
        BY <1>5 DEF ClaimBar
  <1>. QED
        BY <1>2, <1>3, <1>4, <1>6 DEF Promise!Hold, FreeBar, ClaimBar

LEMMA RefineReturn ==
    ASSUME VendorInv, NEW o \in Orders, NEW v \in Vendors, settled[o][v] = Held,
           ReleaseFor(o, {v})
    PROVE  Promise!Return(o, v)
  <1>1. ClaimBar[o][v] = "held"
        BY ClaimValues DEF ClaimBar
  <1>2. FreeBar' = [FreeBar EXCEPT ![v] = @ + Qty[o][v]]
        BY DEF FreeBar, ReleaseFor, Release
  <1>3. \A p \in Orders, u \in Vendors :
            ClaimOf(settled'[p][u]) = IF p = o /\ u = v THEN "returned"
                                      ELSE ClaimOf(settled[p][u])
        BY ClaimValues DEF ReleaseFor, Returned
  <1>4. ClaimBar' = [ClaimBar EXCEPT ![o][v] = "returned"]
        BY <1>3 DEF ClaimBar
  <1>. QED
        BY <1>1, <1>2, <1>4 DEF Promise!Return, FreeBar, ClaimBar

LEMMA RefineTake ==
    ASSUME VendorInv, NEW o \in Orders, NEW v \in Vendors, settled[o][v] = Held,
           ConfirmFor(o, {v})
    PROVE  Promise!Take(o, v)
  <1>1. ClaimBar[o][v] = "held"
        BY ClaimValues DEF ClaimBar
  <1>2. FreeBar' = FreeBar
    <2>1. \A u \in Vendors : stock[u] \in Row
          BY DEF VendorInv, TypedInv, TypeOK
    <2>2. \A u \in Vendors : Deduct(stock[u], Qty[o][u]) \in Row
          BY <2>1, RowClosed, OrdersAssumption
    <2>3. \A u \in Vendors : Recount(Deduct(stock[u], Qty[o][u])).available = stock[u].available
          BY <2>1, <2>2 DEF Row, Recount, Deduct
    <2>. QED
          BY <2>3 DEF FreeBar, ConfirmFor
  <1>3. \A p \in Orders, u \in Vendors :
            ClaimOf(settled'[p][u]) = IF p = o /\ u = v THEN "taken"
                                      ELSE ClaimOf(settled[p][u])
        BY ClaimValues DEF ConfirmFor, Taken
  <1>4. ClaimBar' = [ClaimBar EXCEPT ![o][v] = "taken"]
        BY <1>3 DEF ClaimBar
  <1>. QED
        BY <1>1, <1>2, <1>4 DEF Promise!Take, FreeBar, ClaimBar

\* Every step of the vendors is a step of Settlement or leaves it unchanged.
LEMMA RefineNext ==
    ASSUME Actors = {"vendor"}, OneWorker, VendorInv, [Next]_vars
    PROVE  Promise!Next \/ UNCHANGED <<FreeBar, ClaimBar>>
  <1>c. \A o \in Orders : Cart(o) \in SUBSET Vendors
        BY DEF Cart
  <1>1. ASSUME NEW o \in Orders, Checkout(o) PROVE Promise!Next
    <2>1. Promise!Hold(o, Cart(o))
          BY <1>1, <1>c, RefineHold DEF Checkout
    <2>. QED
          BY <1>c, <2>1 DEF Promise!Next
  <1>2. ASSUME NEW o \in Orders, CheckoutShort(o) PROVE Promise!Next
    <2>1. PICK S \in SUBSET {u \in Cart(o) : CanReserve(stock[u], Qty[o][u])} : ReserveFor(o, S)
          BY <1>2 DEF CheckoutShort
    <2>2. S \in SUBSET Vendors
          BY <1>c
    <2>3. Promise!Hold(o, S)
          BY <1>2, <2>1, <2>2, RefineHold DEF CheckoutShort
    <2>. QED
          BY <2>2, <2>3 DEF Promise!Next
  <1>3. ASSUME UNCHANGED <<stock, settled>> PROVE UNCHANGED <<FreeBar, ClaimBar>>
        BY <1>3 DEF FreeBar, ClaimBar
  <1>4. ASSUME NEW o \in Orders, NEW v \in Vendors, SiteStep(o, v)
        PROVE  UNCHANGED <<FreeBar, ClaimBar>>
    <2>1. UNCHANGED <<stock, settled>>
          BY <1>4 DEF SiteStep, SiteReceivesOrder, SiteAdvances, SiteCancels,
                      SiteHearsCancellation, SiteReports, SiteUnchanged
    <2>. QED
          BY <1>3, <2>1
  <1>5. ASSUME NEW w \in Workers, ApplyVendorEvent(w)
        PROVE  Promise!Next \/ UNCHANGED <<FreeBar, ClaimBar>>
    <2>0. jobs[w] # Idle
          BY <1>5, Busy
    <2>p. PICK o \in Orders, v \in Vendors, s \in Reports : Current(w, o, v, s)
          BY <2>0 DEF VendorInv, JobsCurrent
    <2>1. CASE UNCHANGED <<stock, settled>>
          BY <1>3, <2>1
    <2>2. CASE settled[o][v] = Held /\ ReleaseFor(o, {v})
      <3>1. Promise!Return(o, v)
            BY <2>2, RefineReturn
      <3>. QED
            BY <3>1 DEF Promise!Next
    <2>3. CASE settled[o][v] = Held /\ ConfirmFor(o, {v})
      <3>1. Promise!Take(o, v)
            BY <2>3, RefineTake
      <3>. QED
            BY <3>1 DEF Promise!Next
    <2>. QED
          BY <1>5, <2>p, <2>1, <2>2, <2>3, VendorEvent
  <1>6. ASSUME NEW w \in Workers,
               \/ RollBack(w)
               \/ \E o \in Orders, v \in Vendors, s \in Reports : StartEvent(w, o, v, s)
        PROVE  UNCHANGED <<FreeBar, ClaimBar>>
        BY <1>3, <1>6, VendorJobs
  <1>7. CASE UNCHANGED vars
        BY <1>3, <1>7 DEF vars
  <1>. QED
        BY <1>1, <1>2, <1>4, <1>5, <1>6, <1>7, OnlyVendors

\* With only the vendors acting and one worker, orders implement Settlement: their units are
\* held once, and what is held is returned or taken, once and never both
\* (api/stock.py:10-16).
THEOREM VendorsKeepThePromise ==
    ASSUME Actors = {"vendor"}, OneWorker
    PROVE  Spec => ImplementsSettlement
  <1>1. Init => Promise!Init /\ VendorInv
        BY RefineInit, VendorInit
  <1>2. VendorInv /\ [Next]_vars => VendorInv'
        BY VendorNext
  <1>3. VendorInv /\ [Next]_vars => [Promise!Next]_<<FreeBar, ClaimBar>>
        BY RefineNext
  <1>. QED
        BY <1>1, <1>2, <1>3, PTL DEF Spec, ImplementsSettlement, Promise!Spec, FreeBar, ClaimBar
-----------------------------------------------------------------------------
(* A delivered slice has had its stock deducted.                           *)

Deducted(o, v) == settled[o][v].confirmed > 0

\* A document that an admin has read says no more than the rows do.
ReadDeducted ==
    \A a \in Admins : jobs[a] # Idle =>
        \A o \in Orders, v \in Vendors :
            jobs[a].order = o /\ jobs[a].slices[v] = "Delivered" => Deducted(o, v)

DeductedInv == TypedInv /\ DeliveredIsDeducted /\ ReadDeducted

\* Deductions are never taken back.
Grows == \A o \in Orders, v \in Vendors : Deducted(o, v) => Deducted(o, v)'

\* A slice becomes Delivered with its stock deducted, or where a document that
\* was read earlier says so.
DeliversDeducted ==
    \A o \in Orders, v \in Vendors :
        slice'[o][v] = "Delivered" =>
            \/ slice[o][v] = "Delivered"
            \/ Deducted(o, v)'
            \/ \E a \in Admins : jobs[a] # Idle /\ jobs[a].order = o
                                   /\ jobs[a].slices[v] = "Delivered"

\* An admin reads the slices as they are.
ReadsSlices ==
    \A a \in Admins :
        \/ jobs'[a] = jobs[a]
        \/ jobs'[a] = Idle
        \/ jobs'[a].slices = slice[jobs'[a].order]

\* The stock of an order moves and what was deducted stays so.
LEMMA MovesGrow ==
    ASSUME TypeOK, NEW o \in Orders, NEW S,
           ReserveFor(o, S) \/ ReleaseFor(o, S) \/ ConfirmFor(o, S)
    PROVE  Grows /\ (ConfirmFor(o, S) => \A v \in S \cap Vendors : Deducted(o, v)')
  <1>. DEFINE m(p, v) == settled[p][v]
  <1>0. \A p \in Orders, v \in Vendors :
            /\ m(p, v).confirmed \in Nat
            /\ Reserved(m(p, v)).confirmed = m(p, v).confirmed
            /\ Released(m(p, v)).confirmed = m(p, v).confirmed
            /\ Confirmed(m(p, v)).confirmed = m(p, v).confirmed + 1
    <2>1. \A p \in Orders, v \in Vendors : m(p, v) \in Moves
          BY DEF TypeOK
    <2>. HIDE DEF m
    <2>. QED
          BY <2>1 DEF Moves, Reserved, Released, Confirmed
  <1>1. CASE ReserveFor(o, S)
    <2>1. \A p \in Orders, v \in Vendors :
              settled'[p][v] = m(p, v) \/ settled'[p][v] = Reserved(m(p, v))
          BY <1>1 DEF ReserveFor
    <2>2. Grows
          BY <1>0, <2>1 DEF Grows, Deducted
    <2>3. ASSUME ConfirmFor(o, S), NEW v \in S \cap Vendors PROVE Deducted(o, v)'
      <3>1. settled'[o][v] = Confirmed(m(o, v))
            BY <2>3 DEF ConfirmFor
      <3>. QED
            BY <1>0, <3>1 DEF Deducted
    <2>. QED
          BY <2>2, <2>3
  <1>2. CASE ReleaseFor(o, S)
    <2>1. \A p \in Orders, v \in Vendors :
              settled'[p][v] = m(p, v) \/ settled'[p][v] = Released(m(p, v))
          BY <1>2 DEF ReleaseFor
    <2>2. Grows
          BY <1>0, <2>1 DEF Grows, Deducted
    <2>3. ASSUME ConfirmFor(o, S), NEW v \in S \cap Vendors PROVE Deducted(o, v)'
      <3>1. settled'[o][v] = Confirmed(m(o, v))
            BY <2>3 DEF ConfirmFor
      <3>. QED
            BY <1>0, <3>1 DEF Deducted
    <2>. QED
          BY <2>2, <2>3
  <1>3. CASE ConfirmFor(o, S)
    <2>1. \A p \in Orders, v \in Vendors :
              settled'[p][v] = IF p = o /\ v \in S THEN Confirmed(m(p, v)) ELSE m(p, v)
          BY <1>3 DEF ConfirmFor
    <2>2. Grows
          BY <1>0, <2>1 DEF Grows, Deducted
    <2>3. \A v \in S \cap Vendors : Deducted(o, v)'
          BY <1>0, <2>1 DEF Deducted
    <2>. QED
          BY <2>2, <2>3
  <1>. QED
        BY <1>1, <1>2, <1>3

\* These three facts about a step make it preserve the invariant.
LEMMA DeductedStep ==
    ASSUME DeductedInv, Grows, DeliversDeducted, ReadsSlices,
           jobs' \in [Workers \cup Admins -> Job]
    PROVE  DeliveredIsDeducted' /\ ReadDeducted'
  <1>1. ASSUME NEW o \in Orders, NEW v \in Vendors, slice'[o][v] = "Delivered"
        PROVE  Deducted(o, v)'
    <2>1. CASE slice[o][v] = "Delivered"
      <3>1. Deducted(o, v)
            BY <2>1 DEF DeductedInv, DeliveredIsDeducted, Deducted
      <3>. QED
            BY <3>1 DEF Grows
    <2>2. CASE \E a \in Admins : jobs[a] # Idle /\ jobs[a].order = o
                                   /\ jobs[a].slices[v] = "Delivered"
      <3>1. Deducted(o, v)
            BY <2>2 DEF DeductedInv, ReadDeducted
      <3>. QED
            BY <3>1 DEF Grows
    <2>. QED
          BY <1>1, <2>1, <2>2 DEF DeliversDeducted
  <1>2. ASSUME NEW a \in Admins, jobs'[a] # Idle, NEW o \in Orders, NEW v \in Vendors,
               jobs'[a].order = o, jobs'[a].slices[v] = "Delivered"
        PROVE  Deducted(o, v)'
    <2>1. CASE jobs'[a] = jobs[a]
      <3>1. Deducted(o, v)
            BY <1>2, <2>1 DEF DeductedInv, ReadDeducted
      <3>. QED
            BY <3>1 DEF Grows
    <2>2. CASE jobs'[a].slices = slice[jobs'[a].order]
      <3>1. Deducted(o, v)
            BY <1>2, <2>2 DEF DeductedInv, DeliveredIsDeducted, Deducted
      <3>. QED
            BY <3>1 DEF Grows
    <2>. QED
          BY <1>2, <2>1, <2>2 DEF ReadsSlices
  <1>. QED
        BY <1>1, <1>2 DEF DeliveredIsDeducted, ReadDeducted, Deducted

\* Steps that touch neither slices nor deductions.
LEMMA DeductedStutter ==
    ASSUME DeductedInv, jobs' \in [Workers \cup Admins -> Job],
           slice' = slice, settled' = settled, ReadsSlices
    PROVE  DeliveredIsDeducted' /\ ReadDeducted'
  <1>1. Grows
        BY DEF Grows, Deducted
  <1>2. DeliversDeducted
        BY DEF DeliversDeducted
  <1>. QED
        BY <1>1, <1>2, DeductedStep

LEMMA DeductedCheckout ==
    ASSUME DeductedInv, NEW o \in Orders, CheckoutStep(o), TypedInv'
    PROVE  DeductedInv'
  <1>t. TypeOK /\ TypeOK'
        BY DEF DeductedInv, TypedInv
  <1>1. jobs' = jobs
        BY DEF CheckoutStep, Checkout, CheckoutShort, CheckoutRedeemFails
  <1>2. DeliversDeducted
    <2>1. SetSlices(o, Cart(o), "Pending") \/ slice' = slice
          BY DEF CheckoutStep, Checkout, CheckoutShort, CheckoutRedeemFails
    <2>2. \A p \in Orders, v \in Vendors : slice'[p][v] = "Pending" \/ slice'[p][v] = slice[p][v]
      <3>1. CASE SetSlices(o, Cart(o), "Pending")
            BY <1>t, <3>1 DEF SetSlices, TypeOK, Slices
      <3>. QED
            BY <2>1, <3>1
    <2>. QED
          BY <2>2 DEF DeliversDeducted
  <1>3. Grows
    <2>1. CASE Checkout(o) \/ CheckoutShort(o)
      <3>1. PICK S : ReserveFor(o, S)
            BY <2>1 DEF Checkout, CheckoutShort
      <3>. QED
            BY <1>t, <3>1, MovesGrow
    <2>2. CASE CheckoutRedeemFails(o)
      <3>1. \A p \in Orders, v \in Vendors : settled[p][v] \in Moves
            BY <1>t DEF TypeOK
      <3>2. \A p \in Orders, v \in Vendors :
                settled'[p][v].confirmed = settled[p][v].confirmed
            BY <2>2, <3>1 DEF CheckoutRedeemFails, Moves, Released, Reserved
      <3>. QED
            BY <3>2 DEF Grows, Deducted
    <2>. QED
          BY <2>1, <2>2 DEF CheckoutStep
  <1>4. ReadsSlices
        BY <1>1 DEF ReadsSlices
  <1>5. jobs' \in [Workers \cup Admins -> Job]
        BY <1>t DEF TypeOK
  <1>. QED
        BY <1>2, <1>3, <1>4, <1>5, DeductedStep DEF DeductedInv

LEMMA DeductedWorker ==
    ASSUME DeductedInv, NEW w \in Workers, WorkerStep(w), TypedInv'
    PROVE  DeductedInv'
  <1>t. TypeOK /\ TypeOK' /\ jobs[w] \in Job
        BY DEF DeductedInv, TypedInv, TypeOK
  <1>j. jobs' \in [Workers \cup Admins -> Job]
        BY <1>t DEF TypeOK
  <1>1. ReadsSlices
    <2>1. \E j \in Job \cup EventJob : jobs' = [jobs EXCEPT ![w] = j]
      <3>1. CASE ApplyVendorEvent(w)
            BY <3>1 DEF ApplyVendorEvent, ApplyOrderStatus, ApplyOrderDelivered,
                        ApplyOrderCancelFromVendor, WriteSlice, Job
      <3>2. ASSUME NEW o \in Orders, NEW v \in Vendors, NEW s \in Reports, StartEvent(w, o, v, s)
            PROVE  \E j \in Job \cup EventJob : jobs' = [jobs EXCEPT ![w] = j]
        <4>1. jobs' = [jobs EXCEPT ![w] = [kind |-> "event", type |-> s, order |-> o, vendor |-> v,
                                           status |-> Recomputed(o, v, s)]]
              BY <3>2 DEF StartEvent
        <4>. QED
              BY <1>t, <4>1, EventTyped
      <3>. QED
            BY <3>1, <3>2 DEF WorkerStep
    <2>2. \A a \in Admins : a # w
          BY OrdersAssumption
    <2>. QED
          BY <1>t, <2>1, <2>2 DEF ReadsSlices, TypeOK
  <1>2. ASSUME NEW o \in Orders, NEW v \in Vendors, NEW s \in Reports, StartEvent(w, o, v, s)
        PROVE  DeductedInv'
        BY <1>1, <1>2, <1>j, DeductedStutter DEF StartEvent, DeductedInv
  <1>3. CASE ApplyVendorEvent(w)
    <2>1. jobs[w].kind = "event" /\ WriteSlice(w)
          BY <1>3 DEF ApplyVendorEvent, ApplyOrderStatus, ApplyOrderDelivered,
                      ApplyOrderCancelFromVendor
    <2>2. PICK o \in Orders, v \in Vendors, s \in Reports :
              jobs[w].order = o /\ jobs[w].vendor = v /\ jobs[w].type = s
      <3>1. jobs[w] \in EventJob
            BY <1>t, <2>1, JobKinds
      <3>. QED
            BY <3>1 DEF EventJob
    <2>3. \A p \in Orders, u \in Vendors :
              slice'[p][u] = IF p = o /\ u = v THEN s ELSE slice[p][u]
          BY <1>t, <2>1, <2>2 DEF WriteSlice, SetSlices, TypeOK, Slices
    <2>4. Grows /\ (s = "Delivered" => Deducted(o, v)')
      <3>1. CASE ApplyOrderStatus(w)
            BY <2>2, <3>1 DEF ApplyOrderStatus, Grows, Deducted
      <3>2. CASE ApplyOrderDelivered(w)
        <4>1. ConfirmFor(o, {v})
              BY <2>2, <3>2 DEF ApplyOrderDelivered
        <4>. QED
              BY <1>t, <4>1, MovesGrow
      <3>3. CASE ApplyOrderCancelFromVendor(w)
        <4>1. ReleaseFor(o, {v}) /\ s = "Cancelled"
              BY <2>2, <3>3 DEF ApplyOrderCancelFromVendor
        <4>. QED
              BY <1>t, <4>1, MovesGrow
      <3>. QED
            BY <1>3, <3>1, <3>2, <3>3 DEF ApplyVendorEvent
    <2>5. DeliversDeducted
          BY <2>3, <2>4 DEF DeliversDeducted
    <2>. QED
          BY <1>1, <1>j, <2>4, <2>5, DeductedStep DEF DeductedInv
  <1>. QED
        BY <1>2, <1>3 DEF WorkerStep

LEMMA DeductedAdmin ==
    ASSUME DeductedInv, NEW a \in Admins, AdminStep(a), TypedInv'
    PROVE  DeductedInv'
  <1>t. TypeOK /\ TypeOK' /\ jobs[a] \in Job
        BY DEF DeductedInv, TypedInv, TypeOK
  <1>j. jobs' \in [Workers \cup Admins -> Job]
        BY <1>t DEF TypeOK
  <1>c. \A o \in Orders : Cart(o) \subseteq Vendors
        BY DEF Cart
  <1>1. ASSUME NEW o \in Orders, NEW kind, NEW to, StartSave(a, o, kind, to)
        PROVE  DeductedInv'
    <2>1. jobs' = [jobs EXCEPT ![a] = [kind |-> kind, to |-> to, order |-> o,
                                       row |-> RowOf(o), slices |-> slice[o]]]
          BY <1>1 DEF StartSave
    <2>2. jobs'[a].slices = slice[jobs'[a].order]
          BY <1>t, <2>1 DEF TypeOK
    <2>3. \A b \in Admins : b # a => jobs'[b] = jobs[b]
          BY <1>t, <2>1 DEF TypeOK
    <2>4. ReadsSlices
          BY <2>2, <2>3 DEF ReadsSlices
    <2>. QED
          BY <1>1, <1>j, <2>4, DeductedStutter DEF StartSave, DeductedInv
  <1>2. ASSUME UpdateOrderStatus(a) \/ RefundOrder(a) \/ ApplyPartialPayment(a)
        PROVE  DeductedInv'
    <2>0. jobs[a].kind \in {"update", "refund", "payment"}
          BY <1>2 DEF UpdateOrderStatus, RefundOrder, ApplyPartialPayment
    <2>1. PICK o \in Orders, f \in Slices : jobs[a].order = o /\ jobs[a].slices = f
          BY <1>t, <2>0, JobKinds DEF SaveJob
    <2>2. jobs[a] # Idle
          BY <2>0 DEF Idle
    <2>3. jobs' = [jobs EXCEPT ![a] = Idle]
          BY <1>2 DEF UpdateOrderStatus, RefundOrder, ApplyPartialPayment, RequestEnds
    <2>4. ReadsSlices
          BY <1>t, <2>3 DEF ReadsSlices, TypeOK
    \* What is written where the document was read.
    <2>5. CASE UpdateOrderStatus(a)
      <3>0. PICK s : s = jobs[a].to
            OBVIOUS
      <3>1. slice' = [slice EXCEPT ![o] =
                        [v \in Vendors |->
                            IF v \in Cart(o) /\ f[v] \notin {"Delivered", "Cancelled"}
                            THEN s ELSE f[v]]]
            BY <2>1, <2>5, <3>0 DEF UpdateOrderStatus, DocSave
      <3>2. \A p \in Orders, v \in Vendors :
                slice'[p][v] = "Delivered" =>
                    \/ slice[p][v] = "Delivered"
                    \/ p = o /\ f[v] = "Delivered"
                    \/ p = o /\ v \in Cart(o) /\ s = "Delivered"
            BY <1>t, <2>1, <3>1 DEF TypeOK
      <3>3. /\ s = "Cancelled" => ReleaseFor(o, Cart(o))
            /\ s = "Delivered" => ConfirmFor(o, Cart(o))
            /\ s # "Cancelled" /\ s # "Delivered" => UNCHANGED <<stock, settled>>
            BY <2>1, <2>5, <3>0 DEF UpdateOrderStatus
      <3>4. Grows /\ (s = "Delivered" => \A v \in Cart(o) : Deducted(o, v)')
        <4>1. CASE s = "Cancelled"
              BY <1>t, <3>3, <4>1, MovesGrow
        <4>2. CASE s = "Delivered"
              BY <1>t, <1>c, <3>3, <4>2, MovesGrow
        <4>3. CASE s # "Cancelled" /\ s # "Delivered"
              BY <3>3, <4>3 DEF Grows, Deducted
        <4>. QED
              BY <4>1, <4>2, <4>3
      <3>5. DeliversDeducted
            BY <2>1, <2>2, <3>2, <3>4 DEF DeliversDeducted
      <3>. QED
            BY <1>j, <2>4, <3>4, <3>5, DeductedStep DEF DeductedInv
    <2>6. CASE RefundOrder(a) \/ ApplyPartialPayment(a)
      <3>1. slice' = slice \/ slice' = [slice EXCEPT ![o] = f]
            BY <2>1, <2>6 DEF RefundOrder, ApplyPartialPayment, DocSave
      <3>2. \A p \in Orders, v \in Vendors :
                slice'[p][v] = "Delivered" => slice[p][v] = "Delivered" \/ (p = o /\ f[v] = "Delivered")
        <4>1. CASE slice' = [slice EXCEPT ![o] = f]
              BY <1>t, <4>1 DEF TypeOK
        <4>. QED
              BY <3>1, <4>1
      <3>3. DeliversDeducted
            BY <2>1, <2>2, <3>2 DEF DeliversDeducted
      <3>4. Grows
        <4>1. CASE RefundOrder(a)
          <5>1. ReleaseFor(o, Cart(o))
                BY <2>1, <4>1 DEF RefundOrder
          <5>. QED
                BY <1>t, <5>1, MovesGrow
        <4>2. CASE ApplyPartialPayment(a)
              BY <4>2 DEF ApplyPartialPayment, Grows, Deducted
        <4>. QED
              BY <2>6, <4>1, <4>2
      <3>. QED
            BY <1>j, <2>4, <3>3, <3>4, DeductedStep DEF DeductedInv
    <2>. QED
          BY <1>2, <2>5, <2>6
  <1>. QED
        BY <1>1, <1>2 DEF AdminStep

LEMMA DeductedOther ==
    ASSUME DeductedInv, TypedInv',
           \/ SomeSite
           \/ ExpiryScan
           \/ \E o \in Orders : MarkOrderPaid(o) \/ MarkOrderFailed(o) \/ ExpireOrder(o)
           \/ \E w \in Workers \cup Admins : RollBack(w)
           \/ UNCHANGED vars
    PROVE  DeductedInv'
  <1>t. TypeOK
        BY DEF DeductedInv, TypedInv
  <1>j. jobs' \in [Workers \cup Admins -> Job]
        BY DEF TypedInv, TypeOK
  <1>1. slice' = slice
        BY ZenonT(40) DEF SomeSite, SiteStep, SiteReceivesOrder, SiteAdvances, SiteCancels,
               SiteHearsCancellation, SiteReports, SiteUnchanged, ExpiryScan, MarkOrderPaid,
               MarkOrderFailed, ExpireOrder, RollBack, vars
  <1>2. jobs' = jobs \/ \E w \in Workers \cup Admins : jobs' = [jobs EXCEPT ![w] = Idle]
        BY ZenonT(40) DEF SomeSite, SiteStep, SiteReceivesOrder, SiteAdvances, SiteCancels,
               SiteHearsCancellation, SiteReports, SiteUnchanged, ExpiryScan, MarkOrderPaid,
               MarkOrderFailed, ExpireOrder, RollBack, vars
  <1>3. ReadsSlices
        BY <1>t, <1>2 DEF ReadsSlices, TypeOK
  <1>4. settled' = settled \/ \E o \in Orders, S \in SUBSET Vendors : ReleaseFor(o, S)
    <2>1. \A o \in Orders : Cart(o) \in SUBSET Vendors
          BY DEF Cart
    <2>2. ASSUME NEW o \in Orders, MarkOrderFailed(o) \/ ExpireOrder(o)
          PROVE  ReleaseFor(o, Cart(o))
          BY <2>2 DEF MarkOrderFailed, ExpireOrder
    <2>3. ASSUME NEW o \in Orders, MarkOrderPaid(o) PROVE settled' = settled
          BY <2>3 DEF MarkOrderPaid
    <2>4. ASSUME \/ SomeSite \/ ExpiryScan \/ UNCHANGED vars
                 \/ \E w \in Workers \cup Admins : RollBack(w)
          PROVE  settled' = settled
          BY <2>4, ZenonT(40) DEF SomeSite, SiteStep, SiteReceivesOrder, SiteAdvances, SiteCancels,
               SiteHearsCancellation, SiteReports, SiteUnchanged, ExpiryScan, RollBack, vars
    <2>. QED
          BY <2>1, <2>2, <2>3, <2>4
  <1>5. Grows
        BY <1>t, <1>4, MovesGrow DEF Grows, Deducted
  <1>6. DeliversDeducted
        BY <1>1 DEF DeliversDeducted
  <1>. QED
        BY <1>3, <1>5, <1>6, <1>j, DeductedStep DEF DeductedInv

\* A vendor's slice is Delivered only if its stock was deducted, whoever acts and
\* whatever stale document an admin's request writes back (api/events.py:299-337,
\* api/orders.py:346-377 and 477-615).
THEOREM DeliveredWasDeducted == Spec => []DeliveredIsDeducted
  <1>1. Init => DeductedInv
    <2>1. Init => TypedInv
          BY TypedInit
    <2>2. Init => DeliveredIsDeducted /\ ReadDeducted
          BY DEF Init, DeliveredIsDeducted, ReadDeducted
    <2>. QED
          BY <2>1, <2>2 DEF DeductedInv
  <1>2. DeductedInv /\ [Next]_vars => DeductedInv'
    <2>. SUFFICES ASSUME DeductedInv, [Next]_vars PROVE DeductedInv'
         OBVIOUS
    <2>1. TypedInv'
          BY TypedNext DEF DeductedInv
    <2>. QED
          BY <2>1, DeductedCheckout, DeductedWorker, DeductedAdmin, DeductedOther DEF Next
  <1>. QED
        BY <1>1, <1>2, PTL DEF Spec, DeductedInv

-----------------------------------------------------------------------------
(* A vendor's event stays with its vendor.                                 *)

\* An event from one vendor leaves the slices and the stock of every other
\* vendor alone, with any number of workers (README.md:159-161,
\* api/events.py:263-394).
THEOREM VendorsKeptApart == Spec => VendorsIsolated
  <1>1. Init => TypedInv
        BY TypedInit
  <1>2. TypedInv /\ [Next]_vars => TypedInv'
        BY TypedNext
  <1>. DEFINE Apart == \A w \in Workers : ApplyVendorEvent(w) =>
                           \A o \in Orders, u \in Vendors \ {jobs[w].vendor} :
                               slice'[o][u] = slice[o][u] /\ stock'[u] = stock[u]
  <1>3. TypedInv => Apart
    <2>. SUFFICES ASSUME TypedInv, NEW w \in Workers, ApplyVendorEvent(w),
                         NEW o \in Orders, NEW u \in Vendors \ {jobs[w].vendor}
                  PROVE  slice'[o][u] = slice[o][u] /\ stock'[u] = stock[u]
         OBVIOUS
    <2>t. TypeOK
          BY DEF TypedInv
    <2>1. SetSlices(jobs[w].order, {jobs[w].vendor}, jobs[w].type)
          BY DEF ApplyVendorEvent, ApplyOrderStatus, ApplyOrderDelivered,
                 ApplyOrderCancelFromVendor, WriteSlice
    <2>2. slice'[o][u] = slice[o][u]
          BY <2>t, <2>1 DEF SetSlices, TypeOK, Slices
    <2>3. \/ stock' = stock
          \/ ConfirmFor(jobs[w].order, {jobs[w].vendor})
          \/ ReleaseFor(jobs[w].order, {jobs[w].vendor})
          BY DEF ApplyVendorEvent, ApplyOrderStatus, ApplyOrderDelivered,
                 ApplyOrderCancelFromVendor
    <2>4. stock'[u] = stock[u]
          BY <2>3 DEF ConfirmFor, ReleaseFor
    <2>. QED
          BY <2>2, <2>4
  <1>. QED
        BY <1>1, <1>2, <1>3, PTL DEF Spec, VendorsIsolated
=============================================================================
