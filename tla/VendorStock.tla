----------------------------- MODULE VendorStock -----------------------------
(***************************************************************************)
(* The stock of one product at one vendor (api/stock.py), under concurrent *)
(* requests.  Four kinds of writer share the Vendor Stock rows:            *)
(*                                                                         *)
(*   - customers' orders, whose reserve / release / confirm are single     *)
(*     UPDATE statements, atomic on the current row;                       *)
(*   - the background workers that apply the vendor's stock.* events;      *)
(*   - the vendor's own reconciliation request; and                        *)
(*   - the discrepancy reports with which the vendor answers a snapshot of *)
(*     its stock; small differences are corrected (api/stock_snapshot.py,  *)
(*     api/reconciliation.py).                                             *)
(*                                                                         *)
(* All but the first read a row (a plain SELECT: the transaction's         *)
(* snapshot), compute in Python and write absolute values back, so each is *)
(* two steps here, with any other writer's step possible between.  A       *)
(* vendor with several warehouses has one row per warehouse; the rows are  *)
(* created on first use.  The hourly cron reconcile_stock_hourly is not a  *)
(* writer: it does not select the rows' names, and hands None to           *)
(* correct_or_flag where the row to correct belongs.                       *)
(***************************************************************************)
EXTENDS StockRow, FiniteSetsExt

CONSTANTS
    Warehouses,        \* the warehouses stock can be recorded under
    DefaultWarehouse,  \* the row used when a call names no warehouse
    OpeningRows,       \* the warehouses whose row exists at the start
    Opening,           \* units available per warehouse at the start
    OpeningLedger,     \* Product.stock_qty at the start
    Events,            \* the stock.* events the vendor pushes
    EventIds,          \* their event_id values
    NoEvent,           \* last_event_id of a row no event has touched
    Workers,           \* concurrent background jobs and reconcile requests
    OrderQtys,         \* quantities an order line may ask for
    ExpectedQtys,      \* totals a reconciliation request may report
    Reports,           \* discrepancies the vendor may report
    ProductSaves,      \* whether an admin ever saves the Product
    MaxSingleEventQty, \* MAX_SINGLE_EVENT_QTY
    MaxOrders,         \* bound: reservations ever made
    MaxCorrections,    \* bound: reconciliations and reports ever handled
    MaxApplied         \* bound: times one event is ever applied

\* An absent event_seq or base_qty in an event's payload.
Absent == -1

ASSUME WarehousesAssumption ==
    /\ DefaultWarehouse \in Warehouses
    /\ OpeningRows \subseteq Warehouses
    /\ Opening \in [Warehouses -> Nat]
    /\ \A w \in Warehouses \ OpeningRows : Opening[w] = 0
    /\ OpeningLedger \in Int
    /\ Warehouses = {DefaultWarehouse} => OpeningLedger = Opening[DefaultWarehouse]

ASSUME EventsAssumption ==
    /\ NoEvent \notin EventIds
    /\ Events \subseteq [id : EventIds, seq : Nat \cup {Absent}, qty : Int,
                         base : Nat \cup {Absent}, warehouse : Warehouses]

ASSUME QuantitiesAssumption ==
    /\ OrderQtys \subseteq Nat \ {0}
    /\ ExpectedQtys \subseteq Nat
    /\ Reports \subseteq [hub : Nat, local : Nat]
    /\ ProductSaves \in BOOLEAN
    /\ MaxSingleEventQty \in Nat
    /\ MaxOrders \in Nat
    /\ MaxCorrections \in Nat
    /\ MaxApplied \in Nat

VARIABLES
    present,      \* the warehouses that have a Vendor Stock row
    rows,         \* the quantities of each row
    seen,         \* last_event_id and last_event_seq of each row
    stockQty,     \* Product.stock_qty, the running balance of the ledger
    jobs,         \* what each worker has read and not yet written
    held,         \* units promised to orders neither cancelled nor delivered
    made,         \* reservations ever made
    corrections,  \* reconciliations and reports ever handled
    applied       \* times each event's quantity was added

bounds == <<made, corrections>>
vars == <<present, rows, seen, stockQty, jobs, held, made, corrections, applied>>

Mark == [event : EventIds \cup {NoEvent}, seq : Nat]
NoMark == [event |-> NoEvent, seq |-> 0]

Idle == [kind |-> "idle"]
EventJob == [kind : {"event"}, event : Events, created : BOOLEAN,
             read : Row, seq : Nat]
ReconcileJob == [kind : {"reconcile"}, created : BOOLEAN, read : Row,
                 expected : Nat]
CorrectionJob == [kind : {"correction"}, created : {FALSE}, reserved : Int,
                  warehouse : Warehouses, report : Reports]
Job == {Idle} \cup EventJob \cup ReconcileJob \cup CorrectionJob

TypeOK ==
    /\ present \in SUBSET Warehouses
    /\ rows \in [Warehouses -> Row]
    /\ seen \in [Warehouses -> Mark]
    /\ stockQty \in Int
    /\ jobs \in [Workers -> Job]
    /\ held \in Nat
    /\ made \in Nat
    /\ corrections \in Nat
    /\ applied \in [Events -> Nat]

Init ==
    /\ present = OpeningRows
    /\ rows = [w \in Warehouses |-> OpeningRow(Opening[w])]
    /\ seen = [w \in Warehouses |-> NoMark]
    /\ stockQty = OpeningLedger
    /\ jobs = [p \in Workers |-> Idle]
    /\ held = 0
    /\ made = 0
    /\ corrections = 0
    /\ applied = [e \in Events |-> 0]

-----------------------------------------------------------------------------
(* Orders: single UPDATE statements on every row of the (vendor, product). *)

\* Rows a reserving UPDATE would change.
Reservable(q) == {w \in present : CanReserve(rows[w], q)}

\* rowcount = 0 raises "only n left" and writes nothing: no step here.
AtomicReserve(q) ==
    /\ made < MaxOrders
    /\ Reservable(q) # {}
    /\ rows' = [w \in Warehouses |->
                    IF w \in Reservable(q) THEN Reserve(rows[w], q) ELSE rows[w]]
    /\ held' = held + q
    /\ made' = made + 1
    /\ UNCHANGED <<present, seen, stockQty, jobs, corrections, applied>>

\* Called with the quantity of a line that was reserved, once.
ReleaseReservation(q) ==
    /\ q <= held
    /\ rows' = [w \in Warehouses |->
                    IF w \in present THEN Release(rows[w], q) ELSE rows[w]]
    /\ held' = held - q
    /\ UNCHANGED <<present, seen, stockQty, jobs, applied>>
    /\ UNCHANGED bounds

\* physical_qty is recounted in the default row only.  make_entry locks the
\* Product row, so the ledger balance always moves by exactly -q.
ConfirmDeduction(q) ==
    /\ q <= held
    /\ rows' = [w \in Warehouses |->
                    IF w \notin present THEN rows[w]
                    ELSE IF w = DefaultWarehouse THEN Recount(Deduct(rows[w], q))
                    ELSE Deduct(rows[w], q)]
    /\ held' = held - q
    /\ stockQty' = stockQty - q
    /\ UNCHANGED <<present, seen, jobs, applied>>
    /\ UNCHANGED bounds

-----------------------------------------------------------------------------
(* The vendor's stock events, applied by background workers.               *)

IsReplay(e, mark) == e.id = mark.event

\* Fault: only exact replays are refused.
InSequenceIfNew(e, mark) == e.id # mark.event

InSequence(e, mark) == e.seq # Absent => e.seq > mark.seq

SaneSize(e) == e.qty \in -MaxSingleEventQty .. MaxSingleEventQty

\* base_qty must match what the hub has, except on a row never synchronised.
FreshBase(e, mark, row) ==
    e.base # Absent /\ mark.seq > 0 => e.base = OnHand(row)

\* _validate_event, and the negative-balance check of _apply_stock_delta.
\* A refused event is logged and counts as processed.
Accepts(e, mark, row) ==
    /\ ~IsReplay(e, mark)
    /\ InSequence(e, mark)
    /\ SaneSize(e)
    /\ FreshBase(e, mark, row)
    /\ e.qty < 0 => row.available + e.qty >= 0

\* Fault: an event without a number restarts the sequence.
NextSeqsFromOne(e) == IF e.seq # Absent THEN {e.seq} ELSE {1}

\* Fault: the missing number is stored as it came.
NextSeqsAsSent(e) == {e.seq}

\* event_seq, or MAX(last_event_seq) + 1 over the rows when it is absent.
NextSeqs(e) ==
    IF e.seq # Absent THEN {e.seq}
    ELSE {n \in {seen[w].seq + 1 : w \in Warehouses} :
            \A w \in Warehouses : seen[w].seq < n}

\* The worker's SELECTs.  get_or_create inserts a missing row; the insert
\* becomes visible when the job commits.  A refused event commits only that.
StartEvent(p, e) ==
    /\ jobs[p] = Idle
    /\ applied[e] < MaxApplied
    /\ \/ /\ Accepts(e, seen[e.warehouse], rows[e.warehouse])
          /\ \E n \in NextSeqs(e) :
                jobs' = [jobs EXCEPT ![p] =
                            [kind |-> "event", event |-> e,
                             created |-> e.warehouse \notin present,
                             read |-> rows[e.warehouse], seq |-> n]]
          /\ UNCHANGED present
       \/ /\ ~Accepts(e, seen[e.warehouse], rows[e.warehouse])
          /\ present' = present \cup {e.warehouse}
          /\ UNCHANGED jobs
    /\ UNCHANGED <<rows, seen, stockQty, held, applied>>
    /\ UNCHANGED bounds

\* The worker's writes and commit.
FinishEvent(p) ==
    /\ jobs[p].kind = "event"
    /\ ~(jobs[p].created /\ jobs[p].event.warehouse \in present)
    /\ LET e == jobs[p].event IN
         /\ present' = present \cup {e.warehouse}
         /\ rows' = [rows EXCEPT ![e.warehouse] = Overwrite(@, jobs[p].read, e.qty)]
         /\ seen' = [seen EXCEPT ![e.warehouse] =
                        [event |-> e.id, seq |-> jobs[p].seq]]
         /\ stockQty' = stockQty + e.qty
         /\ applied' = [applied EXCEPT ![e] = @ + 1]
    /\ jobs' = [jobs EXCEPT ![p] = Idle]
    /\ UNCHANGED <<held, made, corrections>>

-----------------------------------------------------------------------------
(* reconcile_vendor_stock: force the default row to the vendor's total.    *)

Adjustment(expected, row) == expected - OnHand(row)

\* The SELECT.  No difference and a negative result both end the request with
\* no quantity written.
StartReconcile(p, expected) ==
    /\ jobs[p] = Idle
    /\ corrections < MaxCorrections
    /\ LET row == rows[DefaultWarehouse]
           delta == Adjustment(expected, row)
       IN \/ /\ delta # 0
             /\ row.available + delta >= 0
             /\ jobs' = [jobs EXCEPT ![p] =
                            [kind |-> "reconcile",
                             created |-> DefaultWarehouse \notin present,
                             read |-> row, expected |-> expected]]
             /\ UNCHANGED present
          \/ /\ delta = 0 \/ row.available + delta < 0
             /\ present' = present \cup {DefaultWarehouse}
             /\ UNCHANGED jobs
    /\ corrections' = corrections + 1
    /\ UNCHANGED <<rows, seen, stockQty, held, made, applied>>

FinishReconcile(p) ==
    /\ jobs[p].kind = "reconcile"
    /\ ~(jobs[p].created /\ DefaultWarehouse \in present)
    /\ LET delta == Adjustment(jobs[p].expected, jobs[p].read) IN
         /\ present' = present \cup {DefaultWarehouse}
         /\ rows' = [rows EXCEPT ![DefaultWarehouse] =
                        Overwrite(@, jobs[p].read, delta)]
         /\ stockQty' = stockQty + delta
    /\ jobs' = [jobs EXCEPT ![p] = Idle]
    /\ UNCHANGED <<seen, held, made, corrections, applied>>

-----------------------------------------------------------------------------
(* The correction of what the vendor reports (api/stock_snapshot.py,       *)
(* api/reconciliation.py), and Product.save.                               *)

Distance(a, b) == IF a >= b THEN a - b ELSE b - a

\* max(hub_qty * 5%, 1): one unit is within tolerance however few there are.
Correctable(report) ==
    /\ report.hub # report.local
    /\ \/ Distance(report.hub, report.local) <= 1
       \/ 20 * Distance(report.hub, report.local) <= report.hub

\* The report names no warehouse: the SELECT returns any one of the rows.
RecordStockSnapshotReport(p, w, report) ==
    /\ jobs[p] = Idle
    /\ corrections < MaxCorrections
    /\ w \in present
    /\ jobs' = [jobs EXCEPT ![p] =
                    [kind |-> "correction", created |-> FALSE,
                     reserved |-> rows[w].reserved, warehouse |-> w,
                     report |-> report]]
    /\ corrections' = corrections + 1
    /\ UNCHANGED <<present, rows, seen, stockQty, held, made, applied>>

\* The difference is the one the vendor saw, not today's.  Beyond the tolerance
\* it is logged and nothing is written; no ledger entry is made either way.
CorrectOrFlag(p) ==
    /\ jobs[p].kind = "correction"
    /\ rows' = [rows EXCEPT ![jobs[p].warehouse] =
                    IF Correctable(jobs[p].report)
                    THEN Corrected(@, jobs[p].reserved, jobs[p].report.local)
                    ELSE @]
    /\ jobs' = [jobs EXCEPT ![p] = Idle]
    /\ UNCHANGED <<present, seen, stockQty, held, made, corrections, applied>>

\* Saving the Product recomputes its stock_qty from the rows.  A sum of integers
\* is one: saying so spares the proofs an induction.
SyncStockFromVendors ==
    /\ ProductSaves
    /\ LET total == MapThenSumSet(LAMBDA w : rows[w].available, present)
       IN total \in Int /\ stockQty' = total
    /\ UNCHANGED <<present, rows, seen, jobs, held, applied>>
    /\ UNCHANGED bounds

\* Two transactions inserted the same missing row: the later one fails with a
\* duplicate key and nothing of it is applied.
LoseInsertRace(p) ==
    /\ jobs[p] # Idle
    /\ jobs[p].created
    /\ (IF jobs[p].kind = "event" THEN jobs[p].event.warehouse
                                  ELSE DefaultWarehouse) \in present
    /\ jobs' = [jobs EXCEPT ![p] = Idle]
    /\ UNCHANGED <<present, rows, seen, stockQty, held, made, corrections, applied>>

-----------------------------------------------------------------------------

OrderStep ==
    \E q \in OrderQtys :
        \/ AtomicReserve(q)
        \/ ReleaseReservation(q)
        \/ ConfirmDeduction(q)

WorkerStep(p) ==
    \/ \E e \in Events : StartEvent(p, e)
    \/ FinishEvent(p)
    \/ \E n \in ExpectedQtys : StartReconcile(p, n)
    \/ FinishReconcile(p)
    \/ LoseInsertRace(p)
    \/ \E w \in Warehouses, r \in Reports : RecordStockSnapshotReport(p, w, r)
    \/ CorrectOrFlag(p)

Next ==
    \/ OrderStep
    \/ \E p \in Workers : WorkerStep(p)
    \/ SyncStockFromVendors

Spec == Init /\ [][Next]_vars

-----------------------------------------------------------------------------
(* What must hold of the rows.                                             *)

\* No row shows a negative quantity, what check_negative_vendor_stock
\* (api/stock.py:496-507) looks for every five minutes: no interleaving of
\* orders, stock events and reconciliation requests produces one, even though
\* the last two write totals computed from a row read earlier.  The correction
\* of a reported difference, which checks nothing, is left out (Reports = {}).
StockNonNegative ==
    \A w \in Warehouses : rows[w].available >= 0 /\ rows[w].reserved >= 0

\* The reserved quantity of the row is exactly what open orders were promised
\* (api/stock.py:272-278), whoever else writes to the row: no order is backed by
\* another order's reservation.
ReservedIsHeld == rows[DefaultWarehouse].reserved = held

\* Kept in one warehouse, a product's available + reserved is the balance of its
\* stock ledger, which make_entry keeps in Product.stock_qty: every change of the
\* total has its entry.  Orders alone keep it so; a stock event should, applied
\* "with atomic read-modify-write" (api/stock.py:162), and does not
\* (stock_ledger_entry.py:10-39, api/stock.py:384-414).
LedgerAgrees == OnHand(rows[DefaultWarehouse]) = stockQty

\* The last_event_seq of a row never goes back: an event older than one
\* already applied has no effect (api/stock.py:128-135).
SeqNeverRegresses ==
    [][\A w \in Warehouses : seen'[w].seq >= seen[w].seq]_vars

\* A sequenced event adds its quantity at most once, however often and in
\* whatever order the vendor's outbox delivers it (api/stock.py:124-135).
AppliedAtMostOnce ==
    \A e \in Events : e.seq # Absent => applied[e] <= 1
=============================================================================
