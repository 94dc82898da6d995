-------------------------- MODULE VendorStockProofs --------------------------
(***************************************************************************)
(* Theorems about VendorStock, for every set of warehouses, workers and    *)
(* events and every bound.                                                 *)
(***************************************************************************)
EXTENDS VendorStock, StockRowProofs

-----------------------------------------------------------------------------
(* Type correctness.                                                       *)

\* What the assumptions say of one event.
LEMMA EventFacts ==
    ASSUME NEW e \in Events
    PROVE  /\ e.id \in EventIds
           /\ e.seq \in Nat \cup {Absent}
           /\ e.qty \in Int
           /\ e.base \in Nat \cup {Absent}
           /\ e.warehouse \in Warehouses
  BY EventsAssumption

\* The number an event is stored under is a natural number.
LEMMA NextSeqsNat ==
    ASSUME TypeOK, NEW e \in Events, NEW n \in NextSeqs(e)
    PROVE  n \in Nat
  BY EventFacts DEF TypeOK, NextSeqs, Mark, Absent

\* A job's kind says which record it is.
LEMMA JobKinds ==
    ASSUME NEW j \in Job
    PROVE  /\ j.kind = "event" => j \in EventJob
           /\ j.kind = "reconcile" => j \in ReconcileJob
           /\ j.kind = "correction" => j \in CorrectionJob
  <1>1. CASE j \in EventJob
        BY <1>1 DEF EventJob
  <1>2. CASE j \in ReconcileJob
        BY <1>2 DEF ReconcileJob
  <1>3. CASE j \in CorrectionJob
        BY <1>3 DEF CorrectionJob
  <1>4. CASE j = Idle
        BY <1>4 DEF Idle
  <1>. QED
        BY <1>1, <1>2, <1>3, <1>4 DEF Job

LEMMA TypeInit == Init => TypeOK
  <1>. SUFFICES ASSUME Init PROVE TypeOK
       OBVIOUS
  <1>1. rows \in [Warehouses -> Row]
        BY WarehousesAssumption DEF Init, OpeningRow, Row
  <1>2. seen \in [Warehouses -> Mark]
        BY DEF Init, Mark, NoMark
  <1>. QED
        BY <1>1, <1>2, WarehousesAssumption DEF Init, TypeOK, Job

LEMMA TypeNext == TypeOK /\ [Next]_vars => TypeOK'
  <1>. SUFFICES ASSUME TypeOK, [Next]_vars PROVE TypeOK'
       OBVIOUS
  <1>. USE DEF TypeOK
  <1>1. ASSUME NEW q \in OrderQtys, AtomicReserve(q) PROVE TypeOK'
    <2>1. q \in Nat
          BY QuantitiesAssumption
    <2>2. rows' \in [Warehouses -> Row]
          BY <1>1, <2>1, RowClosed DEF AtomicReserve
    <2>. QED
          BY <1>1, <2>1, <2>2 DEF AtomicReserve
  <1>2. ASSUME NEW q \in OrderQtys, ReleaseReservation(q) PROVE TypeOK'
    <2>1. q \in Nat
          BY QuantitiesAssumption
    <2>2. rows' \in [Warehouses -> Row]
          BY <1>2, <2>1, RowClosed DEF ReleaseReservation
    <2>. QED
          BY <1>2, <2>1, <2>2 DEF ReleaseReservation, bounds
  <1>3. ASSUME NEW q \in OrderQtys, ConfirmDeduction(q) PROVE TypeOK'
    <2>1. q \in Nat
          BY QuantitiesAssumption
    <2>2. \A w \in Warehouses : Deduct(rows[w], q) \in Row /\ Recount(Deduct(rows[w], q)) \in Row
          BY <2>1, RowClosed
    <2>3. rows' \in [Warehouses -> Row]
          BY <1>3, <2>2 DEF ConfirmDeduction
    <2>. QED
          BY <1>3, <2>1, <2>3 DEF ConfirmDeduction, bounds
  <1>4. ASSUME NEW p \in Workers, NEW e \in Events, StartEvent(p, e) PROVE TypeOK'
    <2>1. present' \in SUBSET Warehouses
          BY <1>4, EventFacts DEF StartEvent
    <2>2. jobs' \in [Workers -> Job]
      <3>1. CASE UNCHANGED jobs
            BY <3>1
      <3>2. ASSUME NEW n \in NextSeqs(e),
                   jobs' = [jobs EXCEPT ![p] =
                              [kind |-> "event", event |-> e,
                               created |-> e.warehouse \notin present,
                               read |-> rows[e.warehouse], seq |-> n]]
            PROVE  jobs' \in [Workers -> Job]
        <4>1. [kind |-> "event", event |-> e, created |-> e.warehouse \notin present,
               read |-> rows[e.warehouse], seq |-> n] \in EventJob
              BY NextSeqsNat, EventFacts DEF EventJob
        <4>. QED
              BY <3>2, <4>1 DEF Job
      <3>. QED
            BY <1>4, <3>1, <3>2 DEF StartEvent
    <2>. QED
          BY <1>4, <2>1, <2>2 DEF StartEvent, bounds
  <1>5. ASSUME NEW p \in Workers, FinishEvent(p) PROVE TypeOK'
    <2>. DEFINE e == jobs[p].event
    <2>1. jobs[p] \in EventJob
          BY <1>5, JobKinds DEF FinishEvent
    <2>2. /\ e \in Events
          /\ jobs[p].read \in Row
          /\ jobs[p].seq \in Nat
          BY <2>1 DEF EventJob
    <2>3. e.warehouse \in Warehouses /\ e.qty \in Int /\ e.id \in EventIds
          BY <2>2, EventFacts
    <2>4. Overwrite(rows[e.warehouse], jobs[p].read, e.qty) \in Row
          BY <2>2, <2>3, OverwriteClosed
    <2>5. rows' \in [Warehouses -> Row]
          BY <1>5, <2>4 DEF FinishEvent
    <2>6. seen' \in [Warehouses -> Mark]
          BY <1>5, <2>2, <2>3 DEF FinishEvent, Mark
    <2>7. jobs' \in [Workers -> Job]
          BY <1>5 DEF FinishEvent, Job
    <2>8. applied' \in [Events -> Nat]
          BY <1>5, <2>2 DEF FinishEvent
    <2>9. present' \in SUBSET Warehouses /\ stockQty' \in Int
          BY <1>5, <2>3 DEF FinishEvent
    <2>. QED
          BY <1>5, <2>5, <2>6, <2>7, <2>8, <2>9 DEF FinishEvent
  <1>6. ASSUME NEW p \in Workers, NEW n \in ExpectedQtys, StartReconcile(p, n) PROVE TypeOK'
    <2>1. n \in Nat /\ DefaultWarehouse \in Warehouses
          BY QuantitiesAssumption, WarehousesAssumption
    <2>2. [kind |-> "reconcile", created |-> DefaultWarehouse \notin present,
           read |-> rows[DefaultWarehouse], expected |-> n] \in Job
          BY <2>1 DEF Job, ReconcileJob
    <2>3. jobs' \in [Workers -> Job]
          BY <1>6, <2>2 DEF StartReconcile
    <2>4. present' \in SUBSET Warehouses
          BY <1>6, <2>1 DEF StartReconcile
    <2>. QED
          BY <1>6, <2>3, <2>4 DEF StartReconcile
  <1>7. ASSUME NEW p \in Workers, FinishReconcile(p) PROVE TypeOK'
    <2>. DEFINE d == Adjustment(jobs[p].expected, jobs[p].read)
    <2>1. jobs[p] \in ReconcileJob
          BY <1>7, JobKinds DEF FinishReconcile
    <2>2. jobs[p].read \in Row /\ jobs[p].expected \in Nat
          BY <2>1 DEF ReconcileJob
    <2>3. d \in Int
          BY <2>2 DEF Adjustment, OnHand, Row
    <2>4. DefaultWarehouse \in Warehouses
          BY WarehousesAssumption
    <2>5. Overwrite(rows[DefaultWarehouse], jobs[p].read, d) \in Row
          BY <2>2, <2>3, <2>4, OverwriteClosed
    <2>6. rows' \in [Warehouses -> Row]
          BY <1>7, <2>5 DEF FinishReconcile
    <2>7. jobs' \in [Workers -> Job]
          BY <1>7 DEF FinishReconcile, Job
    <2>8. present' \in SUBSET Warehouses /\ stockQty' \in Int
          BY <1>7, <2>3, <2>4 DEF FinishReconcile
    <2>. QED
          BY <1>7, <2>6, <2>7, <2>8 DEF FinishReconcile
  <1>8. ASSUME NEW p \in Workers, LoseInsertRace(p) PROVE TypeOK'
        BY <1>8 DEF LoseInsertRace, Job
  <1>9. ASSUME NEW p \in Workers, NEW w \in Warehouses, NEW r \in Reports,
               RecordStockSnapshotReport(p, w, r)
        PROVE  TypeOK'
    <2>1. [kind |-> "correction", created |-> FALSE, reserved |-> rows[w].reserved,
           warehouse |-> w, report |-> r] \in Job
          BY DEF Job, CorrectionJob, Row
    <2>. QED
          BY <1>9, <2>1 DEF RecordStockSnapshotReport
  <1>10. ASSUME NEW p \in Workers, CorrectOrFlag(p) PROVE TypeOK'
    <2>1. jobs[p] \in CorrectionJob
          BY <1>10, JobKinds DEF CorrectOrFlag
    <2>2. /\ jobs[p].reserved \in Int
          /\ jobs[p].report.local \in Nat
          /\ jobs[p].warehouse \in Warehouses
          BY <2>1, QuantitiesAssumption DEF CorrectionJob
    <2>3. Corrected(rows[jobs[p].warehouse], jobs[p].reserved,
                    jobs[p].report.local) \in Row
          BY <2>2 DEF Corrected, Row
    <2>4. rows' \in [Warehouses -> Row]
          BY <1>10, <2>2, <2>3 DEF CorrectOrFlag
    <2>5. jobs' \in [Workers -> Job]
          BY <1>10 DEF CorrectOrFlag, Job
    <2>. QED
          BY <1>10, <2>4, <2>5 DEF CorrectOrFlag
  <1>11. CASE SyncStockFromVendors
         BY <1>11 DEF SyncStockFromVendors, bounds
  <1>12. CASE UNCHANGED vars
         BY <1>12 DEF vars
  <1>. QED
        BY <1>1, <1>2, <1>3, <1>4, <1>5, <1>6, <1>7, <1>8, <1>9, <1>10, <1>11, <1>12
        DEF Next, OrderStep, WorkerStep

\* Every variable keeps its type: in particular the stored event_seq of a row
\* is always a number, whether or not its event carried one.
THEOREM TypeCorrect == Spec => []TypeOK
  <1>1. Init => TypeOK
        BY TypeInit
  <1>2. TypeOK /\ [Next]_vars => TypeOK'
        BY TypeNext
  <1>. QED
        BY <1>1, <1>2, PTL DEF Spec

-----------------------------------------------------------------------------
(* No row ever goes negative.                                              *)

\* What a job has read is enough for what it is about to write.  The row may
\* have changed since: the write does not look at it again.
JobsSafe ==
    \A p \in Workers :
        /\ jobs[p].kind = "event" =>
               jobs[p].read.available + jobs[p].event.qty >= 0
        /\ jobs[p].kind = "reconcile" =>
               jobs[p].read.available + Adjustment(jobs[p].expected, jobs[p].read) >= 0

NoCorrection == \A p \in Workers : jobs[p].kind # "correction"

NonNegInv == TypeOK /\ StockNonNegative /\ JobsSafe /\ NoCorrection

\* Where the vendor reports no difference, no correction starts.
LEMMA NoCorrectionNext ==
    ASSUME Reports = {}, TypeOK, NoCorrection, [Next]_vars
    PROVE  NoCorrection'
  <1>. USE DEF NoCorrection
  <1>1. CASE UNCHANGED jobs
        BY <1>1
  <1>2. ASSUME NEW p \in Workers, jobs' = [jobs EXCEPT ![p] = Idle]
        PROVE  NoCorrection'
        BY <1>2 DEF Idle, TypeOK
  <1>3. ASSUME NEW p \in Workers, NEW e \in Events, StartEvent(p, e)
        PROVE  NoCorrection'
        BY <1>3 DEF StartEvent, TypeOK
  <1>4. ASSUME NEW p \in Workers, NEW n \in ExpectedQtys, StartReconcile(p, n)
        PROVE  NoCorrection'
        BY <1>4 DEF StartReconcile, TypeOK
  <1>. QED
        BY <1>1, <1>2, <1>3, <1>4
        DEF Next, vars, OrderStep, WorkerStep, AtomicReserve, ReleaseReservation,
            ConfirmDeduction, FinishEvent, FinishReconcile, LoseInsertRace,
            CorrectOrFlag, SyncStockFromVendors

LEMMA NonNegInit == Init => StockNonNegative /\ JobsSafe /\ NoCorrection
  BY WarehousesAssumption
  DEF Init, OpeningRow, StockNonNegative, JobsSafe, NoCorrection, Idle

\* An accepted event cannot take its row below zero.
LEMMA AcceptedIsSafe ==
    ASSUME NEW e \in Events, NEW m \in Mark, NEW r \in Row, Sound(r), Accepts(e, m, r)
    PROVE  r.available + e.qty >= 0
  BY EventFacts DEF Accepts, Sound, Row

LEMMA NonNegNext ==
    ASSUME Reports = {}, NonNegInv, [Next]_vars
    PROVE  StockNonNegative' /\ JobsSafe'
  <1>. USE DEF NonNegInv
  <1>0. /\ \A w \in Warehouses : rows[w] \in Row /\ Sound(rows[w])
        /\ (\A w \in Warehouses : Sound(rows'[w])) => StockNonNegative'
        BY DEF TypeOK, StockNonNegative, Sound
  <1>1. ASSUME NEW q \in OrderQtys, AtomicReserve(q) PROVE StockNonNegative' /\ JobsSafe'
    <2>1. q \in Nat
          BY QuantitiesAssumption
    <2>2. ASSUME NEW w \in Warehouses PROVE Sound(rows'[w])
      <3>1. rows'[w] = IF w \in Reservable(q) THEN Reserve(rows[w], q) ELSE rows[w]
            BY <1>1 DEF AtomicReserve
      <3>2. w \in Reservable(q) => CanReserve(rows[w], q)
            BY DEF Reservable
      <3>. QED
            BY <1>0, <2>1, <3>1, <3>2, RowSound
    <2>. QED
          BY <1>0, <1>1, <2>2 DEF AtomicReserve, JobsSafe
  <1>2. ASSUME NEW q \in OrderQtys, ReleaseReservation(q) PROVE StockNonNegative' /\ JobsSafe'
    <2>1. q \in Nat
          BY QuantitiesAssumption
    <2>2. ASSUME NEW w \in Warehouses PROVE Sound(rows'[w])
          BY <1>0, <1>2, <2>1, RowSound DEF ReleaseReservation
    <2>. QED
          BY <1>0, <1>2, <2>2 DEF ReleaseReservation, JobsSafe
  <1>3. ASSUME NEW q \in OrderQtys, ConfirmDeduction(q) PROVE StockNonNegative' /\ JobsSafe'
    <2>1. q \in Nat
          BY QuantitiesAssumption
    <2>2. ASSUME NEW w \in Warehouses PROVE Sound(rows'[w])
          BY <1>0, <1>3, <2>1, RowSound DEF ConfirmDeduction
    <2>. QED
          BY <1>0, <1>3, <2>2 DEF ConfirmDeduction, JobsSafe
  <1>4. ASSUME NEW p \in Workers, NEW e \in Events, StartEvent(p, e)
        PROVE  StockNonNegative' /\ JobsSafe'
    <2>1. StockNonNegative'
          BY <1>4 DEF StartEvent, StockNonNegative
    <2>2. CASE UNCHANGED jobs
          BY <2>1, <2>2 DEF JobsSafe
    <2>3. CASE Accepts(e, seen[e.warehouse], rows[e.warehouse])
      <3>1. rows[e.warehouse].available + e.qty >= 0
            BY <1>0, <2>3, AcceptedIsSafe, EventFacts DEF TypeOK
      <3>2. PICK n \in NextSeqs(e) :
                jobs' = [jobs EXCEPT ![p] =
                            [kind |-> "event", event |-> e,
                             created |-> e.warehouse \notin present,
                             read |-> rows[e.warehouse], seq |-> n]]
            BY <1>4, <2>3 DEF StartEvent
      <3>3. JobsSafe'
            BY <3>1, <3>2 DEF JobsSafe, TypeOK
      <3>. QED
            BY <2>1, <3>3
    <2>. QED
          BY <1>4, <2>2, <2>3 DEF StartEvent
  <1>5. ASSUME NEW p \in Workers, FinishEvent(p) PROVE StockNonNegative' /\ JobsSafe'
    <2>. DEFINE e == jobs[p].event
    <2>1. jobs[p].read.available + e.qty >= 0
          BY <1>5 DEF FinishEvent, JobsSafe
    <2>2. ASSUME NEW w \in Warehouses PROVE Sound(rows'[w])
          BY <1>0, <1>5, <2>1 DEF FinishEvent, Overwrite, Sound, TypeOK
    <2>3. JobsSafe'
          BY <1>5 DEF FinishEvent, JobsSafe, Idle, TypeOK
    <2>. QED
          BY <1>0, <2>2, <2>3
  <1>6. ASSUME NEW p \in Workers, NEW n \in ExpectedQtys, StartReconcile(p, n)
        PROVE  StockNonNegative' /\ JobsSafe'
    <2>1. StockNonNegative'
          BY <1>6 DEF StartReconcile, StockNonNegative
    <2>2. JobsSafe'
          BY <1>6 DEF StartReconcile, JobsSafe, TypeOK
    <2>. QED
          BY <2>1, <2>2
  <1>7. ASSUME NEW p \in Workers, FinishReconcile(p) PROVE StockNonNegative' /\ JobsSafe'
    <2>1. jobs[p].read.available + Adjustment(jobs[p].expected, jobs[p].read) >= 0
          BY <1>7 DEF FinishReconcile, JobsSafe
    <2>2. ASSUME NEW w \in Warehouses PROVE Sound(rows'[w])
          BY <1>0, <1>7, <2>1 DEF FinishReconcile, Overwrite, Sound, TypeOK
    <2>3. JobsSafe'
          BY <1>7 DEF FinishReconcile, JobsSafe, Idle, TypeOK
    <2>. QED
          BY <1>0, <2>2, <2>3
  <1>8. ASSUME NEW p \in Workers, LoseInsertRace(p) PROVE StockNonNegative' /\ JobsSafe'
        BY <1>8 DEF LoseInsertRace, StockNonNegative, JobsSafe, Idle, TypeOK
  <1>9. ASSUME NEW p \in Workers, CorrectOrFlag(p) PROVE FALSE
        BY <1>9 DEF CorrectOrFlag, NoCorrection
  <1>10. CASE SyncStockFromVendors
         BY <1>10 DEF SyncStockFromVendors, StockNonNegative, JobsSafe
  <1>11. CASE UNCHANGED vars
         BY <1>11 DEF vars, StockNonNegative, JobsSafe
  <1>. QED
        BY <1>1, <1>2, <1>3, <1>4, <1>5, <1>6, <1>7, <1>8, <1>9, <1>10, <1>11
        DEF Next, OrderStep, WorkerStep

\* No interleaving of orders, stock events, reconciliation requests and product
\* saves makes a quantity negative, although two of them write totals computed
\* from a stale row (api/stock.py:161-193, 272-414 and 540-614).  The
\* correction of a reported difference is excluded: it checks nothing.
THEOREM NeverNegative ==
    ASSUME Reports = {}
    PROVE  Spec => []StockNonNegative
  <1>1. Init => NonNegInv
        BY TypeInit, NonNegInit DEF NonNegInv
  <1>2. NonNegInv /\ [Next]_vars => NonNegInv'
        BY TypeNext, NonNegNext, NoCorrectionNext DEF NonNegInv
  <1>3. NonNegInv => StockNonNegative
        BY DEF NonNegInv
  <1>. QED
        BY <1>1, <1>2, <1>3, PTL DEF Spec

-----------------------------------------------------------------------------
(* One warehouse.                                                          *)

\* Reservations are only ever written relative to the row's current value.
PromisedInv == TypeOK /\ ReservedIsHeld /\ present = Warehouses

\* What an order does to the single row.
LEMMA OrderEffect ==
    ASSUME Warehouses = {DefaultWarehouse}, PromisedInv, NEW q \in OrderQtys
    PROVE  LET r == rows[DefaultWarehouse]
               t == rows'[DefaultWarehouse] IN
           /\ AtomicReserve(q) =>
                  t.available = r.available - q /\ t.reserved = r.reserved + q
           /\ ReleaseReservation(q) =>
                  t.available = r.available + q /\ t.reserved = r.reserved - q
           /\ ConfirmDeduction(q) =>
                  t.available = r.available /\ t.reserved = r.reserved - q
  <1>. DEFINE d == DefaultWarehouse
              r == rows[d]
  <1>0. /\ r \in Row /\ held \in Nat /\ r.reserved = held
        /\ present = Warehouses /\ d \in present
        /\ q \in Nat
        BY QuantitiesAssumption DEF PromisedInv, TypeOK, ReservedIsHeld
  <1>1. r.available \in Int /\ r.reserved \in Int
        BY <1>0 DEF Row
  <1>2. ASSUME AtomicReserve(q)
        PROVE  rows'[d].available = r.available - q /\ rows'[d].reserved = r.reserved + q
    <2>1. Reservable(q) = {d}
          BY <1>0, <1>2 DEF AtomicReserve, Reservable
    <2>2. rows'[d] = Reserve(r, q)
          BY <1>2, <2>1 DEF AtomicReserve
    <2>. QED
          BY <2>2 DEF Reserve
  <1>3. ASSUME ReleaseReservation(q)
        PROVE  rows'[d].available = r.available + q /\ rows'[d].reserved = r.reserved - q
    <2>1. rows'[d] = Release(r, q) /\ q <= held
          BY <1>0, <1>3 DEF ReleaseReservation
    <2>. QED
          BY <1>0, <1>1, <2>1 DEF Release, Drop
  <1>4. ASSUME ConfirmDeduction(q)
        PROVE  rows'[d].available = r.available /\ rows'[d].reserved = r.reserved - q
    <2>1. rows'[d] = Recount(Deduct(r, q)) /\ q <= held
          BY <1>0, <1>4 DEF ConfirmDeduction
    <2>2. Deduct(r, q).available = r.available /\ Deduct(r, q).reserved = r.reserved - q
          BY <1>0, <1>1, <2>1 DEF Row, Deduct, Drop
    <2>3. Deduct(r, q) \in Row
          BY <1>0, RowClosed
    <2>. QED
          BY <2>1, <2>2, <2>3 DEF Row, Recount
  <1>. QED
        BY <1>2, <1>3, <1>4

\* A worker never writes a row's reservations, nor what orders hold.
LEMMA WorkerKeepsPromises ==
    ASSUME PromisedInv, NEW p \in Workers, WorkerStep(p)
    PROVE  held' = held /\ rows'[DefaultWarehouse].reserved = rows[DefaultWarehouse].reserved
                /\ present' = present
  <1>0. /\ rows \in [Warehouses -> Row] /\ DefaultWarehouse \in Warehouses
        /\ present = Warehouses
        BY WarehousesAssumption DEF PromisedInv, TypeOK
  <1>1. ASSUME NEW e \in Events, StartEvent(p, e)
        PROVE  held' = held /\ rows' = rows /\ present' = present
        BY <1>0, <1>1, EventFacts DEF StartEvent
  <1>2. ASSUME FinishEvent(p)
        PROVE  held' = held /\ present' = present
               /\ rows'[DefaultWarehouse].reserved = rows[DefaultWarehouse].reserved
    <2>1. jobs[p] \in EventJob
          BY <1>2, JobKinds DEF FinishEvent, PromisedInv, TypeOK
    <2>2. jobs[p].event.warehouse \in Warehouses
          BY <2>1, EventFacts DEF EventJob
    <2>. QED
          BY <1>0, <1>2, <2>2 DEF FinishEvent, Overwrite
  <1>3. ASSUME NEW n \in ExpectedQtys, StartReconcile(p, n)
        PROVE  held' = held /\ rows' = rows /\ present' = present
        BY <1>0, <1>3 DEF StartReconcile
  <1>4. ASSUME FinishReconcile(p)
        PROVE  held' = held /\ present' = present
               /\ rows'[DefaultWarehouse].reserved = rows[DefaultWarehouse].reserved
        BY <1>0, <1>4 DEF FinishReconcile, Overwrite
  <1>5. ASSUME CorrectOrFlag(p)
        PROVE  held' = held /\ present' = present
               /\ rows'[DefaultWarehouse].reserved = rows[DefaultWarehouse].reserved
        BY <1>0, <1>5 DEF CorrectOrFlag, Corrected
  <1>. QED
        BY <1>1, <1>2, <1>3, <1>4, <1>5
        DEF WorkerStep, LoseInsertRace, RecordStockSnapshotReport

LEMMA PromisedInit ==
    ASSUME OpeningRows = Warehouses
    PROVE  Init => PromisedInv
  BY TypeInit, WarehousesAssumption DEF Init, PromisedInv, ReservedIsHeld, OpeningRow

LEMMA PromisedNext ==
    ASSUME Warehouses = {DefaultWarehouse}, PromisedInv, [Next]_vars
    PROVE  PromisedInv'
  <1>. DEFINE d == DefaultWarehouse
  <1>0. /\ rows[d] \in Row /\ held \in Nat /\ rows[d].reserved = held
        /\ rows[d].reserved \in Int
        BY DEF PromisedInv, TypeOK, ReservedIsHeld, Row
  <1>1. ASSUME NEW q \in OrderQtys,
               AtomicReserve(q) \/ ReleaseReservation(q) \/ ConfirmDeduction(q)
        PROVE  ReservedIsHeld' /\ present' = present
        BY <1>0, <1>1, OrderEffect
        DEF AtomicReserve, ReleaseReservation, ConfirmDeduction, ReservedIsHeld
  <1>2. ASSUME NEW p \in Workers, WorkerStep(p)
        PROVE  ReservedIsHeld' /\ present' = present
        BY <1>0, <1>2, WorkerKeepsPromises DEF ReservedIsHeld
  <1>3. ASSUME SyncStockFromVendors \/ UNCHANGED vars
        PROVE  ReservedIsHeld' /\ present' = present
    <2>1. held' = held /\ rows' = rows /\ present' = present
          BY <1>3 DEF SyncStockFromVendors, vars
    <2>. QED
          BY <2>1, <1>0 DEF ReservedIsHeld
  <1>4. ReservedIsHeld' /\ present' = present
        BY <1>1, <1>2, <1>3 DEF Next, OrderStep
  <1>5. TypeOK'
        BY TypeNext DEF PromisedInv
  <1>. QED
        BY <1>4, <1>5 DEF PromisedInv

\* On a product with a single row, the reserved units are those of the open
\* orders whatever the stock events, reconciliations, corrections and product
\* saves do, and however they interleave (api/stock.py:272-414).
THEOREM PromisesKept ==
    ASSUME Warehouses = {DefaultWarehouse}, OpeningRows = Warehouses
    PROVE  Spec => []ReservedIsHeld
  <1>1. Init => PromisedInv
        BY PromisedInit
  <1>2. PromisedInv /\ [Next]_vars => PromisedInv'
        BY PromisedNext
  <1>3. PromisedInv => ReservedIsHeld
        BY DEF PromisedInv
  <1>. QED
        BY <1>1, <1>2, <1>3, PTL DEF Spec

\* With orders alone, the row's total is the balance of the ledger, for any
\* number of orders of any size (api/stock.py:384-414).
THEOREM OrdersAgree ==
    ASSUME Workers = {}, ProductSaves = FALSE,
           Warehouses = {DefaultWarehouse}, OpeningRows = Warehouses
    PROVE  Spec => []LedgerAgrees
  <1>. DEFINE d == DefaultWarehouse
  <1>1. Init => PromisedInv /\ LedgerAgrees
    <2>1. Opening[d] \in Nat /\ OpeningLedger = Opening[d]
          BY WarehousesAssumption
    <2>. QED
          BY <2>1, PromisedInit DEF Init, LedgerAgrees, OpeningRow, OnHand
  <1>2. PromisedInv /\ LedgerAgrees /\ [Next]_vars => (PromisedInv /\ LedgerAgrees)'
    <2>. SUFFICES ASSUME PromisedInv, LedgerAgrees, [Next]_vars PROVE LedgerAgrees'
         BY PromisedNext
    <2>1. /\ rows[d].available \in Int /\ rows[d].reserved \in Int /\ stockQty \in Int
          /\ rows[d].available + rows[d].reserved = stockQty
          BY DEF PromisedInv, TypeOK, LedgerAgrees, OnHand, Row
    <2>2. ASSUME NEW q \in OrderQtys,
                 AtomicReserve(q) \/ ReleaseReservation(q) \/ ConfirmDeduction(q)
          PROVE  LedgerAgrees'
      <3>1. q \in Nat
            BY QuantitiesAssumption
      <3>2. CASE AtomicReserve(q)
            BY <2>1, <3>1, <3>2, OrderEffect DEF AtomicReserve, LedgerAgrees, OnHand
      <3>3. CASE ReleaseReservation(q)
            BY <2>1, <3>1, <3>3, OrderEffect DEF ReleaseReservation, LedgerAgrees, OnHand
      <3>4. CASE ConfirmDeduction(q)
            BY <2>1, <3>1, <3>4, OrderEffect DEF ConfirmDeduction, LedgerAgrees, OnHand
      <3>. QED
            BY <2>2, <3>2, <3>3, <3>4
    <2>3. CASE UNCHANGED vars
          BY <2>3 DEF vars, LedgerAgrees, OnHand
    <2>. QED
          BY <2>2, <2>3 DEF Next, OrderStep, SyncStockFromVendors
  <1>. QED
        BY <1>1, <1>2, PTL DEF Spec

-----------------------------------------------------------------------------
(* Events applied by one worker at a time.                                 *)

\* The number a pending event will store is above the one its row has, and a
\* sequenced event that is pending or that was ever applied cannot be accepted
\* again.
SerialInv ==
    /\ \A p \in Workers : jobs[p].kind = "event" =>
            LET e == jobs[p].event IN
            /\ jobs[p].seq > seen[e.warehouse].seq
            /\ e.seq # Absent => applied[e] = 0 /\ jobs[p].seq = e.seq
    /\ \A e \in Events : e.seq # Absent /\ applied[e] > 0 =>
            seen[e.warehouse].seq >= e.seq
    /\ AppliedAtMostOnce

\* The worker's own writes are the only ones that change the marks.
SerialStep == \A w \in Warehouses : seen'[w].seq >= seen[w].seq

LEMMA SerialNext ==
    ASSUME \A p, q \in Workers : p = q, TypeOK, SerialInv, [Next]_vars
    PROVE  SerialInv' /\ SerialStep
  <1>0. ASSUME NEW e \in Events
        PROVE  /\ e.warehouse \in Warehouses
               /\ seen[e.warehouse].seq \in Nat
               /\ e.seq # Absent => e.seq \in Nat
               /\ applied[e] \in Nat
        BY EventFacts DEF TypeOK, Mark
  <1>s. \A w \in Warehouses : seen[w].seq \in Nat
        BY DEF TypeOK, Mark
  <1>1. ASSUME UNCHANGED <<seen, jobs, applied>> PROVE SerialInv' /\ SerialStep
        BY <1>1, <1>s DEF SerialInv, SerialStep, AppliedAtMostOnce
  <1>2. ASSUME NEW p \in Workers, NEW e \in Events, StartEvent(p, e)
        PROVE  SerialInv' /\ SerialStep
    <2>0. UNCHANGED <<seen, applied>>
          BY <1>2 DEF StartEvent
    <2>1. CASE UNCHANGED jobs
          BY <1>1, <2>0, <2>1
    <2>2. CASE Accepts(e, seen[e.warehouse], rows[e.warehouse])
      <3>1. PICK n \in NextSeqs(e) :
                jobs' = [jobs EXCEPT ![p] =
                            [kind |-> "event", event |-> e,
                             created |-> e.warehouse \notin present,
                             read |-> rows[e.warehouse], seq |-> n]]
            BY <1>2, <2>2 DEF StartEvent
      <3>2. n > seen[e.warehouse].seq /\ (e.seq # Absent => n = e.seq)
            BY <1>0, <2>2 DEF Accepts, InSequence, NextSeqs, TypeOK, Mark
      <3>3. e.seq # Absent => applied[e] = 0
            BY <1>0, <2>2 DEF Accepts, InSequence, SerialInv
      <3>4. \A r \in Workers : r = p
            OBVIOUS
      <3>5. jobs'[p].event = e /\ jobs'[p].seq = n
            BY <3>1 DEF TypeOK
      <3>. QED
            BY <1>s, <2>0, <3>2, <3>3, <3>4, <3>5
            DEF SerialInv, SerialStep, AppliedAtMostOnce
    <2>. QED
          BY <1>2, <2>1, <2>2 DEF StartEvent
  <1>3. ASSUME NEW p \in Workers, FinishEvent(p) PROVE SerialInv' /\ SerialStep
    <2>. DEFINE e == jobs[p].event
    <2>1. jobs[p] \in EventJob
          BY <1>3, JobKinds DEF FinishEvent, TypeOK
    <2>2. e \in Events /\ jobs[p].seq \in Nat
          BY <2>1 DEF EventJob
    <2>3. /\ jobs[p].seq > seen[e.warehouse].seq
          /\ e.seq # Absent => applied[e] = 0 /\ jobs[p].seq = e.seq
          BY <1>3 DEF FinishEvent, SerialInv
    <2>4. \A w \in Warehouses :
              seen'[w].seq = IF w = e.warehouse THEN jobs[p].seq ELSE seen[w].seq
          BY <1>3 DEF FinishEvent, TypeOK
    <2>5. \A f \in Events : applied'[f] = IF f = e THEN applied[f] + 1 ELSE applied[f]
          BY <1>3 DEF FinishEvent, TypeOK
    <2>6. SerialStep
          BY <1>s, <2>2, <2>3, <2>4 DEF SerialStep
    <2>7. \A r \in Workers : jobs'[r].kind # "event"
          BY <1>3 DEF FinishEvent, TypeOK, Idle
    <2>8. ASSUME NEW f \in Events, f.seq # Absent, applied'[f] > 0
          PROVE  seen'[f.warehouse].seq >= f.seq /\ applied'[f] <= 1
      <3>1. CASE f = e
            BY <1>0, <2>2, <2>3, <2>4, <2>5, <2>8, <3>1
      <3>2. CASE f # e
        <4>1. seen[f.warehouse].seq >= f.seq /\ applied[f] <= 1 /\ applied'[f] = applied[f]
              BY <2>5, <2>8, <3>2 DEF SerialInv, AppliedAtMostOnce
        <4>2. seen'[f.warehouse].seq >= seen[f.warehouse].seq
              BY <1>0, <2>6 DEF SerialStep
        <4>3. seen'[f.warehouse].seq \in Nat
              BY <1>0, <2>2, <2>4
        <4>. QED
              BY <1>0, <2>8, <4>1, <4>2, <4>3
      <3>. QED
            BY <3>1, <3>2
    <2>9. \A f \in Events : f.seq # Absent => applied'[f] <= 1
          BY <1>0, <2>2, <2>5, <2>8
    <2>. QED
          BY <2>6, <2>7, <2>8, <2>9 DEF SerialInv, AppliedAtMostOnce
  <1>4. ASSUME NEW p \in Workers, NEW n \in ExpectedQtys, StartReconcile(p, n)
        PROVE  SerialInv' /\ SerialStep
    <2>1. UNCHANGED <<seen, applied>>
          BY <1>4 DEF StartReconcile
    <2>2. \A r \in Workers : jobs'[r].kind = "event" => jobs'[r] = jobs[r]
          BY <1>4 DEF StartReconcile, TypeOK
    <2>. QED
          BY <1>s, <2>1, <2>2 DEF SerialInv, SerialStep, AppliedAtMostOnce
  <1>5. ASSUME NEW p \in Workers, FinishReconcile(p) \/ LoseInsertRace(p)
        PROVE  SerialInv' /\ SerialStep
    <2>1. UNCHANGED <<seen, applied>>
          BY <1>5 DEF FinishReconcile, LoseInsertRace
    <2>2. \A r \in Workers : jobs'[r].kind # "event"
          BY <1>5 DEF FinishReconcile, LoseInsertRace, TypeOK, Idle
    <2>. QED
          BY <1>s, <2>1, <2>2 DEF SerialInv, SerialStep, AppliedAtMostOnce
  <1>6. ASSUME NEW p \in Workers, NEW w \in Warehouses, NEW r \in Reports,
               RecordStockSnapshotReport(p, w, r)
        PROVE  SerialInv' /\ SerialStep
    <2>1. UNCHANGED <<seen, applied>>
          BY <1>6 DEF RecordStockSnapshotReport
    <2>2. \A x \in Workers : jobs'[x].kind # "event"
          BY <1>6 DEF RecordStockSnapshotReport, TypeOK
    <2>. QED
          BY <1>s, <2>1, <2>2 DEF SerialInv, SerialStep, AppliedAtMostOnce
  <1>7. ASSUME NEW p \in Workers, CorrectOrFlag(p) PROVE SerialInv' /\ SerialStep
    <2>1. UNCHANGED <<seen, applied>>
          BY <1>7 DEF CorrectOrFlag
    <2>2. \A r \in Workers : jobs'[r].kind # "event"
          BY <1>7 DEF CorrectOrFlag, TypeOK, Idle
    <2>. QED
          BY <1>s, <2>1, <2>2 DEF SerialInv, SerialStep, AppliedAtMostOnce
  <1>8. ASSUME NEW q \in OrderQtys,
               AtomicReserve(q) \/ ReleaseReservation(q) \/ ConfirmDeduction(q)
        PROVE  SerialInv' /\ SerialStep
        BY <1>1, <1>8 DEF AtomicReserve, ReleaseReservation, ConfirmDeduction
  <1>9. CASE SyncStockFromVendors
        BY <1>1, <1>9 DEF SyncStockFromVendors
  <1>10. CASE UNCHANGED vars
         BY <1>1, <1>10 DEF vars
  <1>. QED
        BY <1>2, <1>3, <1>4, <1>5, <1>6, <1>7, <1>8, <1>9, <1>10
        DEF Next, OrderStep, WorkerStep

\* What the two theorems about a single worker rest on.
LEMMA SerialAlways ==
    ASSUME \A p, q \in Workers : p = q
    PROVE  Spec => [](TypeOK /\ SerialInv)
  <1>1. Init => TypeOK /\ SerialInv
    <2>1. Init => SerialInv
          BY DEF Init, SerialInv, AppliedAtMostOnce, Idle
    <2>. QED
          BY TypeInit, <2>1
  <1>2. TypeOK /\ SerialInv /\ [Next]_vars => (TypeOK /\ SerialInv)'
        BY TypeNext, SerialNext
  <1>. QED
        BY <1>1, <1>2, PTL DEF Spec

\* While one worker at a time applies events, a numbered event is applied at most
\* once, in whatever order and however often the events arrive
\* (api/stock.py:108-135).  With two workers it is not.
THEOREM SerialEvents ==
    ASSUME \A p, q \in Workers : p = q
    PROVE  Spec => []AppliedAtMostOnce
  <1>1. SerialInv => AppliedAtMostOnce
        BY DEF SerialInv
  <1>. QED
        BY <1>1, SerialAlways, PTL

\* And a row's last_event_seq only grows (api/stock.py:468-477).
THEOREM SerialNumbers ==
    ASSUME \A p, q \in Workers : p = q
    PROVE  Spec => SeqNeverRegresses
  <1>1. TypeOK /\ SerialInv /\ [Next]_vars =>
            [\A w \in Warehouses : seen'[w].seq >= seen[w].seq]_vars
        BY SerialNext DEF SerialStep
  <1>. QED
        BY <1>1, SerialAlways, PTL DEF Spec, SeqNeverRegresses
=============================================================================
