------------------------------- MODULE ErpSync -------------------------------
(***************************************************************************)
(* The export of paid orders to a separate ERPNext site                    *)
(* (api/erpnext_sync.py).  run_daily_sync reads the orders once, pushes    *)
(* them one by one over HTTP and commits at the end; an administrator may  *)
(* push one order meanwhile.  The other site keeps what it was sent when   *)
(* an answer is lost, and when the run dies before its commit.             *)
(***************************************************************************)
EXTENDS Integers, FiniteSets

CONSTANTS
    Orders,      \* paid orders
    MaxMishaps   \* bound: lost answers, dead runs, and pushes from a stale read

VARIABLES
    due,      \* orders that are paid and neither cancelled nor refunded
    row,      \* the sync fields of every order, as committed
    remote,   \* Sales Orders and Sales Invoices the other site holds per order
    run,      \* what the daily run has read, has written and has still to do
    mishaps

erpVars == <<due, row, remote, run, mishaps>>

Fresh == [status |-> "Pending", so |-> FALSE, invoice |-> FALSE]
Fields == [status : {"Pending", "Synced", "Failed"}, so : BOOLEAN, invoice : BOOLEAN]

ErpSyncTypeOK ==
    /\ due \subseteq Orders
    /\ row \in [Orders -> Fields]
    /\ remote \in [Orders -> [so : Nat, invoice : Nat]]
    /\ run.todo \subseteq Orders /\ run.written \subseteq Orders
    /\ run.read \in [Orders -> Fields] /\ run.rows \in [Orders -> Fields]
    /\ mishaps \in 0..MaxMishaps

Asleep == [todo |-> {}, written |-> {}, read |-> [o \in Orders |-> Fresh],
           rows |-> [o \in Orders |-> Fresh]]

Init ==
    /\ due = {}
    /\ row = [o \in Orders |-> Fresh]
    /\ remote = [o \in Orders |-> [so |-> 0, invoice |-> 0]]
    /\ run = Asleep
    /\ mishaps = 0

\* A payment makes an order due; a cancellation or a refund ends it.
Paid(o) == due' = due \cup {o} /\ UNCHANGED <<row, remote, run, mishaps>>
Ended(o) == o \in due /\ due' = due \ {o} /\ UNCHANGED <<row, remote, run, mishaps>>

Pending == {o \in due : row[o].status # "Synced"}

\* run_daily_sync reads what is pending.
StartDailySync ==
    /\ run = Asleep
    /\ Pending # {}
    /\ run' = [todo |-> Pending, written |-> {}, read |-> row, rows |-> row]
    /\ UNCHANGED <<due, row, remote, mishaps>>

-----------------------------------------------------------------------------
\* Fault: a Sales Order that the row already names is pushed again.
NeedsSalesOrderAlways(read) == read.status # "Synced"

\* Each part is pushed only where the order that was read has no name for it.
NeedsSalesOrder(read) == ~read.so
NeedsInvoice(read) == ~read.invoice

Answered(sent, fields) == [sent |-> sent, row |-> fields, lost |-> FALSE]

\* Fault: an order counts as synced once its Sales Order is there.
OutcomesWithoutInvoice(read) ==
    {Answered({}, [read EXCEPT !.status = "Failed"]),
     Answered(IF read.so THEN {} ELSE {"so"}, [read EXCEPT !.status = "Synced", !.so = TRUE])}

\* What _sync_one_order makes of an order.  The invoice is looked for on the
\* order as it was read: right after its Sales Order was pushed it is not
\* there, so a first push always fails half way.  A failure keeps the names
\* written before it.
Outcomes(read) ==
    IF NeedsSalesOrder(read)
    THEN {Answered({}, [read EXCEPT !.status = "Failed"]),
          Answered({"so"}, [read EXCEPT !.status = "Failed", !.so = TRUE])}
    ELSE IF NeedsInvoice(read)
    THEN {Answered({}, [read EXCEPT !.status = "Failed"]),
          Answered({"invoice"}, [read EXCEPT !.status = "Synced", !.invoice = TRUE])}
    ELSE {Answered({}, [read EXCEPT !.status = "Synced"])}

\* The other site received the request and the answer was lost: the failure
\* names nothing.
Lost(read) ==
    [sent |-> IF NeedsSalesOrder(read) THEN {"so"} ELSE {"invoice"},
     row |-> [read EXCEPT !.status = "Failed"], lost |-> TRUE]

Attempts(read) ==
    Outcomes(read) \cup (IF NeedsSalesOrder(read) \/ NeedsInvoice(read) THEN {Lost(read)} ELSE {})

Receive(o, sent) ==
    remote' = [remote EXCEPT ![o] =
        [so |-> @.so + (IF "so" \in sent THEN 1 ELSE 0),
         invoice |-> @.invoice + (IF "invoice" \in sent THEN 1 ELSE 0)]]

\* Fields of a transaction laid over the fields another has committed since:
\* a write names only the fields it sets.
Merged(now, wrote) ==
    [status |-> wrote.status, so |-> now.so \/ wrote.so, invoice |-> now.invoice \/ wrote.invoice]

\* The daily run pushes an order from its own read; a read that a manual push
\* has overtaken is a mishap when it sends something again.
PushDaily(o) ==
    \E e \in Attempts(run.read[o]) :
        LET again == (("so" \in e.sent) /\ remote[o].so > 0)
                     \/ (("invoice" \in e.sent) /\ remote[o].invoice > 0)
            stale == run.read[o] # row[o]
            cost == (IF e.lost THEN 1 ELSE 0) + (IF again /\ stale THEN 1 ELSE 0)
        IN /\ o \in run.todo
           /\ mishaps + cost <= MaxMishaps
           /\ mishaps' = mishaps + cost
           /\ Receive(o, e.sent)
           /\ run' = [run EXCEPT !.todo = @ \ {o}, !.written = @ \cup {o}, !.rows[o] = e.row]
           /\ UNCHANGED <<due, row>>

\* One commit for the whole run.
CommitDailySync ==
    /\ run # Asleep
    /\ run.todo = {}
    /\ row' = [o \in Orders |->
                  IF o \in run.written THEN Merged(row[o], run.rows[o]) ELSE row[o]]
    /\ run' = Asleep
    /\ UNCHANGED <<due, remote, mishaps>>

\* The worker dies: its writes are rolled back, what it sent is not.
DailySyncDies ==
    /\ run # Asleep
    /\ mishaps < MaxMishaps
    /\ mishaps' = mishaps + 1
    /\ run' = Asleep
    /\ UNCHANGED <<due, row, remote>>

\* sync_single_order, short enough to be one step, on an order the run has not
\* written: its row is not locked.
SyncSingleOrder(o) ==
    \E e \in Attempts(row[o]) :
        LET cost == IF e.lost THEN 1 ELSE 0
        IN /\ o \notin run.written
           /\ mishaps + cost <= MaxMishaps
           /\ mishaps' = mishaps + cost
           /\ Receive(o, e.sent)
           /\ row' = [row EXCEPT ![o] = e.row]
           /\ UNCHANGED <<due, run>>

Next ==
    \/ \E o \in Orders : Paid(o) \/ Ended(o) \/ PushDaily(o) \/ SyncSingleOrder(o)
    \/ StartDailySync \/ CommitDailySync \/ DailySyncDies

Spec == Init /\ [][Next]_erpVars

-----------------------------------------------------------------------------
\* The other site holds one Sales Order and one Sales Invoice for an order, and
\* one more only for a lost answer, a run that died or a push from a stale read
\* ("safe to call multiple times (idempotent)").
ExportedOnce ==
    \A o \in Orders : remote[o].so <= 1 + mishaps /\ remote[o].invoice <= 1 + mishaps

\* An order that counts as synced has both documents on the other site, so no
\* paid order is left out of the books.
SyncedIsExported ==
    \A o \in Orders : row[o].status = "Synced" => remote[o].so > 0 /\ remote[o].invoice > 0

\* The other site has what counts as synced, and has it once.
ExportIsComplete == ExportedOnce /\ SyncedIsExported
=============================================================================
