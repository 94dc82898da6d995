---------------------------- MODULE PriceUpdates -----------------------------
(***************************************************************************)
(* price.update events from the vendors' sites (api/events.py): recorded   *)
(* and acknowledged by receive, applied by a background job to the         *)
(* vendor's listing of a product, whose storefront price is then the       *)
(* cheapest listing's (events/publisher.py on_vendor_listing_changed).     *)
(* A job is one transaction: it sees the listings as they were when it     *)
(* started, and saving a listing that changed since is refused.            *)
(***************************************************************************)
EXTENDS Integers, FiniteSets, FiniteSetsExt

CONSTANTS
    Vendors,     \* the vendors that list the product
    PriceOf,     \* PriceOf[v][n]: the price in v's event n, 0 the first price
    MaxBusy      \* bound: jobs that run at once

VARIABLES
    rows,        \* status of the Webhook Event row of each event
    jobs,        \* its background job, and the listings the job has read
    listings,    \* price and last_event_seq of every Vendor Listing
    display,     \* Product.display_price
    overlapped   \* whether the last price was committed during another job

priceVars == <<rows, jobs, listings, display, overlapped>>

Seqs(v) == DOMAIN PriceOf[v] \ {0}
PriceEvents == {e \in Vendors \X UNION {Seqs(v) : v \in Vendors} : e[2] \in Seqs(e[1])}
Prices == UNION {{PriceOf[v][n] : n \in DOMAIN PriceOf[v]} : v \in Vendors}
Listings == [Vendors -> [price : Prices, seq : Nat]]

PricesTypeOK ==
    /\ rows \in [PriceEvents -> {"none", "Queued", "Sent", "Failed"}]
    /\ jobs \in [PriceEvents -> [at : {"none", "queued", "running"}, read : Listings]]
    /\ listings \in Listings
    /\ display \in Prices
    /\ overlapped \in BOOLEAN

FirstListings == [v \in Vendors |-> [price |-> PriceOf[v][0], seq |-> 0]]
NoJob == [at |-> "none", read |-> FirstListings]

\* The cheapest active listing.
Cheapest(ls) == Min({ls[v].price : v \in Vendors})

Init ==
    /\ rows = [e \in PriceEvents |-> "none"]
    /\ jobs = [e \in PriceEvents |-> NoJob]
    /\ listings = FirstListings
    /\ display = Cheapest(FirstListings)
    /\ overlapped = FALSE

Running == {e \in PriceEvents : jobs[e].at = "running"}

-----------------------------------------------------------------------------
\* receive, or an entry of bulk_receive: a known event_id is answered and
\* forgotten, whatever became of its row.  Scheduling the job may fail.
Receive(e) ==
    /\ rows[e] = "none"
    /\ rows' = [rows EXCEPT ![e] = "Queued"]
    /\ \E at \in {"queued", "none"} : jobs' = [jobs EXCEPT ![e].at = at]
    /\ UNCHANGED <<listings, display, overlapped>>

StartJob(e) ==
    /\ jobs[e].at = "queued"
    /\ Cardinality(Running) < MaxBusy
    /\ jobs' = [jobs EXCEPT ![e] = [at |-> "running", read |-> listings]]
    /\ UNCHANGED <<rows, listings, display, overlapped>>

\* Fault: a repeated event is stale, an older one is not.
StaleIfRepeated(e) == jobs[e].read[e[1]].seq = e[2]

\* _apply_price_update's guard, on what the job has read.
Stale(e) == e[2] <= jobs[e].read[e[1]].seq

\* Document.save would raise TimestampMismatchError.
Conflicts(e) == jobs[e].read[e[1]] # listings[e[1]]

\* A stale event is done with.
DropStale(e) ==
    /\ e \in Running
    /\ Stale(e)
    /\ rows' = [rows EXCEPT ![e] = "Sent"]
    /\ jobs' = [jobs EXCEPT ![e] = NoJob]
    /\ UNCHANGED <<listings, display, overlapped>>

\* Fault: the storefront price is computed from the listings before the save.
PriceShownBefore(e) == Cheapest(jobs[e].read)

\* What the listings look like to the job that saves event e.
PriceShown(e) ==
    Cheapest([jobs[e].read EXCEPT ![e[1]].price = PriceOf[e[1]][e[2]]])

\* The listing, the storefront price and the row, in one commit.
ApplyPriceUpdate(e) ==
    /\ e \in Running
    /\ ~Stale(e) /\ ~Conflicts(e)
    /\ listings' = [listings EXCEPT ![e[1]] = [price |-> PriceOf[e[1]][e[2]], seq |-> e[2]]]
    /\ display' = PriceShown(e)
    /\ overlapped' = (Running # {e} \/ jobs[e].read # listings)
    /\ rows' = [rows EXCEPT ![e] = "Sent"]
    /\ jobs' = [jobs EXCEPT ![e] = NoJob]

\* Fault: the outcome of a refused save is not recorded.
RefusedStatusSent == "Sent"

\* The status _process_inbound_event leaves when the save is refused.
RefusedStatus == "Failed"

RefuseConflict(e) ==
    /\ e \in Running
    /\ ~Stale(e) /\ Conflicts(e)
    /\ rows' = [rows EXCEPT ![e] = RefusedStatus]
    /\ jobs' = [jobs EXCEPT ![e] = NoJob]
    /\ UNCHANGED <<listings, display, overlapped>>

\* The worker dies; nothing looks for the row again.
LoseJob(e) ==
    /\ jobs[e].at # "none"
    /\ jobs' = [jobs EXCEPT ![e] = NoJob]
    /\ UNCHANGED <<rows, listings, display, overlapped>>

\* archive_old_events: the row goes, and with it the event_id, so an old
\* event that is sent again is taken for a new one.
Archive(e) ==
    /\ rows[e] = "Sent"
    /\ rows' = [rows EXCEPT ![e] = "none"]
    /\ UNCHANGED <<jobs, listings, display, overlapped>>

Next ==
    \E e \in PriceEvents :
        \/ Receive(e) \/ StartJob(e) \/ DropStale(e) \/ ApplyPriceUpdate(e)
        \/ RefuseConflict(e) \/ LoseJob(e) \/ Archive(e)

Spec == Init /\ [][Next]_priceVars

-----------------------------------------------------------------------------
\* An event that is reported as processed is in its listing, or was overtaken
\* by a later one; one that lost a race is Failed.
SentIsApplied == \A e \in PriceEvents : rows[e] = "Sent" => listings[e[1]].seq >= e[2]

\* Jobs may run in any order and events be sent again after the archive: no
\* listing ever goes back to an earlier price.
PricesNeverGoBack ==
    \A v \in Vendors : listings'[v].seq > listings[v].seq \/ listings'[v] = listings[v]

\* The storefront shows the cheapest listing, unless the last price was
\* committed while the job of another was running.
DisplayIsCheapest == ~overlapped => display = Cheapest(listings)

\* A step brings the vendors' price events to the storefront in whatever order
\* they come.
PricesFollow == SentIsApplied' /\ DisplayIsCheapest' /\ PricesNeverGoBack
=============================================================================
