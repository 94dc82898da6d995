---------------------------- MODULE EventDelivery ----------------------------
(***************************************************************************)
(* The hub's outbound event queue: the rows of the Webhook Event table,    *)
(* numbered per vendor, and the background jobs that push them to the      *)
(* vendors' sites (events/publisher.py, api/event_ordering.py,             *)
(* api/fallback_delivery.py).                                              *)
(*                                                                         *)
(* An event gets its number under a lock of the vendor's row, so a vendor's*)
(* events are created in the order of their numbers.  Each creation tries  *)
(* to enqueue a delivery job at once; a sweep every two minutes enqueues   *)
(* one for whatever is still Queued.  Jobs of one vendor run in parallel.  *)
(* What keeps its events in order is the gap check: a job gives up unless  *)
(* its event is the one after the watermark, or older.  The check reads    *)
(* the watermark before the push, the update writes it after.              *)
(*                                                                         *)
(* Redis carries the jobs and the watermark, so there is no delivery while *)
(* it is down: the copy of the watermark in the Vendor row is written and  *)
(* never read, and is left out.                                            *)
(***************************************************************************)
EXTENDS Integers, Sequences, FiniteSets

CONSTANTS
    Vendors,           \* the vendors with a site to push to
    Priorities,        \* PRIORITY_MAP's values, 1 the most urgent
    MaxRetries,        \* Settings.max_webhook_retries
    DrainLimit,        \* rows one sweep selects (50)
    WatermarkExpires,  \* whether a vendor may be silent for a day
    MaxEvents          \* bound: events ever created

ASSUME EventsAssumption ==
    /\ Priorities \subseteq Nat
    /\ MaxRetries \in Nat \ {0}
    /\ DrainLimit \in Nat \ {0}
    /\ WatermarkExpires \in BOOLEAN
    /\ MaxEvents \in Nat

VARIABLES
    queue,       \* the Webhook Event rows, in order of creation
    lastSeq,     \* lastSeq[v]: Vendor.last_event_seq
    watermark,   \* watermark[v]: sm_last_processed_seq, 0 when the key is missing
    sweep,       \* the rows drain_event_queue has selected and not yet enqueued
    received     \* received[v]: the numbers v's site was ever sent

vars == <<queue, lastSeq, watermark, sweep, received>>

WebhookEvent ==
    [vendor : Vendors, seq : Nat, priority : Priorities,
     status : {"Queued", "Sent"}, method : {"Push", "Pull"}, retries : Nat,
     job : {"none", "queued", "sending"}]

TypeOK ==
    /\ queue \in Seq(WebhookEvent)
    /\ lastSeq \in [Vendors -> Nat]
    /\ watermark \in [Vendors -> Nat]
    /\ sweep \subseteq DOMAIN queue
    /\ received \in [Vendors -> SUBSET Nat]

Init ==
    /\ queue = <<>>
    /\ lastSeq = [v \in Vendors |-> 0]
    /\ watermark = [v \in Vendors |-> 0]
    /\ sweep = {}
    /\ received = [v \in Vendors |-> {}]

Queued == {i \in DOMAIN queue : queue[i].status = "Queued"}

-----------------------------------------------------------------------------
(* Publishing.                                                             *)

\* _enqueue.  Scheduling the delivery may fail, which is logged and ignored.
Enqueue(v, p) ==
    /\ Len(queue) < MaxEvents
    /\ lastSeq' = [lastSeq EXCEPT ![v] = @ + 1]
    /\ \E job \in {"queued", "none"} :
         queue' = Append(queue,
                    [vendor |-> v, seq |-> lastSeq[v] + 1, priority |-> p,
                     status |-> "Queued", method |-> "Push", retries |-> 0,
                     job |-> job])
    /\ UNCHANGED <<watermark, sweep, received>>

-----------------------------------------------------------------------------
(* drain_event_queue.                                                      *)

\* ORDER BY priority, creation.
Before(i, j) ==
    \/ queue[i].priority < queue[j].priority
    \/ queue[i].priority = queue[j].priority /\ i < j

\* The SELECT ... LIMIT: all that is Queued, or the first DrainLimit of it.
DrainSelect ==
    /\ sweep = {}
    /\ Queued # {}
    /\ \E S \in SUBSET Queued :
        /\ \/ S = Queued /\ Cardinality(S) <= DrainLimit
           \/ Cardinality(S) = DrainLimit
        /\ \A i \in S, j \in Queued \ S : Before(i, j)
        /\ sweep' = S
    /\ UNCHANGED <<queue, lastSeq, watermark, received>>

\* The row is not read again.  A second job for it is not enqueued.
EnqueueSwept(i) ==
    /\ i \in sweep
    /\ sweep' = sweep \ {i}
    /\ queue' = [queue EXCEPT ![i].job = IF @ = "none" THEN "queued" ELSE @]
    /\ UNCHANGED <<lastSeq, watermark, received>>

\* The vendor is over its error budget, or the job cannot be enqueued.
SkipSwept(i) ==
    /\ i \in sweep
    /\ sweep' = sweep \ {i}
    /\ UNCHANGED <<queue, lastSeq, watermark, received>>

-----------------------------------------------------------------------------
(* _deliver_event, run by a worker.                                        *)

\* Fault: the comparison is the wrong way round.
VerifySequenceReversed(v, n) == n > watermark[v]

\* Numbers already processed pass too: the vendor's site will know them.
VerifySequence(v, n) == n <= watermark[v] + 1

\* The job passes every gate.  The row's status is not one of them.
StartDelivery(i) ==
    /\ queue[i].job = "queued"
    /\ VerifySequence(queue[i].vendor, queue[i].seq)
    /\ queue' = [queue EXCEPT ![i].job = "sending"]
    /\ UNCHANGED <<lastSeq, watermark, sweep, received>>

\* The gap check, or the circuit breaker, the error budget or the throttle,
\* ends the job; the row is left as it is.
DeferDelivery(i) ==
    /\ queue[i].job = "queued"
    /\ queue' = [queue EXCEPT ![i].job = "none"]
    /\ UNCHANGED <<lastSeq, watermark, sweep, received>>

\* The request reached the vendor's site.
Reaches(i) ==
    received' = [received EXCEPT ![queue[i].vendor] = @ \cup {queue[i].seq}]

\* It may have, even though no good answer came back.
MayReach(i) == Reaches(i) \/ UNCHANGED received

Attempts(i) == queue[i].retries + 1

EndDelivery(i, status, method) ==
    queue' = [queue EXCEPT ![i].status = status, ![i].method = method,
                           ![i].retries = @ + 1, ![i].job = "none"]

\* Stores the number whatever the watermark has come to.
MarkProcessed(i) ==
    watermark' = [watermark EXCEPT ![queue[i].vendor] = queue[i].seq]

DeliverySucceeds(i) ==
    /\ queue[i].job = "sending"
    /\ EndDelivery(i, "Sent", queue[i].method)
    /\ Reaches(i)
    /\ MarkProcessed(i)
    /\ UNCHANGED <<lastSeq, sweep>>

\* Fault: a status no sweep looks for.
DeliveryFailsAsFailed(i) ==
    /\ queue[i].job = "sending"
    /\ Attempts(i) < MaxRetries
    /\ EndDelivery(i, "Failed", queue[i].method)
    /\ MayReach(i)
    /\ UNCHANGED <<lastSeq, watermark, sweep>>

\* next_retry_at is set, and nothing waits for it.
DeliveryFails(i) ==
    /\ queue[i].job = "sending"
    /\ Attempts(i) < MaxRetries
    /\ EndDelivery(i, "Queued", queue[i].method)
    /\ MayReach(i)
    /\ UNCHANGED <<lastSeq, watermark, sweep>>

\* Fault: given up without a way left for the vendor to get it.
DeliveryFallsBackSilently(i) ==
    /\ queue[i].job = "sending"
    /\ Attempts(i) >= MaxRetries
    /\ EndDelivery(i, "Sent", queue[i].method)
    /\ MayReach(i)
    /\ UNCHANGED <<lastSeq, watermark, sweep>>

\* deliver_with_fallback posts once more, and otherwise leaves the row for the
\* vendor to poll.  Either counts as Sent; neither moves the watermark.
DeliveryFallsBack(i) ==
    /\ queue[i].job = "sending"
    /\ Attempts(i) >= MaxRetries
    /\ \/ EndDelivery(i, "Sent", queue[i].method) /\ Reaches(i)
       \/ EndDelivery(i, "Sent", "Pull") /\ MayReach(i)
    /\ UNCHANGED <<lastSeq, watermark, sweep>>

\* The worker is killed: its transaction is rolled back, its request is not, nor
\* the watermark, which is in Redis before the commit.  The job is gone once the
\* job queue has noticed.
WorkerDies(i) ==
    /\ queue[i].job = "sending"
    /\ queue' = [queue EXCEPT ![i].job = "none"]
    /\ \/ MayReach(i) /\ UNCHANGED watermark
       \/ Reaches(i) /\ MarkProcessed(i)
    /\ UNCHANGED <<lastSeq, sweep>>

FinishDelivery(i) ==
    \/ DeliverySucceeds(i)
    \/ DeliveryFails(i)
    \/ DeliveryFallsBack(i)

-----------------------------------------------------------------------------

\* The watermark's key outlives the last success by a day.
WatermarkExpiry(v) ==
    /\ WatermarkExpires
    /\ watermark' = [watermark EXCEPT ![v] = 0]
    /\ UNCHANGED <<queue, lastSeq, sweep, received>>

JobStep(i) ==
    \/ StartDelivery(i)
    \/ DeferDelivery(i)
    \/ FinishDelivery(i)
    \/ WorkerDies(i)

Next ==
    \/ \E v \in Vendors, p \in Priorities : Enqueue(v, p)
    \/ DrainSelect
    \/ \E i \in sweep : EnqueueSwept(i) \/ SkipSwept(i)
    \/ \E i \in DOMAIN queue : JobStep(i)
    \/ \E v \in Vendors : WatermarkExpiry(v)

Spec == Init /\ [][Next]_vars

\* The cron keeps sweeping.  Whatever turns an event away (breaker, budget,
\* throttle, a full job queue, a dying worker) does so for a limited time: of
\* the sweeps that come back to a row, one enqueues it, and of the jobs that
\* could push it, one does, and comes to an end.
Fairness ==
    /\ WF_vars(DrainSelect)
    /\ \A i \in 1..MaxEvents :
        /\ SF_vars(EnqueueSwept(i))
        /\ SF_vars(i \in DOMAIN queue /\ StartDelivery(i))
        /\ SF_vars(i \in DOMAIN queue /\ FinishDelivery(i))

FairSpec == Spec /\ Fairness

-----------------------------------------------------------------------------
(* Properties.                                                             *)

\* "the vendor never sees seq 6 before seq 5" (events/publisher.py:623-631),
\* although its jobs run in parallel, answers get lost, workers die, stale jobs
\* push what was Sent, and the watermark moves backwards or disappears.
InOrder ==
    \A v \in Vendors : \A n \in received[v] : 1..n \subseteq received[v]

\* An event counts as Sent only when the vendor's site has been sent it, or it
\* is left for the vendor to pull (events/publisher.py:702-745).
NothingLost ==
    \A i \in DOMAIN queue : queue[i].status = "Sent" =>
        \/ queue[i].seq \in received[queue[i].vendor]
        \/ queue[i].method = "Pull"

\* Queued, past no gap, and within what one sweep selects.
Due(i) ==
    /\ i \in Queued
    /\ queue[i].seq <= watermark[queue[i].vendor] + 1
    /\ Cardinality({j \in Queued : Before(j, i)}) < DrainLimit

\* An event that nothing holds back does not stay Queued for ever: lost answers,
\* dying workers and jobs that give up do not leave it behind, nor do the events
\* of other vendors, as long as fewer than a sweep's limit are ahead of it
\* (events/publisher.py:495-528).
DueIsServed == \A i \in 1..MaxEvents : Due(i) ~> ~Due(i)

GapFilled(i) == i \in DOMAIN queue /\
    \A j \in DOMAIN queue :
        queue[j].vendor = queue[i].vendor /\ queue[j].seq < queue[i].seq =>
            queue[j].status = "Sent"

\* "Stays Queued - the next drain sweep retries once the gap fills"
\* (events/publisher.py:625-626): an event whose predecessors have all been Sent
\* is Sent in the end.
HeldEventsFollow ==
    \A i \in 1..MaxEvents :
        GapFilled(i) ~> (i \in DOMAIN queue /\ queue[i].status = "Sent")
=============================================================================
