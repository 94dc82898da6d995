-------------------------- MODULE EventDeliveryProofs --------------------------
(***************************************************************************)
(* Theorems about EventDelivery, for every set of vendors, every number of *)
(* events and retries, and every limit of the sweep.                       *)
(***************************************************************************)
EXTENDS EventDelivery, SequenceTheorems, TLAPS

-----------------------------------------------------------------------------
(* Updating one row of the queue.                                          *)

\* Row i becomes r, and nothing else changes.
Becomes(i, r) ==
    /\ DOMAIN queue' = DOMAIN queue
    /\ queue'[i] = r
    /\ \A j \in DOMAIN queue \ {i} : queue'[j] = queue[j]
    /\ queue' \in Seq(WebhookEvent)

LEMMA RowUpdated ==
    ASSUME queue \in Seq(WebhookEvent), NEW i \in DOMAIN queue,
           NEW r \in WebhookEvent, queue' = [queue EXCEPT ![i] = r]
    PROVE  Becomes(i, r)
  <1>1. i \in 1..Len(queue)
        OBVIOUS
  <1>2. queue' \in Seq(WebhookEvent)
        BY <1>1, ExceptSeq
  <1>. QED
        BY <1>2 DEF Becomes

\* The job field alone.
LEMMA JobUpdated ==
    ASSUME queue \in Seq(WebhookEvent), NEW i \in DOMAIN queue,
           NEW job \in {"none", "queued", "sending"},
           queue' = [queue EXCEPT ![i].job = job]
    PROVE  Becomes(i, [queue[i] EXCEPT !.job = job])
  <1>. DEFINE r == [queue[i] EXCEPT !.job = job]
  <1>1. queue[i] \in WebhookEvent
        OBVIOUS
  <1>2. r \in WebhookEvent
        BY <1>1 DEF WebhookEvent
  <1>3. queue' = [queue EXCEPT ![i] = r]
        OBVIOUS
  <1>. QED
        BY <1>2, <1>3, RowUpdated

\* What the end of a delivery writes.
Ended(i, status, method) ==
    [queue[i] EXCEPT !.status = status, !.method = method,
                     !.retries = Attempts(i), !.job = "none"]

LEMMA DeliveryEnded ==
    ASSUME queue \in Seq(WebhookEvent), NEW i \in DOMAIN queue,
           NEW status \in {"Queued", "Sent"}, NEW method \in {"Push", "Pull"},
           EndDelivery(i, status, method)
    PROVE  Becomes(i, Ended(i, status, method))
  <1>. DEFINE r == Ended(i, status, method)
  <1>1. queue[i] \in WebhookEvent
        OBVIOUS
  <1>2. r \in WebhookEvent
    <2>1. Attempts(i) \in Nat
          BY <1>1 DEF WebhookEvent, Attempts
    <2>. QED
          BY <1>1, <2>1 DEF WebhookEvent, Ended
  <1>3. queue' = [queue EXCEPT ![i] = r]
        BY DEF EndDelivery, Ended, Attempts
  <1>. QED
        BY <1>2, <1>3, RowUpdated

\* A new row goes to the end.
LEMMA RowAdded ==
    ASSUME queue \in Seq(WebhookEvent), NEW r \in WebhookEvent,
           queue' = Append(queue, r)
    PROVE  /\ queue' \in Seq(WebhookEvent)
           /\ DOMAIN queue \subseteq DOMAIN queue'
           /\ \A j \in DOMAIN queue : queue'[j] = queue[j]
           /\ \A j \in DOMAIN queue' \ DOMAIN queue : queue'[j] = r
  BY AppendProperties

-----------------------------------------------------------------------------
(* The invariant.  The watermark is not monotone, so order cannot be read  *)
(* off it: what holds is that everything up to it was received, and that a *)
(* job past the gap check finds all earlier numbers received.              *)

WatermarkReceived == \A v \in Vendors : 1..watermark[v] \subseteq received[v]

SendingInOrder ==
    \A i \in DOMAIN queue : queue[i].job = "sending" =>
        1..(queue[i].seq - 1) \subseteq received[queue[i].vendor]

DeliveryInv ==
    /\ TypeOK
    /\ InOrder
    /\ WatermarkReceived
    /\ SendingInOrder
    /\ NothingLost

LEMMA InitDelivery == Init => DeliveryInv
  BY DEF Init, DeliveryInv, TypeOK, InOrder, WatermarkReceived, SendingInOrder,
         NothingLost

\* A job past the gap check may push its event.
LEMMA PushKeepsOrder ==
    ASSUME DeliveryInv, NEW i \in DOMAIN queue, queue[i].job = "sending", Reaches(i)
    PROVE  /\ received' \in [Vendors -> SUBSET Nat]
           /\ \A v \in Vendors : received[v] \subseteq received'[v]
           /\ 1..queue[i].seq \subseteq received'[queue[i].vendor]
           /\ \A v \in Vendors : \A n \in received'[v] : 1..n \subseteq received'[v]
  <1>. DEFINE w == queue[i].vendor
              n0 == queue[i].seq
  <1>1. w \in Vendors /\ n0 \in Nat
    <2>1. queue[i] \in WebhookEvent
          BY DEF DeliveryInv, TypeOK
    <2>. QED
          BY <2>1 DEF WebhookEvent
  <1>2. received' = [received EXCEPT ![w] = received[w] \cup {n0}]
        BY DEF Reaches
  <1>3. 1..(n0 - 1) \subseteq received[w]
        BY DEF DeliveryInv, SendingInOrder
  <1>4. received \in [Vendors -> SUBSET Nat]
        BY DEF DeliveryInv, TypeOK
  <1>. HIDE DEF w, n0
  <1>5. /\ received' \in [Vendors -> SUBSET Nat]
        /\ received'[w] = received[w] \cup {n0}
        /\ \A v \in Vendors \ {w} : received'[v] = received[v]
        BY <1>1, <1>2, <1>4
  <1>6. 1..n0 \subseteq received'[w]
    <2>1. ASSUME NEW k \in 1..n0 PROVE k \in received'[w]
          BY <1>1, <1>3, <1>5, <2>1
    <2>. QED
          BY <2>1
  <1>7. ASSUME NEW v \in Vendors, NEW n \in received'[v]
        PROVE  1..n \subseteq received'[v]
    <2>1. CASE v = w /\ n = n0
          BY <2>1, <1>6
    <2>2. CASE v # w \/ n # n0
      <3>1. n \in received[v]
            BY <2>2, <1>5, <1>7
      <3>2. 1..n \subseteq received[v]
            BY <3>1 DEF DeliveryInv, InOrder
      <3>. QED
            BY <3>2, <1>5
    <2>. QED
          BY <2>1, <2>2
  <1>8. \A v \in Vendors : received[v] \subseteq received'[v]
        BY <1>5
  <1>. QED
        BY <1>5, <1>6, <1>7, <1>8 DEF w, n0

-----------------------------------------------------------------------------
(* The steps.                                                              *)

ReceivedGrows ==
    /\ received' \in [Vendors -> SUBSET Nat]
    /\ \A v \in Vendors : received[v] \subseteq received'[v]

\* What a step that rewrites row i owes to the parts that read the rows.
LEMMA RowStep ==
    ASSUME DeliveryInv, NEW i \in DOMAIN queue, NEW r, Becomes(i, r), ReceivedGrows,
           r.vendor = queue[i].vendor, r.seq = queue[i].seq,
           r.job = "sending" => 1..(r.seq - 1) \subseteq received'[r.vendor],
           r.status = "Sent" => r.seq \in received'[r.vendor] \/ r.method = "Pull"
    PROVE  queue' \in Seq(WebhookEvent) /\ SendingInOrder' /\ NothingLost'
  <1>1. \A j \in DOMAIN queue : queue[j].vendor \in Vendors
    <2>1. \A j \in DOMAIN queue : queue[j] \in WebhookEvent
          BY DEF DeliveryInv, TypeOK
    <2>. QED
          BY <2>1 DEF WebhookEvent
  <1>2. SendingInOrder'
    <2>1. ASSUME NEW j \in DOMAIN queue', queue'[j].job = "sending"
          PROVE  1..(queue'[j].seq - 1) \subseteq received'[queue'[j].vendor]
      <3>1. CASE j = i
            BY <2>1, <3>1 DEF Becomes
      <3>2. CASE j # i
        <4>1. j \in DOMAIN queue /\ queue'[j] = queue[j]
              BY <2>1, <3>2 DEF Becomes
        <4>2. 1..(queue[j].seq - 1) \subseteq received[queue[j].vendor]
              BY <2>1, <4>1 DEF DeliveryInv, SendingInOrder
        <4>. QED
              BY <1>1, <4>1, <4>2 DEF ReceivedGrows
      <3>. QED
            BY <3>1, <3>2
    <2>. QED
          BY <2>1 DEF SendingInOrder
  <1>3. NothingLost'
    <2>1. ASSUME NEW j \in DOMAIN queue', queue'[j].status = "Sent"
          PROVE  \/ queue'[j].seq \in received'[queue'[j].vendor]
                 \/ queue'[j].method = "Pull"
      <3>1. CASE j = i
            BY <2>1, <3>1 DEF Becomes
      <3>2. CASE j # i
        <4>1. j \in DOMAIN queue /\ queue'[j] = queue[j]
              BY <2>1, <3>2 DEF Becomes
        <4>2. queue[j].seq \in received[queue[j].vendor] \/ queue[j].method = "Pull"
              BY <2>1, <4>1 DEF DeliveryInv, NothingLost
        <4>. QED
              BY <1>1, <4>1, <4>2 DEF ReceivedGrows
      <3>. QED
            BY <3>1, <3>2
    <2>. QED
          BY <2>1 DEF NothingLost
  <1>. QED
        BY <1>2, <1>3 DEF Becomes

\* The push may or may not have gone out.
LEMMA MayReachKeepsOrder ==
    ASSUME DeliveryInv, NEW i \in DOMAIN queue, queue[i].job = "sending", MayReach(i)
    PROVE  ReceivedGrows /\ InOrder'
  <1>1. CASE Reaches(i)
        BY <1>1, PushKeepsOrder DEF ReceivedGrows, InOrder
  <1>2. CASE UNCHANGED received
        BY <1>2 DEF ReceivedGrows, InOrder, DeliveryInv, TypeOK
  <1>. QED
        BY <1>1, <1>2 DEF MayReach

\* A row is well typed, and so is what it came to.
LEMMA RowTyped ==
    ASSUME DeliveryInv, NEW i \in DOMAIN queue
    PROVE  queue[i] \in WebhookEvent /\ queue[i].vendor \in Vendors /\ queue[i].seq \in Nat
  <1>1. queue[i] \in WebhookEvent
        BY DEF DeliveryInv, TypeOK
  <1>. QED
        BY <1>1 DEF WebhookEvent

LEMMA EnqueueKeeps ==
    ASSUME DeliveryInv, NEW v \in Vendors, NEW p \in Priorities, Enqueue(v, p)
    PROVE  DeliveryInv'
  <1>. PICK job \in {"queued", "none"} :
         queue' = Append(queue,
                    [vendor |-> v, seq |-> lastSeq[v] + 1, priority |-> p,
                     status |-> "Queued", method |-> "Push", retries |-> 0,
                     job |-> job])
        BY DEF Enqueue
  <1>. DEFINE r == [vendor |-> v, seq |-> lastSeq[v] + 1, priority |-> p,
                    status |-> "Queued", method |-> "Push", retries |-> 0,
                    job |-> job]
  <1>1. r \in WebhookEvent
        BY DEF WebhookEvent, DeliveryInv, TypeOK
  <1>2. r.status # "Sent" /\ r.job # "sending"
        OBVIOUS
  <1>3. queue \in Seq(WebhookEvent) /\ queue' = Append(queue, r)
        BY DEF DeliveryInv, TypeOK
  <1>. HIDE DEF r
  <1>4. /\ queue' \in Seq(WebhookEvent)
        /\ DOMAIN queue \subseteq DOMAIN queue'
        /\ \A j \in DOMAIN queue : queue'[j] = queue[j]
        /\ \A j \in DOMAIN queue' \ DOMAIN queue : queue'[j] = r
        BY <1>1, <1>3, RowAdded
  <1>5. lastSeq' \in [Vendors -> Nat] /\ UNCHANGED <<watermark, sweep, received>>
        BY DEF Enqueue, DeliveryInv, TypeOK
  <1>6. SendingInOrder'
        BY <1>2, <1>4, <1>5 DEF SendingInOrder, DeliveryInv
  <1>7. NothingLost'
        BY <1>2, <1>4, <1>5 DEF NothingLost, DeliveryInv
  <1>8. TypeOK'
        BY <1>4, <1>5 DEF TypeOK, DeliveryInv
  <1>. QED
        BY <1>5, <1>6, <1>7, <1>8 DEF DeliveryInv, InOrder, WatermarkReceived

\* Steps that change a row's job and push nothing.
LEMMA JobChangeKeeps ==
    ASSUME DeliveryInv, NEW i \in DOMAIN queue,
           NEW job \in {"none", "queued", "sending"},
           queue' = [queue EXCEPT ![i].job = job],
           job = "sending" => 1..(queue[i].seq - 1) \subseteq received[queue[i].vendor],
           sweep' \subseteq sweep, UNCHANGED <<lastSeq, watermark, received>>
    PROVE  DeliveryInv'
  <1>. DEFINE r == [queue[i] EXCEPT !.job = job]
  <1>1. Becomes(i, r)
        BY JobUpdated DEF DeliveryInv, TypeOK
  <1>2. /\ r.vendor = queue[i].vendor /\ r.seq = queue[i].seq /\ r.job = job
        /\ r.status = queue[i].status /\ r.method = queue[i].method
        BY RowTyped DEF WebhookEvent
  <1>3. r.status = "Sent" => r.seq \in received[r.vendor] \/ r.method = "Pull"
        BY <1>2 DEF DeliveryInv, NothingLost
  <1>4. ReceivedGrows
        BY DEF ReceivedGrows, DeliveryInv, TypeOK
  <1>. HIDE DEF r
  <1>5. queue' \in Seq(WebhookEvent) /\ SendingInOrder' /\ NothingLost'
        BY <1>1, <1>2, <1>3, <1>4, RowStep
  <1>6. TypeOK'
        BY <1>1, <1>5 DEF TypeOK, DeliveryInv, Becomes
  <1>. QED
        BY <1>5, <1>6 DEF DeliveryInv, InOrder, WatermarkReceived

\* Steps that end a delivery.
LEMMA EndKeeps ==
    ASSUME DeliveryInv, NEW i \in DOMAIN queue,
           NEW status \in {"Queued", "Sent"}, NEW method \in {"Push", "Pull"},
           EndDelivery(i, status, method), ReceivedGrows, InOrder',
           status = "Sent" =>
               queue[i].seq \in received'[queue[i].vendor] \/ method = "Pull",
           watermark' \in [Vendors -> Nat], WatermarkReceived',
           UNCHANGED <<lastSeq, sweep>>
    PROVE  DeliveryInv'
  <1>. DEFINE r == Ended(i, status, method)
  <1>1. Becomes(i, r)
        BY DeliveryEnded DEF DeliveryInv, TypeOK
  <1>2. /\ r.vendor = queue[i].vendor /\ r.seq = queue[i].seq /\ r.job = "none"
        /\ r.status = status /\ r.method = method
        BY RowTyped DEF WebhookEvent, Ended
  <1>. HIDE DEF r
  <1>3. queue' \in Seq(WebhookEvent) /\ SendingInOrder' /\ NothingLost'
        BY <1>1, <1>2, RowStep
  <1>4. TypeOK'
        BY <1>1, <1>3 DEF TypeOK, DeliveryInv, Becomes, ReceivedGrows
  <1>. QED
        BY <1>3, <1>4 DEF DeliveryInv

\* A watermark that stays keeps what it stands for.
LEMMA WatermarkStays ==
    ASSUME DeliveryInv, ReceivedGrows, UNCHANGED watermark
    PROVE  watermark' \in [Vendors -> Nat] /\ WatermarkReceived'
  BY DEF DeliveryInv, TypeOK, WatermarkReceived, ReceivedGrows

\* A watermark set to what was just pushed stands for what was received, even if
\* it moves backwards.
LEMMA WatermarkSet ==
    ASSUME DeliveryInv, NEW i \in DOMAIN queue, queue[i].job = "sending",
           Reaches(i), MarkProcessed(i)
    PROVE  watermark' \in [Vendors -> Nat] /\ WatermarkReceived'
  <1>1. 1..queue[i].seq \subseteq received'[queue[i].vendor]
        BY PushKeepsOrder
  <1>2. \A v \in Vendors : received[v] \subseteq received'[v]
        BY PushKeepsOrder
  <1>3. watermark' = [watermark EXCEPT ![queue[i].vendor] = queue[i].seq]
        BY DEF MarkProcessed
  <1>4. queue[i].vendor \in Vendors /\ queue[i].seq \in Nat
        BY RowTyped
  <1>5. watermark \in [Vendors -> Nat] /\ WatermarkReceived
        BY DEF DeliveryInv, TypeOK
  <1>. QED
        BY <1>1, <1>2, <1>3, <1>4, <1>5 DEF WatermarkReceived

LEMMA JobStepKeeps ==
    ASSUME DeliveryInv, NEW i \in DOMAIN queue, JobStep(i)
    PROVE  DeliveryInv'
  <1>0. queue[i] \in WebhookEvent /\ queue[i].vendor \in Vendors /\ queue[i].seq \in Nat
        BY RowTyped
  <1>1. CASE StartDelivery(i)
    <2>1. queue[i].seq <= watermark[queue[i].vendor] + 1
          BY <1>1 DEF StartDelivery, VerifySequence
    <2>2. watermark[queue[i].vendor] \in Nat
          BY <1>0 DEF DeliveryInv, TypeOK
    <2>3. 1..watermark[queue[i].vendor] \subseteq received[queue[i].vendor]
          BY <1>0 DEF DeliveryInv, WatermarkReceived
    <2>4. 1..(queue[i].seq - 1) \subseteq received[queue[i].vendor]
          BY <1>0, <2>1, <2>2, <2>3
    <2>. QED
          BY <1>1, <2>4, JobChangeKeeps DEF StartDelivery
  <1>2. CASE DeferDelivery(i)
        BY <1>2, JobChangeKeeps DEF DeferDelivery
  <1>3. CASE DeliverySucceeds(i)
    <2>1. queue[i].method \in {"Push", "Pull"}
          BY <1>0 DEF WebhookEvent
    <2>2. queue[i].job = "sending" /\ Reaches(i) /\ MarkProcessed(i)
          BY <1>3 DEF DeliverySucceeds
    <2>3. ReceivedGrows /\ InOrder'
          BY <2>2, MayReachKeepsOrder DEF MayReach
    <2>4. watermark' \in [Vendors -> Nat] /\ WatermarkReceived'
          BY <2>2, WatermarkSet
    <2>5. queue[i].seq \in received'[queue[i].vendor]
          BY <1>0, <2>2 DEF Reaches, DeliveryInv, TypeOK
    <2>. QED
          BY <1>3, <2>1, <2>3, <2>4, <2>5, EndKeeps DEF DeliverySucceeds
  <1>4. CASE DeliveryFails(i)
    <2>1. queue[i].method \in {"Push", "Pull"}
          BY <1>0 DEF WebhookEvent
    <2>2. ReceivedGrows /\ InOrder'
          BY <1>4, MayReachKeepsOrder DEF DeliveryFails
    <2>3. watermark' \in [Vendors -> Nat] /\ WatermarkReceived'
          BY <1>4, <2>2, WatermarkStays DEF DeliveryFails
    <2>. QED
          BY <1>4, <2>1, <2>2, <2>3, EndKeeps DEF DeliveryFails
  <1>5. CASE DeliveryFallsBack(i)
    <2>1. queue[i].method \in {"Push", "Pull"}
          BY <1>0 DEF WebhookEvent
    <2>2. queue[i].job = "sending" /\ MayReach(i) /\ UNCHANGED <<lastSeq, watermark, sweep>>
          BY <1>5 DEF DeliveryFallsBack, MayReach
    <2>3. ReceivedGrows /\ InOrder'
          BY <2>2, MayReachKeepsOrder
    <2>4. watermark' \in [Vendors -> Nat] /\ WatermarkReceived'
          BY <2>2, <2>3, WatermarkStays
    <2>5. CASE EndDelivery(i, "Sent", queue[i].method) /\ Reaches(i)
      <3>1. queue[i].seq \in received'[queue[i].vendor]
            BY <1>0, <2>5 DEF Reaches, DeliveryInv, TypeOK
      <3>. QED
            BY <2>1, <2>2, <2>3, <2>4, <2>5, <3>1, EndKeeps
    <2>6. CASE EndDelivery(i, "Sent", "Pull") /\ MayReach(i)
          BY <2>2, <2>3, <2>4, <2>6, EndKeeps
    <2>. QED
          BY <1>5, <2>5, <2>6 DEF DeliveryFallsBack
  <1>6. CASE WorkerDies(i)
    <2>1. queue[i].job = "sending" /\ MayReach(i) /\ UNCHANGED <<lastSeq, sweep>>
          BY <1>6 DEF WorkerDies, MayReach
    <2>2. ReceivedGrows /\ InOrder'
          BY <2>1, MayReachKeepsOrder
    <2>3. watermark' \in [Vendors -> Nat] /\ WatermarkReceived'
          BY <1>6, <2>1, <2>2, WatermarkStays, WatermarkSet DEF WorkerDies
    <2>. DEFINE r == [queue[i] EXCEPT !.job = "none"]
    <2>4. Becomes(i, r)
          BY <1>6, JobUpdated DEF WorkerDies, DeliveryInv, TypeOK
    <2>5. /\ r.vendor = queue[i].vendor /\ r.seq = queue[i].seq /\ r.job = "none"
          /\ r.status = queue[i].status /\ r.method = queue[i].method
          BY <1>0 DEF WebhookEvent
    <2>6. r.status = "Sent" => r.seq \in received'[r.vendor] \/ r.method = "Pull"
      <3>1. r.status = "Sent" => r.seq \in received[r.vendor] \/ r.method = "Pull"
            BY <2>5 DEF DeliveryInv, NothingLost
      <3>. QED
            BY <1>0, <2>2, <2>5, <3>1 DEF ReceivedGrows
    <2>. HIDE DEF r
    <2>7. queue' \in Seq(WebhookEvent) /\ SendingInOrder' /\ NothingLost'
          BY <2>2, <2>4, <2>5, <2>6, RowStep
    <2>8. TypeOK'
          BY <2>1, <2>2, <2>3, <2>4, <2>7 DEF TypeOK, DeliveryInv, Becomes, ReceivedGrows
    <2>. QED
          BY <2>2, <2>3, <2>7, <2>8 DEF DeliveryInv
  <1>. QED
        BY <1>1, <1>2, <1>3, <1>4, <1>5, <1>6 DEF JobStep, FinishDelivery

LEMMA StepKeepsDelivery == DeliveryInv /\ [Next]_vars => DeliveryInv'
  <1>. SUFFICES ASSUME DeliveryInv, [Next]_vars PROVE DeliveryInv'
        OBVIOUS
  <1>1. ASSUME NEW v \in Vendors, NEW p \in Priorities, Enqueue(v, p)
        PROVE  DeliveryInv'
        BY <1>1, EnqueueKeeps
  <1>2. CASE DrainSelect
        BY <1>2 DEF DrainSelect, Queued, DeliveryInv, TypeOK, InOrder,
                    WatermarkReceived, SendingInOrder, NothingLost
  <1>3. ASSUME NEW i \in sweep, EnqueueSwept(i) PROVE DeliveryInv'
    <2>1. i \in DOMAIN queue
          BY DEF DeliveryInv, TypeOK
    <2>. DEFINE job == IF queue[i].job = "none" THEN "queued" ELSE queue[i].job
    <2>2. queue' = [queue EXCEPT ![i].job = job]
          BY <1>3 DEF EnqueueSwept
    <2>3. job \in {"none", "queued", "sending"}
          BY <2>1, RowTyped DEF WebhookEvent
    <2>4. job = "sending" => 1..(queue[i].seq - 1) \subseteq received[queue[i].vendor]
          BY <2>1 DEF DeliveryInv, SendingInOrder
    <2>. QED
          BY <1>3, <2>1, <2>2, <2>3, <2>4, JobChangeKeeps DEF EnqueueSwept
  <1>4. ASSUME NEW i \in sweep, SkipSwept(i) PROVE DeliveryInv'
        BY <1>4 DEF SkipSwept, DeliveryInv, TypeOK, InOrder, WatermarkReceived,
                    SendingInOrder, NothingLost
  <1>5. ASSUME NEW i \in DOMAIN queue, JobStep(i) PROVE DeliveryInv'
        BY <1>5, JobStepKeeps
  <1>6. ASSUME NEW v \in Vendors, WatermarkExpiry(v) PROVE DeliveryInv'
        BY <1>6 DEF WatermarkExpiry, DeliveryInv, TypeOK, InOrder,
                    WatermarkReceived, SendingInOrder, NothingLost
  <1>7. CASE UNCHANGED vars
        BY <1>7 DEF vars, DeliveryInv, TypeOK, InOrder, WatermarkReceived,
                    SendingInOrder, NothingLost
  <1>. QED
        BY <1>1, <1>2, <1>3, <1>4, <1>5, <1>6, <1>7 DEF Next

\* The queue, the jobs, the sweep and what the sites have stay well typed for any
\* number of vendors, events, retries and processes.
THEOREM QueueIsTyped == Spec => []TypeOK
  <1>1. DeliveryInv => TypeOK
        BY DEF DeliveryInv
  <1>. QED
        BY <1>1, InitDelivery, StepKeepsDelivery, PTL DEF Spec

\* Whatever is published, lost, retried, swept twice or forgotten by Redis, no
\* vendor's site is sent an event before the ones numbered below it.
THEOREM DeliveredInOrder == Spec => []InOrder
  <1>1. DeliveryInv => InOrder
        BY DEF DeliveryInv
  <1>. QED
        BY <1>1, InitDelivery, StepKeepsDelivery, PTL DEF Spec

\* No event counts as Sent that its vendor was neither sent nor can pull.
THEOREM SentWasReceived == Spec => []NothingLost
  <1>1. DeliveryInv => NothingLost
        BY DEF DeliveryInv
  <1>. QED
        BY <1>1, InitDelivery, StepKeepsDelivery, PTL DEF Spec
=============================================================================
