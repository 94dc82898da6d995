------------------------------ MODULE Publishing ------------------------------
(***************************************************************************)
(* How the hub's transactions queue an event for a vendor (_enqueue of     *)
(* events/publisher.py, api/event_dedup.py): the event_id is looked up in  *)
(* the transaction's snapshot, the content in Redis, the number is taken   *)
(* under the lock of the vendor's row, which is held until the commit, and *)
(* event_id is unique in the table.  Redis is not part of the transaction. *)
(* EventDelivery takes from here that a vendor's events are created in the *)
(* order of their numbers.                                                 *)
(***************************************************************************)
EXTENDS Integers, Sequences, FiniteSets

CONSTANTS
    Callers,     \* the requests and jobs that publish at once
    Events,      \* the events they publish, for one vendor
    IdOf,        \* IdOf[e]: its event_id
    TypeOf,      \* TypeOf[e]: its event_type
    ContentOf,   \* ContentOf[e]: its payload
    MaxSeq       \* bound: the numbers ever taken

VARIABLES
    log,         \* the committed Webhook Event rows, in order of commit
    lastSeq,     \* Vendor.last_event_seq, as committed
    marks,       \* the fingerprints in Redis
    calls,       \* each caller's _enqueue
    lost,        \* the numbers taken by a refused insert, with the event_id
    raced,       \* the event_ids two callers published at once
    marred,      \* the fingerprints whose event was rolled back or refused
    reopened,    \* the fingerprints checked twice at once, expired or not set
    skipped      \* the events that were taken for duplicates

publishingVars == <<log, lastSeq, marks, calls, lost, raced, marred, reopened, skipped>>

Ids == {IdOf[e] : e \in Events}
SomeEvent == CHOOSE e \in Events : TRUE
NoCall == [at |-> "none", event |-> SomeEvent, seen |-> {}, seq |-> 0]

\* Fault: the payload is left out.
FingerprintOfType(e) == <<TypeOf[e]>>
\* event_fingerprint.
Fingerprint(e) == <<TypeOf[e], ContentOf[e]>>

PublishingTypeOK ==
    /\ log \in Seq([event : Events, seq : 1..MaxSeq])
    /\ lastSeq \in 0..MaxSeq
    /\ marks \subseteq {Fingerprint(e) : e \in Events}
    /\ calls \in [Callers -> [at : {"none", "asked", "fresh", "inserted", "refused"},
                              event : Events, seen : SUBSET Events, seq : 0..MaxSeq]]
    /\ lost \subseteq (1..MaxSeq) \X Ids
    /\ raced \subseteq Ids
    /\ skipped \subseteq Events

PublishingInit ==
    /\ log = <<>>
    /\ lastSeq = 0
    /\ marks = {}
    /\ calls = [c \in Callers |-> NoCall]
    /\ lost = {} /\ raced = {} /\ marred = {} /\ reopened = {} /\ skipped = {}

Logged == {log[i].event : i \in DOMAIN log}
Numbers == {log[i].seq : i \in DOMAIN log}
Others(c) == {calls[d].event : d \in {d \in Callers \ {c} : calls[d].at # "none"}}

\* Fault: the unique index alone guards against repetition.
ExistingNowhere(e, rows) == FALSE
\* The lookup by event_id, among the rows the transaction sees.
Existing(e, rows) == \E f \in rows : IdOf[f] = IdOf[e]

\* The vendor's row, locked by the UPDATE until the caller commits.
Locked == \E c \in Callers : calls[c].at \in {"inserted", "refused"}

-----------------------------------------------------------------------------
\* _enqueue returns when the event_id or the fingerprint is known.
Skip(c, e) ==
    /\ calls[c].at = "none"
    /\ \/ Existing(e, Logged) /\ UNCHANGED skipped
       \/ ~Existing(e, Logged) /\ Fingerprint(e) \in marks /\ skipped' = skipped \cup {e}
    /\ UNCHANGED <<log, lastSeq, marks, calls, lost, raced, marred, reopened>>

\* Neither is: cache.get_value has answered, cache.set_value is to come.
Ask(c, e) ==
    /\ calls[c].at = "none"
    /\ ~Existing(e, Logged) /\ Fingerprint(e) \notin marks
    /\ calls' = [calls EXCEPT ![c] = [at |-> "asked", event |-> e, seen |-> Logged, seq |-> 0]]
    /\ raced' = raced \cup {IdOf[f] : f \in {f \in Others(c) : IdOf[f] = IdOf[e]}}
    /\ reopened' = reopened \cup
          {Fingerprint(f) : f \in {f \in Others(c) : Fingerprint(f) = Fingerprint(e)}}
    /\ UNCHANGED <<log, lastSeq, marks, lost, marred, skipped>>

\* Fault: the fingerprint is only looked up.
MarkedNot(e) == {}
Marked(e) == {Fingerprint(e)}

Mark(c) ==
    /\ calls[c].at = "asked"
    /\ marks' = marks \cup Marked(calls[c].event)
    /\ calls' = [calls EXCEPT ![c].at = "fresh"]
    /\ UNCHANGED <<log, lastSeq, lost, raced, marred, reopened, skipped>>

\* Redis raised: the rows of the last ten minutes that the transaction sees are
\* compared instead, and nothing is marked.
AskDatabase(c) ==
    LET e == calls[c].event IN
    /\ calls[c].at = "asked"
    /\ \/ /\ \E f \in calls[c].seen : Fingerprint(f) = Fingerprint(e)
          /\ calls' = [calls EXCEPT ![c] = NoCall]
          /\ skipped' = skipped \cup {e}
       \/ /\ calls' = [calls EXCEPT ![c].at = "fresh"]
          /\ UNCHANGED skipped
    /\ reopened' = reopened \cup {Fingerprint(e)}
    /\ UNCHANGED <<log, lastSeq, marks, lost, raced, marred>>

\* Fault: the number is read and written back later, as it was once.
NextSeqAsRead(c) == Cardinality(calls[c].seen) + 1
\* The UPDATE waits for the lock and reads the committed number.
NextSeq(c) == lastSeq + 1

\* The insert, which the index refuses when the event_id has been committed.
Insert(c) ==
    /\ calls[c].at = "fresh"
    /\ ~Locked
    /\ NextSeq(c) <= MaxSeq
    /\ calls' = [calls EXCEPT
          ![c].at = IF \E f \in Logged : IdOf[f] = IdOf[calls[c].event]
                      THEN "refused" ELSE "inserted",
          ![c].seq = NextSeq(c)]
    /\ UNCHANGED <<log, lastSeq, marks, lost, raced, marred, reopened, skipped>>

\* The delivery job is enqueued after the commit: see EventDelivery.
Commit(c) ==
    /\ calls[c].at = "inserted"
    /\ log' = Append(log, [event |-> calls[c].event, seq |-> calls[c].seq])
    /\ lastSeq' = calls[c].seq
    /\ calls' = [calls EXCEPT ![c] = NoCall]
    /\ UNCHANGED <<marks, lost, raced, marred, reopened, skipped>>

\* The caller logs the refusal and goes on to commit the rest: the number too.
SwallowRefusal(c) ==
    LET e == calls[c].event IN
    /\ calls[c].at = "refused"
    /\ lastSeq' = calls[c].seq
    /\ lost' = lost \cup {<<calls[c].seq, IdOf[e]>>}
    /\ marred' = marred \cup {Fingerprint(e)}
    /\ calls' = [calls EXCEPT ![c] = NoCall]
    /\ UNCHANGED <<log, marks, raced, reopened, skipped>>

\* The caller's transaction fails, for a reason of its own, or because of the
\* refusal: its row and its number are gone, its fingerprint is not.
Rollback(c) ==
    /\ calls[c].at # "none"
    /\ marred' = marred \cup {Fingerprint(calls[c].event)}
    /\ calls' = [calls EXCEPT ![c] = NoCall]
    /\ UNCHANGED <<log, lastSeq, marks, lost, raced, reopened, skipped>>

\* Ten minutes later.
Expire(e) ==
    /\ Fingerprint(e) \in marks
    /\ marks' = marks \ {Fingerprint(e)}
    /\ reopened' = reopened \cup {Fingerprint(e)}
    /\ UNCHANGED <<log, lastSeq, calls, lost, raced, marred, skipped>>

PublishingNext ==
    \/ \E c \in Callers, e \in Events : Skip(c, e) \/ Ask(c, e)
    \/ \E c \in Callers :
          \/ Mark(c) \/ AskDatabase(c) \/ Insert(c) \/ Commit(c)
          \/ SwallowRefusal(c) \/ Rollback(c)
    \/ \E e \in Events : Expire(e)

PublishingSpec == PublishingInit /\ [][PublishingNext]_publishingVars

-----------------------------------------------------------------------------
\* Transactions that overlap in any way commit a vendor's events in the order
\* of their numbers, no number twice ("the previous version raced",
\* events/publisher.py:36-43).
NumbersFollowCommits ==
    \A i, j \in DOMAIN log : i < j => log[i].seq < log[j].seq

\* A vendor's numbers have a hole, at which EventDelivery's gap check stops for
\* good, only where two transactions published one event_id at once and one
\* swallowed the refusal.
HolesAreRaces ==
    \A n \in (1..lastSeq) \ Numbers : \E id \in raced : <<n, id>> \in lost

\* An event is dropped as a repetition only if its content has been published
\* or is about to be, or if the transaction that published it failed: a retry
\* of that one within ten minutes is dropped.
SkippedIsPublished ==
    \A e \in skipped :
        LET same == {f \in Events : TypeOf[f] = TypeOf[e] /\ ContentOf[f] = ContentOf[e]} IN
        \/ same \cap Logged # {}
        \/ \E c \in Callers : calls[c].at # "none" /\ calls[c].event \in same
        \/ Fingerprint(e) \in marred

\* A content is queued again only after ten minutes, or when two transactions
\* checked it at once, or Redis failed.
OncePerWindow ==
    \A i, j \in DOMAIN log :
        i # j /\ Fingerprint(log[i].event) = Fingerprint(log[j].event) =>
            Fingerprint(log[i].event) \in reopened

\* Content deduplication drops repetitions and nothing else.
RepeatsAreDropped == OncePerWindow /\ SkippedIsPublished
===============================================================================
