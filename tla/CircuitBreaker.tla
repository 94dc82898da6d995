--------------------------- MODULE CircuitBreaker ----------------------------
(***************************************************************************)
(* The circuit that stops deliveries to a vendor whose site is down        *)
(* (api/circuit_breaker.py).  Its state is one cache value, which every    *)
(* call reads, changes and writes back, so calls of two workers may        *)
(* overlap and the later write wins.  Time passes in cooldowns.            *)
(***************************************************************************)
EXTENDS Integers

CONSTANTS
    Workers,            \* delivery jobs of the vendor that run at once
    FailureThreshold,
    SuccessThreshold,
    Expiry,             \* how long the value is kept, in cooldowns
    MaxCount            \* bound: failures counted

VARIABLES
    circuit,  \* the cached value, or Missing
    kept,     \* cooldowns until the value expires
    report,   \* what each worker has read and will write back
    streak    \* failures since a success that overlapped nothing and did not come
              \* late, to an open circuit

breakerVars == <<circuit, kept, report, streak>>

\* No value, and what every call takes in its place.
Missing == [state |-> "missing", failures |-> 0, successes |-> 0, cooled |-> FALSE]
Fresh == [Missing EXCEPT !.state = "closed"]
Circuits ==
    [state : {"missing", "closed", "open", "half_open"}, failures : 0..MaxCount,
     successes : 0..SuccessThreshold, cooled : BOOLEAN]
Kinds == {"none", "failure", "success", "ask"}
NoReport == [kind |-> "none", read |-> Missing, alone |-> TRUE]

BreakerTypeOK ==
    /\ circuit \in Circuits
    /\ kept \in 0..Expiry
    /\ report \in [Workers -> [kind : Kinds, read : Circuits, alone : BOOLEAN]]
    /\ streak \in 0..MaxCount

Init ==
    /\ circuit = Missing
    /\ kept = 0
    /\ report = [w \in Workers |-> NoReport]
    /\ streak = 0

Cap(n) == IF n > MaxCount THEN MaxCount ELSE n

\* Fault: the circuit opens one failure early.
FailedEarly(c) ==
    IF c.state = "closed" /\ c.failures + 2 >= FailureThreshold
    THEN [c EXCEPT !.failures = Cap(@ + 1), !.state = "open", !.cooled = FALSE]
    ELSE [c EXCEPT !.failures = Cap(@ + 1)]

\* record_delivery_failure.  An open or half-open circuit only counts on.
Failed(c) ==
    IF c.state = "closed" /\ c.failures + 1 >= FailureThreshold
    THEN [c EXCEPT !.failures = Cap(@ + 1), !.state = "open", !.cooled = FALSE]
    ELSE [c EXCEPT !.failures = Cap(@ + 1)]

\* Fault: a success closes an open circuit at once.
SucceededAtOnce(c) ==
    IF c.state \in {"closed", "open"} THEN [c EXCEPT !.state = "closed", !.failures = 0]
    ELSE [c EXCEPT !.successes = SuccessThreshold, !.state = "closed"]

\* record_delivery_success.
Succeeded(c) ==
    CASE c.state = "half_open" /\ c.successes + 1 >= SuccessThreshold ->
            [c EXCEPT !.state = "closed", !.failures = 0, !.successes = 0]
      [] c.state = "half_open" /\ c.successes + 1 < SuccessThreshold ->
            [c EXCEPT !.successes = @ + 1]
      [] c.state = "closed" -> [c EXCEPT !.failures = 0]
      [] OTHER -> c

Result(kind, c) ==
    LET known == IF c.state = "missing" THEN Fresh ELSE c
    IN CASE kind = "failure" -> Failed(known)
         [] kind = "success" -> Succeeded(known)
         [] OTHER -> [known EXCEPT !.state = "half_open", !.successes = 0]

\* should_attempt_delivery's answer.
Allows(c) == c.state # "open" \/ c.cooled

Busy(w) == report[w].kind # "none"

\* A call reads the value.  An overlapping call is no longer alone.
Read(w, kind) ==
    /\ ~Busy(w)
    /\ kind = "ask" => circuit.state = "open" /\ Allows(circuit)
    /\ report' = [x \in Workers |->
            IF x = w
            THEN [kind |-> kind, read |-> circuit, alone |-> \A y \in Workers : ~Busy(y)]
            ELSE [report[x] EXCEPT !.alone = ~Busy(x)]]
    /\ UNCHANGED <<circuit, kept, streak>>

\* It writes its result back.
Write(w) ==
    /\ Busy(w)
    /\ circuit' = Result(report[w].kind, report[w].read)
    /\ kept' = Expiry
    /\ report' = [report EXCEPT ![w] = NoReport]
    /\ streak' = CASE report[w].kind = "failure" -> Cap(streak + 1)
                   [] report[w].kind = "success" /\ report[w].alone
                      /\ report[w].read.state # "open" -> 0
                   [] OTHER -> streak

\* A cooldown passes for every opened_at, the value read meanwhile too.
Cooled(c) == [c EXCEPT !.cooled = c.state = "open"]
CooldownPasses ==
    /\ circuit' = IF kept <= 1 THEN Missing ELSE Cooled(circuit)
    /\ kept' = IF kept = 0 THEN 0 ELSE kept - 1
    /\ report' = [w \in Workers |-> [report[w] EXCEPT !.read = Cooled(@)]]
    /\ UNCHANGED streak

\* reset_circuit, by an admin.
ResetCircuit ==
    /\ circuit' = Missing
    /\ kept' = 0
    /\ UNCHANGED <<report, streak>>

Next ==
    \/ \E w \in Workers :
         Write(w) \/ \E kind \in Kinds \ {"none"} : Read(w, kind)
    \/ CooldownPasses
    \/ ResetCircuit

Spec == Init /\ [][Next]_breakerVars

-----------------------------------------------------------------------------
\* An open circuit was opened by FAILURE_THRESHOLD failures: a success between
\* them that overlapped no other call started the count again, whatever the
\* overlapping calls wrote over each other.
OpenedByFailures == circuit.state = "open" => streak >= FailureThreshold

\* CLOSED, OPEN, HALF_OPEN, CLOSED: an open circuit is closed by the successes
\* of a half-open one, unless a call that read it earlier writes that back.
ClosedAfterTest ==
    circuit.state = "open" /\ circuit'.state = "closed"
        => \E w \in Workers : Busy(w) /\ ~report[w].alone

\* A step takes a circuit out of a state for the reason the code names only.
BreakerKeepsCycle == OpenedByFailures' /\ ClosedAfterTest
=============================================================================
