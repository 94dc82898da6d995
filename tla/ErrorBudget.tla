----------------------------- MODULE ErrorBudget ------------------------------
(***************************************************************************)
(* The error budget that defers the events of a vendor whose deliveries    *)
(* keep failing (api/partial_failure.py): a count per vendor and clock     *)
(* hour, and the time until which the vendor is deferred, both in Redis.   *)
(* A worker reads the count and writes it back, so counts can be lost.     *)
(* Time passes in parts of an hour.                                        *)
(***************************************************************************)
EXTENDS Integers

CONSTANTS
    Workers,     \* delivery jobs of the vendor that run at once
    MaxErrors,   \* MAX_ERRORS_PER_HOUR
    Hour,        \* the parts of an hour
    Defer,       \* DEFER_DURATION_MINUTES, in these parts
    MaxFailed    \* bound: failures in one hour

VARIABLES
    now,         \* the part of the hour it is
    errors,      \* the hour's count: sm_errors
    defer,       \* parts left until deferred_until, 0 when it has just passed
    report,      \* the failure each worker is recording
    failed       \* the deliveries that failed in this hour and in the last

budgetVars == <<now, errors, defer, report, failed>>

NotDeferred == -1
NoReport == [under |-> FALSE, read |-> 0, late |-> FALSE]

BudgetTypeOK ==
    /\ now \in 0..(Hour - 1)
    /\ errors \in 0..MaxFailed
    /\ defer \in {NotDeferred} \cup 0..Defer
    /\ report \in [Workers -> [under : BOOLEAN, read : 0..MaxFailed, late : BOOLEAN]]
    /\ failed \in [{"this", "last"} -> 0..MaxFailed]

Init ==
    /\ now = 0 /\ errors = 0 /\ defer = NotDeferred
    /\ report = [w \in Workers |-> NoReport]
    /\ failed = [h \in {"this", "last"} |-> 0]

\* record_vendor_error, after a failed delivery: the key is that of the hour it
\* starts in.
ReadErrors(w) ==
    /\ ~report[w].under
    /\ failed["this"] < MaxFailed
    /\ failed' = [failed EXCEPT !["this"] = @ + 1]
    /\ report' = [report EXCEPT ![w] = [under |-> TRUE, read |-> errors, late |-> FALSE]]
    /\ UNCHANGED <<now, errors, defer>>

\* The hour may have turned: then the count goes to a key that is not read.
WriteErrors(w) ==
    /\ report[w].under
    /\ errors' = IF report[w].late THEN errors ELSE report[w].read + 1
    /\ report' = [report EXCEPT ![w] = NoReport]
    /\ UNCHANGED <<now, defer, failed>>

Exhausted == errors >= MaxErrors

\* check_error_budget of a drain or a delivery.  A deferral that has passed lets
\* this one through; the next may be deferred again by the same errors.
CheckErrorBudget ==
    /\ \/ defer = 0 /\ defer' = NotDeferred
       \/ defer = NotDeferred /\ Exhausted /\ defer' = Defer
    /\ UNCHANGED <<now, errors, report, failed>>

\* force_process_vendor.
ForceProcessVendor ==
    /\ defer' = NotDeferred
    /\ errors' = 0
    /\ UNCHANGED <<now, report, failed>>

\* Fault: one count for all hours, for as long as its key is kept.
ErrorsKept == errors
\* Each hour has a key of its own.
ErrorsNextHour == 0

\* The entry's lifetime ends with the deferral, or a moment later.
Tick ==
    /\ defer' \in (CASE defer > 1 -> {defer - 1}
                     [] defer = 1 -> {0, NotDeferred}
                     [] OTHER -> {NotDeferred})
    /\ now' = (now + 1) % Hour
    /\ IF now' = 0
         THEN /\ errors' = ErrorsNextHour
              /\ failed' = [this |-> 0, last |-> failed["this"]]
              /\ report' = [w \in Workers |-> [report[w] EXCEPT !.late = report[w].under]]
         ELSE UNCHANGED <<errors, failed, report>>

Next ==
    \/ \E w \in Workers : ReadErrors(w) \/ WriteErrors(w)
    \/ CheckErrorBudget \/ ForceProcessVendor \/ Tick

Spec == Init /\ [][Next]_budgetVars

-----------------------------------------------------------------------------
\* A vendor's events are held back only while it has failed too often in this
\* clock hour, or did in the last one and half an hour has not passed since:
\* whatever is lost, forced or written late, one bad hour costs no more.
DeferredForFailures ==
    defer > 0 => \/ failed["this"] >= MaxErrors
                 \/ failed["last"] >= MaxErrors /\ now < Defer
===============================================================================
