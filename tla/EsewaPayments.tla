---------------------------- MODULE EsewaPayments ----------------------------
(***************************************************************************)
(* A shopper's online payment through eSewa (api/payments.py): the attempt *)
(* that initiate_payment hands to the gateway, the shopper's redirect back *)
(* with the gateway's verdict, and the cron that asks for lost redirects.  *)
(* An attempt is named by the order and the second it was made in, because *)
(* the gateway refuses a name it has seen.                                 *)
(***************************************************************************)
EXTENDS Integers, FiniteSets

CONSTANTS
    Orders,
    MaxTime      \* bound: seconds

VARIABLES
    now,
    paid,        \* orders whose payment_status is Paid
    remembered,  \* the attempts that initiate_payment answers again with
    gateway,     \* the gateway's verdict on every attempt it accepted
    returned     \* attempts whose redirect has been handled

esewaVars == <<now, paid, remembered, gateway, returned>>

Bare == 0                               \* the order's name without a suffix
Names == [order : Orders, at : 0..MaxTime]
Attempts == DOMAIN gateway

EsewaTypeOK ==
    /\ now \in 1..MaxTime
    /\ paid \subseteq Orders
    /\ Attempts \subseteq Names
    /\ remembered \subseteq Attempts /\ returned \subseteq Attempts
    /\ \A a \in Attempts : gateway[a] \in {"OPEN", "COMPLETE", "CANCELED"}

Init ==
    /\ now = 1
    /\ paid = {}
    /\ remembered = {}
    /\ gateway = [a \in {} |-> "OPEN"]
    /\ returned = {}

Tick == now < MaxTime /\ now' = now + 1 /\ UNCHANGED <<paid, remembered, gateway, returned>>

\* initiate_payment: within five minutes the same answer again, else a new
\* attempt.
InitiatePayment(o) ==
    LET attempt == [order |-> o, at |-> now]
    IN /\ o \notin paid
       /\ \A a \in remembered : a.order # o
       /\ attempt \notin Attempts
       /\ gateway' = [a \in Attempts \cup {attempt} |-> IF a = attempt THEN "OPEN" ELSE gateway[a]]
       /\ remembered' = remembered \cup {attempt}
       /\ UNCHANGED <<now, paid, returned>>

Forget(a) == remembered' = remembered \ {a} /\ UNCHANGED <<now, paid, gateway, returned>>

\* The shopper pays, or cancels.
Decide(a, verdict) ==
    /\ gateway[a] = "OPEN"
    /\ gateway' = [gateway EXCEPT ![a] = verdict]
    /\ UNCHANGED <<now, paid, remembered, returned>>

\* The order that a transaction_uuid names: it is looked up as it comes.
NamedOrder(a) == {o \in Orders : a = [order |-> o, at |-> Bare]}

\* esewa_success with the attempt's signed verdict.
EsewaSuccess(a) ==
    /\ gateway[a] = "COMPLETE"
    /\ a \notin returned
    /\ returned' = returned \cup {a}
    /\ paid' = paid \cup NamedOrder(a)
    /\ UNCHANGED <<now, remembered, gateway>>

\* esewa_failure
EsewaFailure(a) ==
    /\ gateway[a] = "CANCELED"
    /\ a \notin returned
    /\ returned' = returned \cup {a}
    /\ UNCHANGED <<now, paid, remembered, gateway>>

\* poll_pending_esewa_orders -> verify_esewa_status asks about the order's name.
PollPendingEsewaOrders(o) ==
    /\ o \notin paid
    /\ \E a \in Attempts : a = [order |-> o, at |-> Bare] /\ gateway[a] = "COMPLETE"
    /\ paid' = paid \cup {o}
    /\ UNCHANGED <<now, remembered, gateway, returned>>

Next ==
    \/ Tick
    \/ \E o \in Orders : InitiatePayment(o) \/ PollPendingEsewaOrders(o)
    \/ \E a \in Attempts :
         \/ EsewaSuccess(a) \/ EsewaFailure(a)
         \/ Decide(a, "COMPLETE") \/ Decide(a, "CANCELED")
    \/ \E a \in remembered : Forget(a)

Spec == Init /\ [][Next]_esewaVars

-----------------------------------------------------------------------------
\* "esewa_success/esewa_failure strip it via rsplit to recover the real order
\* name": once a completed payment's redirect is handled, its order is paid.
CompletedIsPaid ==
    \A a \in returned : gateway[a] = "COMPLETE" => a.order \in paid
=============================================================================
