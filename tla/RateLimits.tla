----------------------------- MODULE RateLimits ------------------------------
(***************************************************************************)
(* A rate limit: a count in the cache, read, compared and written back by  *)
(* every request, whose time to live starts again with each write          *)
(* (api/utils.py rate_limit, api/auth_full.py _rate_limit and              *)
(* api/connection_pool.py should_throttle are the same code).              *)
(***************************************************************************)
EXTENDS Integers, FiniteSets

CONSTANTS
    Requests,   \* requests of one key that may be in the check at once
    Limit,
    NotRead,
    MaxRaces    \* bound: counts lost to overlapping checks

VARIABLES
    count,      \* the cached count, 0 when the key is missing
    read,       \* the count each request has read
    passed,     \* requests let through since the key was last missing
    races       \* counts lost since then

limitVars == <<count, read, passed, races>>

LimitsTypeOK ==
    /\ count \in 0..Limit
    /\ read \in [Requests -> 0..Limit \cup {NotRead}]
    /\ passed \in Nat
    /\ races \in 0..MaxRaces

Init ==
    /\ count = 0
    /\ read = [r \in Requests |-> NotRead]
    /\ passed = 0
    /\ races = 0

\* Fault: the last request within the limit is counted before it is compared.
AdmitsOneMore(n) == n <= Limit

Admits(n) == n < Limit

\* The check reads the count; over the limit the request is refused, or its
\* event left Queued, and nothing is written.
Check(r) ==
    /\ read[r] = NotRead
    /\ Admits(count)
    /\ read' = [read EXCEPT ![r] = count]
    /\ UNCHANGED <<count, passed, races>>

\* It lets the request through and writes the count it read plus one.  An
\* overlapping write since then is lost.
Pass(r) ==
    LET lost == count - read[r]
    IN /\ read[r] # NotRead
       /\ races + (IF lost > 0 THEN lost ELSE 0) <= MaxRaces
       /\ races' = races + (IF lost > 0 THEN lost ELSE 0)
       /\ count' = read[r] + 1
       /\ passed' = passed + 1
       /\ read' = [read EXCEPT ![r] = NotRead]

\* The key expires a window after the last request that was let through.
Expire ==
    /\ count > 0
    /\ count' = 0
    /\ passed' = 0
    /\ races' = 0
    /\ UNCHANGED read

Next == Expire \/ \E r \in Requests : Check(r) \/ Pass(r)

Spec == Init /\ [][Next]_limitVars

-----------------------------------------------------------------------------
\* Until a whole window has passed without a request, no more requests get
\* through than the limit and the counts that overlapping checks lost.
PassedWithinLimit == passed <= Limit + races
=============================================================================
