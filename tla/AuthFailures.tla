---------------------------- MODULE AuthFailures -----------------------------
(***************************************************************************)
(* The guard against guessing a vendor's webhook secret                    *)
(* (api/rate_limiter.py), as verify_hub_secret calls it: check the         *)
(* address, verify the signature, then record a failure or clear.  Time    *)
(* passes in windows.                                                      *)
(***************************************************************************)
EXTENDS Integers, FiniteSets

CONSTANTS
    Requests,       \* pushes from one address that may be verified at once
    MaxFailures,
    BlockWindows,   \* BLOCK_DURATION, in windows
    NotRead,
    MaxRaces,       \* bound: failures lost to overlapping requests
    MaxCount        \* bound: failures counted

VARIABLES
    count,    \* sm_auth_count, 0 when missing
    blocked,  \* windows until sm_auth_block expires
    pushes,   \* where each push is, and the count it has read
    tried,    \* signatures refused since the count last started
    races     \* failures lost since then

authVars == <<count, blocked, pushes, tried, races>>

Idle == [at |-> "idle", read |-> NotRead]
Pushes ==
    [at : {"idle", "checked", "failing"}, read : 0..MaxCount \cup {NotRead}]

AuthTypeOK ==
    /\ count \in 0..MaxCount
    /\ blocked \in 0..BlockWindows
    /\ pushes \in [Requests -> Pushes]
    /\ tried \in Nat
    /\ races \in 0..MaxRaces

Init ==
    /\ count = 0
    /\ blocked = 0
    /\ pushes = [r \in Requests |-> Idle]
    /\ tried = 0
    /\ races = 0

\* Fault: one more failure is allowed than the threshold.
ExceededLate == count > MaxFailures

Exceeded == count >= MaxFailures

\* check_rate_limit lets the push be verified ...
CheckPasses(r) ==
    /\ pushes[r].at = "idle"
    /\ blocked = 0
    /\ ~Exceeded
    /\ pushes' = [pushes EXCEPT ![r].at = "checked"]
    /\ UNCHANGED <<count, blocked, tried, races>>

\* ... or starts the block and the count anew ...
CheckBlocks(r) ==
    /\ pushes[r].at = "idle"
    /\ blocked = 0
    /\ Exceeded
    /\ blocked' = BlockWindows
    /\ count' = 0
    /\ tried' = 0
    /\ races' = 0
    /\ UNCHANGED pushes

\* clear_failures: the count and the block.
ClearedCount == 0

\* The signature is valid under the current or the previous secret.
VerifiedPush(r) ==
    /\ pushes[r].at = "checked"
    /\ count' = ClearedCount
    /\ blocked' = 0
    /\ tried' = 0
    /\ races' = 0
    /\ pushes' = [pushes EXCEPT ![r] = Idle]

\* It is not: record_failure reads the count ...
RefusedPush(r) ==
    /\ pushes[r].at = "checked"
    /\ pushes' = [pushes EXCEPT ![r] = [at |-> "failing", read |-> count]]
    /\ UNCHANGED <<count, blocked, tried, races>>

\* ... and writes it back plus one, which may lose another push's failure.
RecordFailure(r) ==
    LET lost == count - pushes[r].read
        more == IF lost > 0 THEN lost ELSE 0
    IN /\ pushes[r].at = "failing"
       /\ races + more <= MaxRaces /\ pushes[r].read < MaxCount
       /\ races' = races + more
       /\ count' = pushes[r].read + 1
       /\ tried' = tried + 1
       /\ pushes' = [pushes EXCEPT ![r] = Idle]
       /\ UNCHANGED blocked

\* A window passes without a failure: the count expires, the block runs on.
WindowPasses ==
    /\ count' = 0
    /\ tried' = 0
    /\ races' = 0
    /\ blocked' = IF blocked = 0 THEN 0 ELSE blocked - 1
    /\ UNCHANGED pushes

Next ==
    \/ WindowPasses
    \/ \E r \in Requests :
         \/ CheckPasses(r) \/ CheckBlocks(r) \/ VerifiedPush(r)
         \/ RefusedPush(r) \/ RecordFailure(r)

Spec == Init /\ [][Next]_authVars

-----------------------------------------------------------------------------
\* An address gets MAX_FAILURES tries in a run of failures, one more for each
\* push that was being verified meanwhile, and one for each failure that
\* overlapping pushes lost.
TriesWithinThreshold == tried <= MaxFailures + races + Cardinality(Requests) - 1
=============================================================================
