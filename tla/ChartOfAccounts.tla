--------------------------- MODULE ChartOfAccounts ---------------------------
(***************************************************************************)
(* The accounts that postings go to (api/accounting.py, setup_accounts.py):*)
(* each process looks a key up in the chart once, by its name or by        *)
(* keywords, and remembers what it found for as long as it lives, while an *)
(* administrator sets the chart up, account by account, and removes        *)
(* accounts.                                                               *)
(***************************************************************************)
EXTENDS Integers, Sequences, FiniteSets, FiniteSetsExt

CONSTANTS
    Processes,
    Keys,        \* keys of PLATFORM_ACCOUNTS
    Keywords,    \* the keywords of each key, in the order they are tried
    Matching,    \* the account names that hold a keyword
    SetUp,       \* the accounts setup_platform_accounts creates, in order
    OwnAccounts, \* accounts the company may have had before
    NoAccount

VARIABLES
    chart,   \* leaf accounts of the company
    step,    \* accounts the running setup has passed, or -1
    ready,   \* a setup has run to its end and no account was removed since
    cache,   \* _account_cache of each process
    fresh    \* processes started since the chart is ready

chartVars == <<chart, step, ready, cache, fresh>>

Accounts == {SetUp[i] : i \in DOMAIN SetUp} \cup OwnAccounts

ChartTypeOK ==
    /\ chart \subseteq Accounts
    /\ step \in -1..Len(SetUp)
    /\ ready \in BOOLEAN
    /\ cache \in [Processes -> [Keys -> Accounts \cup {NoAccount}]]
    /\ fresh \subseteq Processes

NothingCached == [k \in Keys |-> NoAccount]

Init ==
    /\ chart \in SUBSET OwnAccounts
    /\ step = -1
    /\ ready = FALSE
    /\ cache = [p \in Processes |-> NothingCached]
    /\ fresh = {}

\* Fault: the keywords are tried from the last.
HitsFromLast(key) == {i \in DOMAIN Keywords[key] :
    /\ chart \cap Matching[Keywords[key][i]] # {}
    /\ \A j \in (i + 1)..Len(Keywords[key]) : chart \cap Matching[Keywords[key][j]] = {}}

\* The first keyword that some account's name holds.  The exact names are of
\* accounts without the company's suffix, which the chart does not have.
Hits(key) == {i \in DOMAIN Keywords[key] :
    /\ chart \cap Matching[Keywords[key][i]] # {}
    /\ \A j \in 1..(i - 1) : chart \cap Matching[Keywords[key][j]] = {}}

\* _get_account: what was not found is looked for again the next time.
GetAccount(p, key) ==
    /\ cache[p][key] = NoAccount
    /\ \E i \in Hits(key) : \E a \in chart \cap Matching[Keywords[key][i]] :
         cache' = [cache EXCEPT ![p][key] = a]
    /\ UNCHANGED <<chart, step, ready, fresh>>

StartSetup == step = -1 /\ step' = 0 /\ UNCHANGED <<chart, ready, cache, fresh>>

\* _create_account: what exists is kept; an insertion that fails is printed and
\* passed over.
CreateAccount(works) ==
    /\ step \in 0..(Len(SetUp) - 1)
    /\ step' = step + 1
    /\ chart' = IF works THEN chart \cup {SetUp[step + 1]} ELSE chart
    /\ UNCHANGED <<ready, cache, fresh>>

\* verify_accounts_setup finds every account.
FinishSetup ==
    /\ step = Len(SetUp)
    /\ step' = -1
    /\ ready' = (\A i \in DOMAIN SetUp : SetUp[i] \in chart)
    /\ fresh' = IF ready THEN fresh ELSE {}
    /\ UNCHANGED <<chart, cache>>

RemoveAccount(a) ==
    /\ a \in chart
    /\ chart' = chart \ {a}
    /\ ready' = FALSE
    /\ fresh' = {}
    /\ UNCHANGED <<step, cache>>

Restart(p) ==
    /\ cache' = [cache EXCEPT ![p] = NothingCached]
    /\ fresh' = IF ready THEN fresh \cup {p} ELSE fresh
    /\ UNCHANGED <<chart, step, ready>>

Next ==
    \/ \E p \in Processes : Restart(p) \/ \E k \in Keys : GetAccount(p, k)
    \/ StartSetup \/ FinishSetup
    \/ \E works \in BOOLEAN : CreateAccount(works)
    \/ \E a \in Accounts : RemoveAccount(a)

Spec == Init /\ [][Next]_chartVars

-----------------------------------------------------------------------------
\* "Each entity's PAN/VAT is tracked separately": a process started on a complete
\* chart never posts two keys to one account.  (One started before may go on
\* posting both to the account it fell back to.)
LedgersAreSeparate ==
    \A p \in fresh, k, l \in Keys :
        k # l /\ cache[p][k] # NoAccount => cache[p][k] # cache[p][l]
=============================================================================
