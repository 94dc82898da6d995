-------------------------------- MODULE Hub ---------------------------------
(***************************************************************************)
(* What the hub keeps with its vendors, its books and its accounts: the    *)
(* modules about money (Payouts, Ledger, ErpSync, ChartOfAccounts) and     *)
(* about the channels to and from the hub (CircuitBreaker, ErrorBudget,    *)
(* SecretRotation, PriceUpdates, Publishing, RateLimits, AuthFailures,     *)
(* OneTimeCodes, Devices), with the properties of each.                    *)
(* They share no record, so a behaviour picks one of them and the others   *)
(* stay in their first state.  MCHub gives the constants small values;     *)
(* HubProofs and LedgerProofs prove the properties for all values.         *)
(***************************************************************************)
EXTENDS Integers, Sequences, FiniteSets, Publishing, Payouts

\* Payouts' Requests are those of every component here that several requests
\* enter at once.
CONSTANTS
    Deals, Charts, Commission, MaxBatches,                   \* Ledger
    Orders, MaxMishaps,                                      \* ErpSync
    Processes, Keys, Keywords, Matching, SetUp, OwnAccounts, \* ChartOfAccounts
    NoAccount,
    Workers, FailureThreshold, SuccessThreshold, Expiry,     \* CircuitBreaker
    MaxCount,
    MaxErrors, Hour, Defer, MaxFailed,                       \* ErrorBudget
    Limit, NotRead, MaxLost,                                 \* RateLimits
    MaxFailures, BlockWindows, MaxTries,                     \* AuthFailures
    Admins, MaxSecret,                                       \* SecretRotation
    Vendors, PriceOf, MaxBusy,                               \* PriceUpdates
    NoRecord, MaxCodes,                                      \* OneTimeCodes
    Users, Tokens, Nobody, MaxAsking, MaxRows, Lifetime      \* Devices

VARIABLES
    part,                                                    \* the one that moves
    deal, accounts, payment, gl, posting,                    \* Ledger
    due, row, remote, run, mishaps,                          \* ErpSync
    chart, step, ready, cache, fresh,                        \* ChartOfAccounts
    circuit, kept, report, streak,                           \* CircuitBreaker
    now, errors, defer, recording, failed,                   \* ErrorBudget
    hits, reading, passed, lostHits,                         \* RateLimits
    failures, blocked, pushing, tried, lostFailures,         \* AuthFailures
    hub, vendor, rotation, started, crossed, signed,         \* SecretRotation
    rows, jobs, listings, display, overlapped,               \* PriceUpdates
    user, records, sent, codes, verifying, used,             \* OneTimeCodes
    devices, login, asking, doubled                          \* Devices

-----------------------------------------------------------------------------
(* What the proofs need of the constants.                                  *)
ASSUME RequestsAssumption == IsFiniteSet(Requests)
\* A claim names a payout.
ASSUME PayoutsAssumption ==
    IsFiniteSet(PayoutIds) /\ NoPayout \notin PayoutIds /\ MaxRaces \in Nat
\* Something is published.
ASSUME PublishingAssumption == Events # {} /\ MaxSeq \in Nat
\* The discounts stay below what they are taken off, the commission below the sales.
ASSUME LedgerAssumption ==
    /\ Deals # {} /\ Charts # {} /\ Commission \in Nat
    /\ \A d \in Deals :
          /\ d.net \in Nat /\ d.tax \in Nat /\ d.delivery \in Nat /\ d.sold \in Nat
          /\ d.coupon \in Nat /\ d.loyalty \in Nat /\ d.other \in Nat
          /\ d.coupon + d.loyalty + d.other <= d.net + d.tax /\ Commission <= d.sold
ASSUME LimitsAssumption == Limit \in Nat /\ MaxLost \in Nat /\ NotRead \notin Nat
ASSUME AuthAssumption == MaxFailures \in Nat \ {0} /\ BlockWindows \in Nat /\ MaxTries \in Nat
\* A deferral ends before the next hour does.
ASSUME BudgetAssumption ==
    MaxErrors \in Nat /\ Hour \in Nat \ {0} /\ Defer \in 1..Hour /\ MaxFailed \in Nat
ASSUME ErpAssumption == MaxMishaps \in Nat
\* An account of each key is created, which its first keyword finds; no account is
\* found by the first keywords of two keys.
ASSUME ChartAssumption ==
    LET created == {SetUp[i] : i \in DOMAIN SetUp}
    IN /\ SetUp \in Seq(created) /\ NoAccount \notin created \cup OwnAccounts
       /\ \A k \in Keys :
            /\ DOMAIN Keywords[k] \subseteq Nat \ {0} /\ 1 \in DOMAIN Keywords[k]
            /\ created \cap Matching[Keywords[k][1]] # {}
       /\ \A k, l \in Keys :
            k # l => Matching[Keywords[k][1]] \cap Matching[Keywords[l][1]] = {}
ASSUME DevicesAssumption == Lifetime \in Nat
\* A price that is not positive is refused; the product is listed by someone.
ASSUME PricesAssumption ==
    /\ Vendors # {}
    /\ \A v \in Vendors :
          /\ 0 \in DOMAIN PriceOf[v] /\ DOMAIN PriceOf[v] \subseteq Nat
          /\ \A n \in DOMAIN PriceOf[v] : PriceOf[v][n] \in Nat
\* The failures counted reach the threshold.
ASSUME BreakerAssumption ==
    /\ FailureThreshold \in 1..MaxCount /\ MaxCount \in Nat
    /\ SuccessThreshold \in Nat \ {0} /\ Expiry \in Nat
ASSUME RotationAssumption == MaxSecret \in Nat
ASSUME CodesAssumption == MaxCodes \in Nat

-----------------------------------------------------------------------------
Le == INSTANCE Ledger WITH chart <- accounts, request <- posting
Er == INSTANCE ErpSync
Ch == INSTANCE ChartOfAccounts
Ci == INSTANCE CircuitBreaker
Eb == INSTANCE ErrorBudget WITH report <- recording
Ra == INSTANCE RateLimits WITH
    MaxRaces <- MaxLost, count <- hits, read <- reading, races <- lostHits
Au == INSTANCE AuthFailures WITH
    MaxRaces <- MaxLost, MaxCount <- MaxTries,
    count <- failures, pushes <- pushing, races <- lostFailures
Se == INSTANCE SecretRotation WITH pushes <- signed
Pr == INSTANCE PriceUpdates
On == INSTANCE OneTimeCodes
De == INSTANCE Devices

-----------------------------------------------------------------------------
FirstDeal == CHOOSE d \in Deals : TRUE
FirstChart == CHOOSE c \in Charts : TRUE

Init ==
    /\ part \in {"payouts", "ledger", "erp", "chart", "breaker", "limits", "auth", "rotation",
                 "prices", "codes", "budget", "publishing", "devices"}
    /\ Le!Init
    /\ part # "ledger" => deal = FirstDeal /\ accounts = FirstChart
    /\ Ch!Init
    /\ part # "chart" => chart = {}
    /\ PayoutsInit /\ Er!Init /\ Ci!Init /\ Ra!Init /\ Au!Init /\ Se!Init /\ Pr!Init /\ On!Init
    /\ Eb!Init /\ PublishingInit /\ De!Init

StillPayouts == UNCHANGED payoutVars
StillLedger == UNCHANGED <<deal, accounts, payment, gl, posting>>
StillErp == UNCHANGED <<due, row, remote, run, mishaps>>
StillChart == UNCHANGED <<chart, step, ready, cache, fresh>>
StillMoney == StillPayouts /\ StillLedger /\ StillErp /\ StillChart

StillBreaker == UNCHANGED <<circuit, kept, report, streak>>
StillLimits == UNCHANGED <<hits, reading, passed, lostHits>>
StillAuth == UNCHANGED <<failures, blocked, pushing, tried, lostFailures>>
StillRotation == UNCHANGED <<hub, vendor, rotation, started, crossed, signed>>
StillPrices == UNCHANGED <<rows, jobs, listings, display, overlapped>>
StillCodes == UNCHANGED <<user, records, sent, codes, verifying, used>>
StillBudget == UNCHANGED <<now, errors, defer, recording, failed>>
StillPublishing == UNCHANGED publishingVars
StillDevices == UNCHANGED <<devices, login, asking, doubled>>
StillOutward == StillBreaker /\ StillBudget /\ StillPublishing /\ StillDevices
StillInward == StillLimits /\ StillAuth /\ StillRotation /\ StillPrices /\ StillCodes

Money ==
    \/ part = "payouts" /\ PayoutsNext /\ StillLedger /\ StillErp /\ StillChart
    \/ part = "ledger" /\ Le!Next /\ StillPayouts /\ StillErp /\ StillChart
    \/ part = "erp" /\ Er!Next /\ StillPayouts /\ StillLedger /\ StillChart
    \/ part = "chart" /\ Ch!Next /\ StillPayouts /\ StillLedger /\ StillErp

Outward ==
    \/ part = "breaker" /\ Ci!Next /\ StillBudget /\ StillPublishing /\ StillDevices
    \/ part = "budget" /\ Eb!Next /\ StillBreaker /\ StillPublishing /\ StillDevices
    \/ part = "publishing" /\ PublishingNext /\ StillBreaker /\ StillBudget /\ StillDevices
    \/ part = "devices" /\ De!Next /\ StillBreaker /\ StillBudget /\ StillPublishing

Inward ==
    \/ part = "rotation" /\ Se!Next /\ StillPrices /\ StillLimits /\ StillAuth /\ StillCodes
    \/ part = "prices" /\ Pr!Next /\ StillRotation /\ StillLimits /\ StillAuth /\ StillCodes
    \/ part = "limits" /\ Ra!Next /\ StillRotation /\ StillPrices /\ StillAuth /\ StillCodes
    \/ part = "auth" /\ Au!Next /\ StillRotation /\ StillPrices /\ StillLimits /\ StillCodes
    \/ part = "codes" /\ On!Next /\ StillRotation /\ StillPrices /\ StillLimits /\ StillAuth

Next ==
    /\ UNCHANGED part
    /\ \/ Money /\ StillOutward /\ StillInward
       \/ Outward /\ StillMoney /\ StillInward
       \/ Inward /\ StillMoney /\ StillOutward

vars == <<part, payable, link, payouts, request, races, deal, accounts, payment, gl,
          posting, due, row, remote, run, mishaps, chart, step, ready, cache, fresh, circuit,
          kept, report, streak, hits, reading, passed, lostHits, failures, blocked, pushing,
          tried, lostFailures, hub, vendor, rotation, started, crossed, signed, rows, jobs,
          listings, display, overlapped, user, records, sent, codes, verifying, used,
          now, errors, defer, recording, failed, log, lastSeq, marks, calls, lost, raced,
          marred, reopened, skipped, devices, login, asking, doubled>>

Spec == Init /\ [][Next]_vars

-----------------------------------------------------------------------------
\* Every component's state has its type.
TypeOK ==
    /\ PayoutsTypeOK /\ Le!LedgerTypeOK /\ Er!ErpSyncTypeOK /\ Ch!ChartTypeOK
    /\ Ci!BreakerTypeOK /\ Ra!LimitsTypeOK /\ Au!AuthTypeOK /\ Se!RotationTypeOK
    /\ Pr!PricesTypeOK /\ On!CodesTypeOK /\ Eb!BudgetTypeOK /\ PublishingTypeOK
    /\ De!DevicesTypeOK

\* Payouts' OwedOnce and Publishing's NumbersFollowCommits, HolesAreRaces and
\* RepeatsAreDropped are checked as they stand there.

\* Ledger: bookings are made once per overlapping request and balance.
BooksAgree == part = "ledger" => Le!BooksAgree
\* ErpSync: a synced order is on the other site, once but for lost answers.
ExportIsComplete == part = "erp" => Er!ExportIsComplete
\* ChartOfAccounts: a process started on a complete chart mixes no accounts.
LedgersAreSeparate == part = "chart" => Ch!LedgersAreSeparate
\* CircuitBreaker: failures open a circuit, successes after the cooldown close it.
BreakerCycle == [][Ci!BreakerKeepsCycle]_vars
\* RateLimits, AuthFailures, ErrorBudget: what is counted is what is limited.
LimitsHold ==
    /\ part = "limits" => Ra!PassedWithinLimit
    /\ part = "auth" => Au!TriesWithinThreshold
    /\ part = "budget" => Eb!DeferredForFailures
\* SecretRotation: signed pushes are accepted through a rotation.
RotationKeepsPushes == part = "rotation" => Se!RotationKeepsPushes
\* PriceUpdates: events end in the listings and the cheapest one is shown.
PricesFollowEvents == [][Pr!PricesFollow]_vars
\* OneTimeCodes: the last code sent works, and once.
CodesWorkOnce == part = "codes" => On!CodesWorkOnce
\* Devices: a phone shows one customer's notifications, none after a logout.
PhonesAreOnesOwn == [][De!PhonesStayOnesOwn]_vars
=============================================================================
