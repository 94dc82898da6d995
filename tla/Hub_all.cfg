SPECIFICATION Spec
CONSTANTS
    \* Publishing: an event published twice under one event_id, once with another
    \* content, and that content's repetition under an id of its own.
    Callers = {c1, c2}
    Events = {1, 2, 3}
    IdOf <- MCIdOf
    TypeOf <- MCTypeOf
    ContentOf <- MCContentOf
    MaxSeq = 2
    \* Payouts
    Fulfilments = {f1, f2}
    PayoutIds = {p1, p2}
    Requests = {r1, r2}
    NoPayout = NoPayout
    MaxRaces = 2
    \* Ledger
    Deals <- MCDeals
    Charts <- MCCharts
    Commission = 100
    MaxBatches = 5
    \* ErpSync
    Orders = {o1, o2}
    MaxMishaps = 1
    \* ChartOfAccounts
    Processes = {worker}
    Keys <- MCKeys
    Keywords <- MCKeywords
    Matching <- MCMatching
    SetUp <- MCSetUp
    OwnAccounts <- MCOwnAccounts
    NoAccount = NoAccount
    \* CircuitBreaker
    Workers = {w1, w2}
    FailureThreshold = 2
    SuccessThreshold = 2
    Expiry = 2
    MaxCount = 3
    \* ErrorBudget
    MaxErrors = 2
    Hour = 4
    Defer = 2
    MaxFailed = 3
    \* RateLimits
    Limit = 2
    NotRead = NotRead
    MaxLost = 1
    \* AuthFailures
    MaxFailures = 2
    BlockWindows = 2
    MaxTries = 4
    \* SecretRotation
    Admins = {admin}
    MaxSecret = 3
    \* PriceUpdates
    Vendors = {1, 2}
    PriceOf <- MCPriceOf
    MaxBusy = 2
    \* OneTimeCodes
    NoRecord = NoRecord
    MaxCodes = 3
    \* Devices
    Users = {u1, u2}
    Tokens = {phone}
    Nobody = Nobody
    MaxAsking = 2
    MaxRows = 2
    Lifetime = 2
INVARIANTS
    TypeOK
    NumbersFollowCommits
    HolesAreRaces
    RepeatsAreDropped
    
    BooksAgree
    
    LedgersAreSeparate
    LimitsHold
    RotationKeepsPushes
    
PROPERTIES
    BreakerCycle
    
    
CHECK_DEADLOCK FALSE
