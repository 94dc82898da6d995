------------------------------ MODULE HubProofs ------------------------------
(***************************************************************************)
(* Theorems about Hub, for all values of its constants.                    *)
(***************************************************************************)
EXTENDS LedgerProofs

-----------------------------------------------------------------------------
(* RateLimits.                                                             *)

LEMMA LimitsMove == [Next]_vars => [Ra!Next]_<<hits, reading, passed, lostHits>>
BY DEF Next, vars, Money, Outward, Inward, StillInward, StillLimits

\* The requests let through are counted or lost, and a request that has read the
\* count read it below the limit.
LimitsInv ==
    /\ hits \in 0..Limit
    /\ reading \in [Requests -> 0..(Limit - 1) \cup {NotRead}]
    /\ passed \in Nat
    /\ lostHits \in 0..MaxLost
    /\ passed <= hits + lostHits

LEMMA LimitsStart == Init => LimitsInv
BY LimitsAssumption DEF Init, Ra!Init, LimitsInv

LEMMA LimitsStep == LimitsInv /\ [Next]_vars => LimitsInv'
<1> SUFFICES ASSUME LimitsInv, [Ra!Next]_<<hits, reading, passed, lostHits>>
             PROVE  LimitsInv'
  BY LimitsMove
<1> USE LimitsAssumption DEF LimitsInv
<1>1. CASE Ra!Expire
  BY <1>1 DEF Ra!Expire
<1>2. ASSUME NEW r \in Requests, Ra!Check(r) PROVE LimitsInv'
  BY <1>2 DEF Ra!Check, Ra!Admits
<1>3. ASSUME NEW r \in Requests, Ra!Pass(r) PROVE LimitsInv'
  BY <1>3 DEF Ra!Pass
<1>4. CASE UNCHANGED <<hits, reading, passed, lostHits>>
  BY <1>4
<1>5. QED
  BY <1>1, <1>2, <1>3, <1>4 DEF Ra!Next
-----------------------------------------------------------------------------
(* AuthFailures.                                                           *)

LEMMA AuthMoves == [Next]_vars => [Au!Next]_<<failures, blocked, pushing, tried, lostFailures>>
BY DEF Next, vars, Money, Outward, Inward, StillInward, StillAuth

\* The pushes that passed the check and are not recorded yet.
BeingVerified == {r \in Requests : pushing[r].at # "idle"}

\* The failures are counted or lost, and each push under way may add one to those
\* that the last check let pass.
AuthInv ==
    /\ Au!AuthTypeOK
    /\ \A r \in Requests : pushing[r].at = "failing" => pushing[r].read \in 0..MaxTries
    /\ tried <= failures + lostFailures
    /\ tried + Cardinality(BeingVerified) <= MaxFailures + lostFailures + Cardinality(Requests) - 1

LEMMA VerifiedAreFew ==
    /\ IsFiniteSet(BeingVerified) /\ Cardinality(BeingVerified) \in Nat
    /\ Cardinality(Requests) \in Nat /\ Cardinality(BeingVerified) <= Cardinality(Requests)
BY RequestsAssumption, FS_Subset, FS_CardinalityType DEF BeingVerified

LEMMA AuthStart == Init => AuthInv
<1> SUFFICES ASSUME Init PROVE AuthInv
  OBVIOUS
<1>1. Au!AuthTypeOK /\ tried = 0 /\ failures = 0 /\ lostFailures = 0 /\ BeingVerified = {}
  BY AuthAssumption, LimitsAssumption
     DEF Init, Au!Init, Au!AuthTypeOK, Au!Idle, Au!Pushes, BeingVerified
<1>2. \A r \in Requests : pushing[r].at = "idle"
  BY DEF Init, Au!Init, Au!Idle
<1>3. QED
  BY <1>1, <1>2, VerifiedAreFew, FS_EmptySet, AuthAssumption DEF AuthInv

LEMMA AuthStep == AuthInv /\ [Next]_vars => AuthInv'
<1> SUFFICES ASSUME AuthInv, [Au!Next]_<<failures, blocked, pushing, tried, lostFailures>>
             PROVE  AuthInv'
  BY AuthMoves
<1> USE LimitsAssumption, AuthAssumption DEF AuthInv, Au!AuthTypeOK, Au!Pushes
<1> DEFINE K == Cardinality(BeingVerified)
<1>0. /\ K \in Nat /\ K' \in Nat /\ Cardinality(Requests) \in Nat
      /\ K <= Cardinality(Requests) /\ K' <= Cardinality(Requests)
      /\ IsFiniteSet(BeingVerified)
  <2>1. BeingVerified' \subseteq Requests
    BY DEF BeingVerified
  <2>2. QED
    BY <2>1, VerifiedAreFew, RequestsAssumption, FS_Subset, FS_CardinalityType
<1>1. ASSUME NEW r \in Requests, Au!CheckPasses(r) PROVE AuthInv'
  BY <1>1, <1>0 DEF Au!CheckPasses, Au!Exceeded
<1>2. ASSUME NEW r \in Requests, Au!CheckBlocks(r) PROVE AuthInv'
  BY <1>2, <1>0 DEF Au!CheckBlocks
<1>3. ASSUME NEW r \in Requests, Au!VerifiedPush(r) PROVE AuthInv'
  BY <1>3, <1>0 DEF Au!VerifiedPush, Au!Idle, Au!ClearedCount
<1>4. ASSUME NEW r \in Requests, Au!RefusedPush(r) PROVE AuthInv'
  <2>1. BeingVerified' = BeingVerified
    BY <1>4 DEF Au!RefusedPush, BeingVerified
  <2>2. QED
    BY <1>4, <1>0, <2>1 DEF Au!RefusedPush
<1>5. ASSUME NEW r \in Requests, Au!RecordFailure(r) PROVE AuthInv'
  <2>1. BeingVerified' = BeingVerified \ {r} /\ r \in BeingVerified
    BY <1>5 DEF Au!RecordFailure, Au!Idle, BeingVerified
  <2>2. K' = K - 1
    BY <2>1, <1>0, FS_RemoveElement
  <2>3. QED
    BY <1>5, <1>0, <2>2 DEF Au!RecordFailure, Au!Idle
<1>6. CASE Au!WindowPasses
  BY <1>6, <1>0 DEF Au!WindowPasses
<1>7. CASE UNCHANGED <<failures, blocked, pushing, tried, lostFailures>>
  BY <1>7 DEF BeingVerified
<1>8. QED
  BY <1>1, <1>2, <1>3, <1>4, <1>5, <1>6, <1>7 DEF Au!Next

-----------------------------------------------------------------------------
(* ErrorBudget.                                                            *)

LEMMA BudgetMoves == [Next]_vars => [Eb!Next]_<<now, errors, defer, recording, failed>>
BY DEF Next, vars, Money, Outward, Inward, StillOutward, StillBudget

\* The hour's count is made of failures of the hour, and a deferral that began in
\* the last hour ends a deferral's length into this one.
BudgetInv ==
    /\ Eb!BudgetTypeOK
    /\ errors <= failed["this"]
    /\ \A w \in Workers :
         recording[w].under /\ ~recording[w].late => recording[w].read < failed["this"]
    /\ defer > 0 => \/ failed["this"] >= MaxErrors
                    \/ failed["last"] >= MaxErrors /\ now + defer <= Defer

LEMMA BudgetStart == Init => BudgetInv
BY BudgetAssumption
   DEF Init, Eb!Init, BudgetInv, Eb!BudgetTypeOK, Eb!NotDeferred, Eb!NoReport

LEMMA BudgetStep == BudgetInv /\ [Next]_vars => BudgetInv'
<1> SUFFICES ASSUME BudgetInv, [Eb!Next]_<<now, errors, defer, recording, failed>>
             PROVE  BudgetInv'
  BY BudgetMoves
<1> USE BudgetAssumption DEF BudgetInv, Eb!BudgetTypeOK, Eb!NotDeferred
<1>1. ASSUME NEW w \in Workers, Eb!ReadErrors(w) PROVE BudgetInv'
  BY <1>1 DEF Eb!ReadErrors
<1>2. ASSUME NEW w \in Workers, Eb!WriteErrors(w) PROVE BudgetInv'
  BY <1>2 DEF Eb!WriteErrors, Eb!NoReport
<1>3. CASE Eb!CheckErrorBudget
  BY <1>3 DEF Eb!CheckErrorBudget, Eb!Exhausted
<1>4. CASE Eb!ForceProcessVendor
  BY <1>4 DEF Eb!ForceProcessVendor
<1>5. CASE Eb!Tick
  <2>1. \/ now < Hour - 1 /\ now' = now + 1
        \/ now = Hour - 1 /\ now' = 0
    <3>1. now' = (now + 1) % Hour
      BY <1>5 DEF Eb!Tick
    <3>2. now \in Nat /\ now < Hour /\ Hour \in Nat /\ Hour > 0
      OBVIOUS
    <3>3. CASE now = Hour - 1
      <4>1. now + 1 = Hour
        BY <3>2, <3>3
      <4>2. Hour % Hour = 0
        BY ONLY <3>2
      <4>3. QED
        BY <3>1, <3>3, <4>1, <4>2
    <3>4. CASE now < Hour - 1
      <4>1. (now + 1) % Hour = now + 1
        BY ONLY <3>2, <3>4
      <4>2. QED
        BY <3>1, <3>4, <4>1
    <3>5. QED
      BY <3>2, <3>3, <3>4
  <2>2. \/ defer > 0 /\ defer' \in {defer - 1, -1}
        \/ defer <= 0 /\ defer' = -1
    BY <1>5 DEF Eb!Tick
  <2>3. CASE now' = 0
    <3>1. /\ errors' = 0 /\ failed' = [this |-> 0, last |-> failed["this"]]
          /\ recording' = [w \in Workers |-> [recording[w] EXCEPT !.late = recording[w].under]]
      BY <1>5, <2>3 DEF Eb!Tick, Eb!ErrorsNextHour
    <3>2. Eb!BudgetTypeOK'
      BY <3>1, <2>1, <2>2
    <3>3. \A w \in Workers : ~(recording[w].under /\ ~recording[w].late)'
      BY <3>1
    <3>4. defer' > 0 => failed'["last"] >= MaxErrors /\ now' + defer' <= Defer
      BY <3>1, <2>1, <2>2, <2>3
    <3>5. QED
      BY <3>1, <3>2, <3>3, <3>4
  <2>4. CASE now' # 0
    BY <1>5, <2>1, <2>2, <2>4 DEF Eb!Tick
  <2>5. QED
    BY <2>3, <2>4
<1>6. CASE UNCHANGED <<now, errors, defer, recording, failed>>
  BY <1>6
<1>7. QED
  BY <1>1, <1>2, <1>3, <1>4, <1>5, <1>6 DEF Eb!Next
-----------------------------------------------------------------------------
(* RateLimits, AuthFailures and ErrorBudget together.                      *)

LimitsHoldInv == LimitsInv /\ AuthInv /\ BudgetInv

LEMMA LimitsHoldAlways == Spec => []LimitsHoldInv
<1>1. Init => LimitsHoldInv
  BY LimitsStart, AuthStart, BudgetStart DEF LimitsHoldInv
<1>2. LimitsHoldInv /\ [Next]_vars => LimitsHoldInv'
  BY LimitsStep, AuthStep, BudgetStep DEF LimitsHoldInv
<1>3. QED
  BY <1>1, <1>2, PTL DEF Spec

\* What is let through is what was counted: requests under a rate limit, guesses
\* of a webhook secret, and failures that defer a vendor's events, whatever the
\* overlapping reads and writes of their counts in the cache lose.
THEOREM LimitsAreKept == Spec => []LimitsHold
<1>1. LimitsInv => Ra!PassedWithinLimit
  BY LimitsAssumption DEF LimitsInv, Ra!PassedWithinLimit
<1>2. AuthInv => Au!TriesWithinThreshold
  <2> SUFFICES ASSUME AuthInv PROVE Au!TriesWithinThreshold
    OBVIOUS
  <2>1. tried \in Nat /\ lostFailures \in Int
    BY LimitsAssumption DEF AuthInv, Au!AuthTypeOK
  <2>2. Au!Cardinality(Requests) = Cardinality(Requests)
    BY DEF Au!Cardinality, Cardinality
  <2>3. QED
    BY <2>1, <2>2, VerifiedAreFew, AuthAssumption DEF AuthInv, Au!TriesWithinThreshold
<1>3. BudgetInv => Eb!DeferredForFailures
  BY BudgetAssumption DEF BudgetInv, Eb!BudgetTypeOK, Eb!NotDeferred, Eb!DeferredForFailures
<1>4. LimitsHoldInv => LimitsHold
  BY <1>1, <1>2, <1>3 DEF LimitsHoldInv, LimitsHold
<1>5. QED
  BY <1>4, LimitsHoldAlways, PTL

-----------------------------------------------------------------------------
(* OneTimeCodes.                                                           *)

LEMMA CodesMove == [Next]_vars => [On!Next]_<<user, records, sent, codes, verifying, used>>
BY DEF Next, vars, Money, Outward, Inward, StillInward, StillCodes

\* What is known of codes was sent ...
CodesKnown ==
    /\ \A p \in On!Purposes : sent[p] <= codes
    /\ \A rec \in records : rec.code <= codes
    /\ \A r \in Requests : verifying[r] # NoRecord => verifying[r].code <= codes
    /\ \A n \in used : n <= codes
\* ... a code is on one record, by whose name the request that compared it will
\* delete it ...
OneRecordPerCode == \A a, b \in records : a.code = b.code => a.name = b.name
ComparedByName ==
    \A a \in records, r \in Requests :
        verifying[r] # NoRecord /\ a.code = verifying[r].code => a.name = verifying[r].name
\* ... and sign-up has one record at most.
OneSignup ==
    /\ user = "missing" => records = {}
    /\ \A a, b \in records : a.purpose = "signup" /\ b.purpose = "signup" => a = b

CodesInv ==
    /\ On!CodesTypeOK /\ CodesKnown /\ OneRecordPerCode /\ ComparedByName /\ OneSignup
    /\ On!UsedCodesAreGone /\ On!LastSignupCodeWorks

LEMMA CodesStart == Init => CodesInv
BY CodesAssumption
   DEF Init, On!Init, CodesInv, On!CodesTypeOK, On!Purposes, On!Of, On!LastSignupCodeWorks,
       CodesKnown, OneRecordPerCode, ComparedByName, OneSignup, On!UsedCodesAreGone

\* A code that is sent is new, whatever records are kept beside its own.
LEMMA NewCode ==
    ASSUME CodesInv, NEW p \in On!Purposes, NEW old \in SUBSET records, NEW new \in On!Record,
           codes < MaxCodes, new.purpose = p, new.code = codes + 1,
           records' = old \cup {new}, p = "signup" => \A a \in old : a.purpose # "signup",
           On!Send(p), user' \in {"disabled", "enabled"},
           user' = "disabled" => user = "disabled" \/ records = {}
    PROVE  CodesInv'
<1> USE CodesAssumption DEF On!Purposes
<1>1. /\ codes' = codes + 1 /\ sent' = [sent EXCEPT ![p] = codes + 1]
      /\ verifying' = verifying /\ used' = used
  BY DEF On!Send
<1>2. On!CodesTypeOK'
  BY <1>1 DEF CodesInv, On!CodesTypeOK
<1>3. codes \in Nat
  BY DEF CodesInv, On!CodesTypeOK
<1>4. \A a \in old : a.code \in Nat /\ a.code <= codes /\ a.code # codes + 1
  <2> SUFFICES ASSUME NEW a \in old
               PROVE  a.code \in Nat /\ a.code <= codes /\ a.code # codes + 1
    OBVIOUS
  <2>1. a.code \in Nat
    BY DEF CodesInv, On!CodesTypeOK, On!Record
  <2>2. a.code <= codes
    BY DEF CodesInv, CodesKnown
  <2>3. QED
    BY <1>3, <2>1, <2>2
<1>5. \A r \in Requests :
        verifying[r] # NoRecord => verifying[r].code <= codes /\ verifying[r].code # codes + 1
  <2> SUFFICES ASSUME NEW r \in Requests, verifying[r] # NoRecord
               PROVE  verifying[r].code <= codes /\ verifying[r].code # codes + 1
    OBVIOUS
  <2>1. verifying[r].code \in Nat
    BY DEF CodesInv, On!CodesTypeOK, On!Record
  <2>2. verifying[r].code <= codes
    BY DEF CodesInv, CodesKnown
  <2>3. QED
    BY <1>3, <2>1, <2>2
<1>6. used \subseteq Nat /\ \A n \in used : n <= codes /\ n # codes + 1
  <2>1. used \subseteq Nat /\ \A n \in used : n <= codes
    BY DEF CodesInv, CodesKnown, On!CodesTypeOK
  <2>2. QED
    BY <1>3, <2>1
<1>7. CodesKnown'
  <2>1. \A q \in On!Purposes : sent[q] \in Nat /\ sent[q] <= codes
    BY DEF CodesInv, CodesKnown, On!CodesTypeOK
  <2>2. \A q \in On!Purposes : sent'[q] <= codes'
    BY <1>1, <1>3, <2>1 DEF CodesInv, On!CodesTypeOK
  <2>3. \A a \in records' : a.code <= codes'
    BY <1>1, <1>3, <1>4
  <2>4. \A r \in Requests : verifying'[r] # NoRecord => verifying'[r].code <= codes'
    <3> SUFFICES ASSUME NEW r \in Requests, verifying[r] # NoRecord
                 PROVE  verifying[r].code <= codes + 1
      BY <1>1
    <3>1. verifying[r].code \in Nat
      BY DEF CodesInv, On!CodesTypeOK, On!Record
    <3>2. QED
      BY <1>3, <1>5, <3>1
  <2>5. \A n \in used' : n <= codes'
    BY <1>1, <1>3, <1>6
  <2>6. QED
    BY <2>2, <2>3, <2>4, <2>5 DEF CodesKnown
<1>8. OneRecordPerCode' /\ ComparedByName' /\ On!UsedCodesAreGone'
  BY <1>1, <1>4, <1>5, <1>6
     DEF CodesInv, OneRecordPerCode, ComparedByName, On!UsedCodesAreGone
<1>9. OneSignup'
  BY DEF CodesInv, OneSignup
<1>10. On!LastSignupCodeWorks'
  BY <1>1 DEF CodesInv, On!LastSignupCodeWorks, On!Of, On!CodesTypeOK
<1>11. QED
  BY <1>2, <1>7, <1>8, <1>9, <1>10 DEF CodesInv

\* Records may go, and others age.
LEMMA FewerRecords ==
    ASSUME CodesInv, records' \subseteq On!Record,
           \A a \in records' : \E b \in records :
               a.code = b.code /\ a.name = b.name /\ a.purpose = b.purpose,
           \A a, b \in records' : a.purpose = "signup" /\ b.purpose = "signup" => a = b,
           UNCHANGED <<user, sent, codes, verifying, used>>
    PROVE  CodesInv'
<1>1. On!CodesTypeOK' /\ OneSignup'
  BY DEF CodesInv, On!CodesTypeOK, OneSignup
<1>2. CodesKnown' /\ OneRecordPerCode' /\ ComparedByName' /\ On!UsedCodesAreGone'
  BY DEF CodesInv, CodesKnown, OneRecordPerCode, ComparedByName, On!UsedCodesAreGone
<1>3. On!LastSignupCodeWorks'
  BY DEF CodesInv, On!LastSignupCodeWorks, On!Of
<1>4. QED
  BY <1>1, <1>2, <1>3 DEF CodesInv

LEMMA CodesStep == CodesInv /\ [Next]_vars => CodesInv'
<1> SUFFICES ASSUME CodesInv, [On!Next]_<<user, records, sent, codes, verifying, used>>
             PROVE  CodesInv'
  BY CodesMove
<1> USE CodesAssumption DEF On!Purposes
<1>0. /\ codes \in 0..MaxCodes /\ records \subseteq On!Record
      /\ \A a, b \in records : a.purpose = "signup" /\ b.purpose = "signup" => a = b
  BY DEF CodesInv, On!CodesTypeOK, OneSignup
<1>1. CASE On!Signup
  <2>1. codes < MaxCodes /\ On!NewRecord("signup") \in On!Record
    BY <1>1, <1>0 DEF On!Signup, On!Send, On!NewRecord, On!Record
  <2>2. records = {}
    BY <1>1 DEF On!Signup, CodesInv, OneSignup
  <2>3. QED
    BY <1>1, <2>1, <2>2, NewCode, ZenonT(40) DEF On!Signup, On!NewRecord
<1>2. CASE On!ForgotPassword
  <2>1. codes < MaxCodes /\ On!NewRecord("password_reset") \in On!Record
    BY <1>2, <1>0 DEF On!ForgotPassword, On!Send, On!NewRecord, On!Record
  <2>2. user' \in {"disabled", "enabled"} /\ user' = user
    BY <1>2 DEF On!ForgotPassword, CodesInv, On!CodesTypeOK
  <2>3. QED
    BY <1>2, <2>1, <2>2, NewCode DEF On!ForgotPassword, On!NewRecord
<1>3. CASE On!CleanupExpired
  BY <1>0, <1>3, FewerRecords DEF On!CleanupExpired
<1>4. ASSUME NEW p \in On!Purposes, On!ResendOtp(p) PROVE CodesInv'
  <2>0. codes < MaxCodes /\ On!Send(p) /\ user' = user /\ user' \in {"disabled", "enabled"}
    BY <1>4 DEF On!ResendOtp, On!Send, CodesInv, On!CodesTypeOK
  <2>1. CASE On!Of(p) = {}
    <3>1. On!NewRecord(p) \in On!Record /\ records' = records \cup {On!NewRecord(p)}
      BY <1>0, <1>4, <2>0, <2>1 DEF On!ResendOtp, On!Resent, On!NewRecord, On!Record
    <3>2. \A a \in records : a.purpose # p
      BY <2>1 DEF On!Of
    <3>3. QED
      BY <2>0, <3>1, <3>2, NewCode DEF On!NewRecord
  <2>2. CASE On!Of(p) # {}
    <3>1. PICK rec \in On!Of(p) :
            records' = (records \ {rec}) \cup {[On!NewRecord(p) EXCEPT !.name = rec.name]}
      BY <1>4, <2>2 DEF On!ResendOtp, On!Resent
    <3> DEFINE new == [On!NewRecord(p) EXCEPT !.name = rec.name]
    <3>2. rec \in records /\ rec.purpose = p /\ rec.name \in 1..MaxCodes
      BY <1>0 DEF On!Of, On!Record
    <3>3. /\ On!NewRecord(p) \in On!Record
          /\ On!NewRecord(p).purpose = p /\ On!NewRecord(p).code = codes + 1
      BY <1>0, <2>0 DEF On!NewRecord, On!Record
    <3>4. new \in On!Record /\ new.purpose = p /\ new.code = codes + 1
      BY <3>2, <3>3 DEF On!Record
    <3>5. p = "signup" => \A a \in records \ {rec} : a.purpose # "signup"
      BY <1>0, <3>2
    <3> HIDE DEF new
    <3>6. records' = (records \ {rec}) \cup {new}
      BY <3>1 DEF new
    <3>7. QED
      BY <2>0, <3>4, <3>5, <3>6, NewCode
  <2>3. QED
    BY <2>1, <2>2
<1>5. ASSUME NEW p \in On!Purposes, On!FindExpired(p) PROVE CodesInv'
  BY <1>0, <1>5, FewerRecords DEF On!FindExpired, On!Of
<1>6. ASSUME NEW r \in Requests, On!FinishVerification(r) PROVE CodesInv'
  <2> DEFINE c == verifying[r].code
  <2>1. /\ verifying[r] \in On!Record /\ verifying[r] # NoRecord
        /\ user' = "enabled" /\ used' = used \cup {c} /\ sent' = sent /\ codes' = codes
        /\ records' = {a \in records : a.name # verifying[r].name}
        /\ verifying' = [verifying EXCEPT ![r] = NoRecord]
    BY <1>6 DEF On!FinishVerification, On!RecordsAfter, CodesInv, On!CodesTypeOK
  <2>2. On!CodesTypeOK'
    BY <2>1 DEF CodesInv, On!CodesTypeOK, On!Record
  <2>3. CodesKnown' /\ OneRecordPerCode' /\ ComparedByName' /\ OneSignup'
    BY <2>1
       DEF CodesInv, On!CodesTypeOK, CodesKnown, OneRecordPerCode, ComparedByName, OneSignup
  <2>4. On!UsedCodesAreGone'
    BY <2>1 DEF CodesInv, ComparedByName, On!UsedCodesAreGone
  <2>5. On!LastSignupCodeWorks'
    BY <2>1 DEF On!LastSignupCodeWorks
  <2>6. QED
    BY <2>2, <2>3, <2>4, <2>5 DEF CodesInv
<1>7. ASSUME NEW r \in Requests, NEW code \in 1..codes, On!Compare(r, code) PROVE CodesInv'
  <2>1. PICK rec \in records : verifying' = [verifying EXCEPT ![r] = rec]
    BY <1>7 DEF On!Compare
  <2>2. UNCHANGED <<user, records, sent, codes, used>>
    BY <1>7 DEF On!Compare
  <2>3. On!CodesTypeOK' /\ verifying \in [Requests -> On!Record \cup {NoRecord}]
    BY <2>1, <2>2 DEF CodesInv, On!CodesTypeOK
  <2>4. CodesKnown' /\ ComparedByName'
    BY <2>1, <2>2, <2>3 DEF CodesInv, CodesKnown, OneRecordPerCode, ComparedByName
  <2>5. OneRecordPerCode' /\ OneSignup' /\ On!UsedCodesAreGone' /\ On!LastSignupCodeWorks'
    BY <2>2 DEF CodesInv, OneRecordPerCode, OneSignup, On!UsedCodesAreGone,
                On!LastSignupCodeWorks, On!Of
  <2>6. QED
    BY <2>3, <2>4, <2>5 DEF CodesInv
<1>8. ASSUME NEW rec \in records, On!Expire(rec) PROVE CodesInv'
  <2> DEFINE aged == [rec EXCEPT !.expired = TRUE]
  <2>1. /\ aged \in On!Record /\ aged.code = rec.code /\ aged.name = rec.name
        /\ aged.purpose = rec.purpose
    BY <1>0 DEF On!Record
  <2>2. /\ records' = (records \ {rec}) \cup {aged}
        /\ UNCHANGED <<user, sent, codes, verifying, used>>
    BY <1>8 DEF On!Expire
  <2> HIDE DEF aged
  <2>3. QED
    BY <1>0, <2>1, <2>2, FewerRecords
<1>9. CASE UNCHANGED <<user, records, sent, codes, verifying, used>>
  BY <1>0, <1>9, FewerRecords
<1>10. QED
  BY <1>1, <1>2, <1>3, <1>4, <1>5, <1>6, <1>7, <1>8, <1>9 DEF On!Next

\* The last code in the inbox works, and no code works twice.
THEOREM CodesAlwaysWorkOnce == Spec => []CodesWorkOnce
<1>1. Init => CodesInv
  BY CodesStart
<1>2. CodesInv /\ [Next]_vars => CodesInv'
  BY CodesStep
<1>3. CodesInv => CodesWorkOnce
  BY DEF CodesInv, CodesWorkOnce, On!CodesWorkOnce
<1>4. QED
  BY <1>1, <1>2, <1>3, PTL DEF Spec
-----------------------------------------------------------------------------
(* ErpSync.                                                                *)

LEMMA ErpMoves == [Next]_vars => [Er!Next]_<<due, row, remote, run, mishaps>>
BY DEF Next, vars, Money, Outward, Inward, StillMoney, StillErp

Runs == [todo : SUBSET Orders, written : SUBSET Orders,
         read : [Orders -> Er!Fields], rows : [Orders -> Er!Fields]]

ErpShape ==
    /\ due \subseteq Orders
    /\ row \in [Orders -> Er!Fields]
    /\ remote \in [Orders -> [so : Nat, invoice : Nat]]
    /\ run \in Runs
    /\ mishaps \in 0..MaxMishaps
    /\ run.todo \cap run.written = {}

\* Fields name only documents the other site has, and both when they say Synced.
Exported(fields, there) ==
    /\ fields.so => there.so > 0
    /\ fields.invoice => there.invoice > 0
    /\ fields.status = "Synced" => fields.so /\ fields.invoice

NamesAreExported ==
    \A o \in Orders :
        /\ Exported(row[o], remote[o])
        /\ Exported(run.read[o], remote[o])
        /\ Exported(run.rows[o], remote[o])

\* What the committed row names, or will name when the run commits.
SoNamed(o) == row[o].so \/ (o \in run.written /\ run.rows[o].so)
InvoiceNamed(o) == row[o].invoice \/ (o \in run.written /\ run.rows[o].invoice)

\* A document cost a mishap if it is one too many, or not named.
SentOnce ==
    \A o \in Orders :
        /\ remote[o].so <= 1 + mishaps /\ (~SoNamed(o) => remote[o].so <= mishaps)
        /\ remote[o].invoice <= 1 + mishaps /\ (~InvoiceNamed(o) => remote[o].invoice <= mishaps)

ErpInv == ErpShape /\ NamesAreExported /\ SentOnce

\* What an attempt to push an order sends and writes, after what it has read.
LEMMA AttemptSends ==
    ASSUME NEW read \in Er!Fields, read.status = "Synced" => read.so /\ read.invoice,
           NEW e \in Er!Attempts(read)
    PROVE  /\ e.row \in Er!Fields /\ e.lost \in BOOLEAN
           /\ "so" \in e.sent => ~read.so
           /\ "invoice" \in e.sent => ~read.invoice
           /\ e.row.so <=> read.so \/ ("so" \in e.sent /\ ~e.lost)
           /\ e.row.invoice <=> read.invoice \/ ("invoice" \in e.sent /\ ~e.lost)
           /\ e.row.status = "Synced" => e.row.so /\ e.row.invoice
<1> DEFINE unsent == [read EXCEPT !.status = "Failed"]
           named == [read EXCEPT !.status = "Failed", !.so = TRUE]
           synced == [read EXCEPT !.status = "Synced"]
           invoiced == [read EXCEPT !.status = "Synced", !.invoice = TRUE]
<1>1. /\ unsent \in Er!Fields /\ unsent.status = "Failed"
      /\ unsent.so = read.so /\ unsent.invoice = read.invoice
      /\ named \in Er!Fields /\ named.status = "Failed" /\ named.so /\ named.invoice = read.invoice
      /\ synced \in Er!Fields /\ synced.so = read.so /\ synced.invoice = read.invoice
      /\ invoiced \in Er!Fields /\ invoiced.so = read.so /\ invoiced.invoice
  BY DEF Er!Fields
<1> HIDE DEF unsent, named, synced, invoiced
<1>2. \/ e.sent = {} /\ e.row = unsent /\ e.lost = FALSE
      \/ ~read.so /\ e.sent = {"so"} /\ e.row = named /\ e.lost = FALSE
      \/ ~read.so /\ e.sent = {"so"} /\ e.row = unsent /\ e.lost = TRUE
      \/ read.so /\ ~read.invoice /\ e.sent = {"invoice"} /\ e.row = invoiced /\ e.lost = FALSE
      \/ read.so /\ ~read.invoice /\ e.sent = {"invoice"} /\ e.row = unsent /\ e.lost = TRUE
      \/ read.so /\ read.invoice /\ e.sent = {} /\ e.row = synced /\ e.lost = FALSE
  BY DEF Er!Attempts, Er!Outcomes, Er!Lost, Er!Answered, Er!NeedsSalesOrder, Er!NeedsInvoice,
         unsent, named, synced, invoiced
<1>3. read.so \in BOOLEAN /\ read.invoice \in BOOLEAN
  BY DEF Er!Fields
<1>4. /\ e.row \in Er!Fields /\ e.lost \in BOOLEAN
      /\ e.row.status = "Synced" => e.row.so /\ e.row.invoice
  BY <1>1, <1>2
<1>5. ("so" \in e.sent => ~read.so) /\ ("invoice" \in e.sent => ~read.invoice)
  BY <1>2
<1>6. /\ e.row.so <=> read.so \/ ("so" \in e.sent /\ ~e.lost)
      /\ e.row.invoice <=> read.invoice \/ ("invoice" \in e.sent /\ ~e.lost)
  BY <1>1, <1>2, <1>3
<1>7. QED
  BY <1>4, <1>5, <1>6

LEMMA ErpStart == Init => ErpInv
BY ErpAssumption
   DEF Init, Er!Init, Er!Asleep, Er!Fresh, Er!Fields, ErpInv, ErpShape, Runs, NamesAreExported,
       Exported, SentOnce, SoNamed, InvoiceNamed

LEMMA ErpStep == ErpInv /\ [Next]_vars => ErpInv'
<1> SUFFICES ASSUME ErpInv, [Er!Next]_<<due, row, remote, run, mishaps>>
             PROVE  ErpInv'
  BY ErpMoves
<1> USE ErpAssumption
<1>0. ErpShape /\ NamesAreExported /\ SentOnce
  BY DEF ErpInv
<1>1. ASSUME NEW o \in Orders, Er!Paid(o) \/ Er!Ended(o) PROVE ErpInv'
  BY <1>0, <1>1 DEF Er!Paid, Er!Ended, ErpInv, ErpShape, NamesAreExported, SentOnce, SoNamed,
                    InvoiceNamed
<1>2. CASE Er!StartDailySync
  <2>1. /\ run.written = {} /\ run'.written = {} /\ run'.read = row /\ run'.rows = row
        /\ run' \in Runs /\ UNCHANGED <<due, row, remote, mishaps>>
    BY <1>0, <1>2 DEF Er!StartDailySync, Er!Asleep, Er!Pending, ErpShape, Runs
  <2>2. ErpShape' /\ NamesAreExported'
    BY <1>0, <2>1 DEF ErpShape, NamesAreExported
  <2>3. SentOnce'
    BY <1>0, <2>1 DEF SentOnce, SoNamed, InvoiceNamed
  <2>4. QED
    BY <2>2, <2>3 DEF ErpInv
<1>3. ASSUME NEW o \in Orders, Er!PushDaily(o) PROVE ErpInv'
  <2> DEFINE read == run.read[o]
             Again(e) == (("so" \in e.sent) /\ remote[o].so > 0)
                         \/ (("invoice" \in e.sent) /\ remote[o].invoice > 0)
             Cost(e) == (IF e.lost THEN 1 ELSE 0)
                        + (IF Again(e) /\ read # row[o] THEN 1 ELSE 0)
  <2>1. PICK e \in Er!Attempts(read) :
          /\ o \in run.todo
          /\ mishaps + Cost(e) <= MaxMishaps
          /\ mishaps' = mishaps + Cost(e)
          /\ Er!Receive(o, e.sent)
          /\ run' = [run EXCEPT !.todo = @ \ {o}, !.written = @ \cup {o}, !.rows[o] = e.row]
          /\ UNCHANGED <<due, row>>
    BY <1>3 DEF Er!PushDaily
  <2>2. /\ read \in Er!Fields /\ Exported(read, remote[o])
        /\ remote[o] \in [so : Nat, invoice : Nat] /\ o \notin run.written
    BY <1>0, <2>1 DEF ErpShape, Runs, NamesAreExported
  <2>3. /\ e.row \in Er!Fields /\ e.lost \in BOOLEAN
        /\ "so" \in e.sent => ~read.so
        /\ "invoice" \in e.sent => ~read.invoice
        /\ e.row.so <=> read.so \/ ("so" \in e.sent /\ ~e.lost)
        /\ e.row.invoice <=> read.invoice \/ ("invoice" \in e.sent /\ ~e.lost)
        /\ e.row.status = "Synced" => e.row.so /\ e.row.invoice
    BY <2>2, AttemptSends DEF Exported
  <2>4. /\ remote' \in [Orders -> [so : Nat, invoice : Nat]]
        /\ \A p \in Orders \ {o} : remote'[p] = remote[p]
        /\ remote'[o].so = remote[o].so + (IF "so" \in e.sent THEN 1 ELSE 0)
        /\ remote'[o].invoice = remote[o].invoice + (IF "invoice" \in e.sent THEN 1 ELSE 0)
    BY <1>0, <2>1, <2>2 DEF Er!Receive, ErpShape
  <2>5. /\ run' \in Runs /\ run'.todo = run.todo \ {o} /\ run'.written = run.written \cup {o}
        /\ run'.read = run.read /\ run'.rows = [run.rows EXCEPT ![o] = e.row]
    BY <1>0, <2>1, <2>3 DEF ErpShape, Runs
  <2>6. mishaps \in 0..MaxMishaps /\ mishaps' \in 0..MaxMishaps /\ mishaps <= mishaps'
    BY <1>0, <2>1 DEF ErpShape
  <2>7. ErpShape'
    BY <1>0, <2>1, <2>4, <2>5, <2>6 DEF ErpShape
  <2>8. NamesAreExported'
    <3> SUFFICES ASSUME NEW p \in Orders
                 PROVE  /\ Exported(row[p], remote'[p])
                        /\ Exported(run.read[p], remote'[p])
                        /\ Exported(run'.rows[p], remote'[p])
      BY <2>1, <2>5 DEF NamesAreExported, Exported
    <3>1. CASE p # o
      BY <1>0, <2>4, <2>5, <3>1 DEF NamesAreExported, ErpShape, Runs
    <3>2. CASE p = o
      <4>1. Exported(row[o], remote'[o]) /\ Exported(read, remote'[o])
        BY <1>0, <2>2, <2>4 DEF NamesAreExported, Exported
      <4>2. Exported(e.row, remote'[o])
        BY <2>2, <2>3, <2>4 DEF Exported
      <4>3. run'.rows[o] = e.row
        BY <1>0, <2>5 DEF ErpShape, Runs
      <4>4. QED
        BY <3>2, <4>1, <4>2, <4>3
    <3>3. QED
      BY <3>1, <3>2
  <2>9. SentOnce'
    <3>1. \A p \in Orders \ {o} :
            /\ remote'[p].so <= 1 + mishaps' /\ (~SoNamed(p)' => remote'[p].so <= mishaps')
            /\ remote'[p].invoice <= 1 + mishaps'
            /\ (~InvoiceNamed(p)' => remote'[p].invoice <= mishaps')
      BY <1>0, <2>1, <2>4, <2>5, <2>6 DEF SentOnce, SoNamed, InvoiceNamed, ErpShape, Runs
    <3>2. /\ SoNamed(o)' <=> row[o].so \/ e.row.so
          /\ InvoiceNamed(o)' <=> row[o].invoice \/ e.row.invoice
          /\ SoNamed(o) <=> row[o].so
          /\ InvoiceNamed(o) <=> row[o].invoice
      BY <1>0, <2>1, <2>2, <2>5 DEF SoNamed, InvoiceNamed, ErpShape, Runs
    <3>3. /\ remote[o].so <= 1 + mishaps /\ (~row[o].so => remote[o].so <= mishaps)
          /\ remote[o].invoice <= 1 + mishaps
          /\ (~row[o].invoice => remote[o].invoice <= mishaps)
      BY <1>0, <3>2 DEF SentOnce
    <3>4. mishaps' = mishaps + Cost(e)
      BY <2>1
    <3>5. CASE read = row[o]
      BY <2>2, <2>3, <2>4, <2>6, <3>1, <3>2, <3>3, <3>4, <3>5 DEF SentOnce
    <3>6. CASE read # row[o]
      BY <2>2, <2>3, <2>4, <2>6, <3>1, <3>2, <3>3, <3>4, <3>6 DEF SentOnce
    <3>7. QED
      BY <3>5, <3>6
  <2>10. QED
    BY <2>7, <2>8, <2>9 DEF ErpInv
<1>4. CASE Er!CommitDailySync
  <2>1. /\ row' = [o \in Orders |-> IF o \in run.written THEN Er!Merged(row[o], run.rows[o])
                                   ELSE row[o]]
        /\ run' = Er!Asleep /\ UNCHANGED <<due, remote, mishaps>>
    BY <1>4 DEF Er!CommitDailySync
  <2>2. \A o \in Orders :
          /\ row'[o] \in Er!Fields
          /\ row'[o].so <=> SoNamed(o)
          /\ row'[o].invoice <=> InvoiceNamed(o)
          /\ row'[o].status = "Synced" => row'[o].so /\ row'[o].invoice
    BY <1>0, <2>1 DEF ErpShape, Runs, NamesAreExported, Exported, SoNamed, InvoiceNamed,
                      Er!Merged, Er!Fields
  <2>3. /\ run' \in Runs /\ run'.written = {} /\ run'.todo = {}
        /\ \A o \in Orders : run'.read[o] = Er!Fresh /\ run'.rows[o] = Er!Fresh
    BY <2>1 DEF Er!Asleep, Er!Fresh, Er!Fields, Runs
  <2>4. ErpShape'
    BY <1>0, <2>1, <2>2, <2>3 DEF ErpShape
  <2>5. NamesAreExported'
    <3>1. \A o \in Orders : Exported(row'[o], remote[o])
      BY <1>0, <2>2 DEF NamesAreExported, Exported, SoNamed, InvoiceNamed
    <3>2. \A o \in Orders : Exported(Er!Fresh, remote[o])
      BY DEF Exported, Er!Fresh
    <3>3. QED
      BY <2>1, <2>3, <3>1, <3>2 DEF NamesAreExported
  <2>6. SentOnce'
    BY <1>0, <2>1, <2>2, <2>3 DEF SentOnce, SoNamed, InvoiceNamed
  <2>7. QED
    BY <2>4, <2>5, <2>6 DEF ErpInv
<1>5. CASE Er!DailySyncDies
  <2>1. /\ run' = Er!Asleep /\ mishaps' = mishaps + 1 /\ mishaps < MaxMishaps
        /\ UNCHANGED <<due, row, remote>>
    BY <1>5 DEF Er!DailySyncDies
  <2>2. /\ run' \in Runs /\ run'.written = {} /\ run'.todo = {}
        /\ \A o \in Orders : run'.read[o] = Er!Fresh /\ run'.rows[o] = Er!Fresh
    BY <2>1 DEF Er!Asleep, Er!Fresh, Er!Fields, Runs
  <2>3. ErpShape' /\ SentOnce'
    BY <1>0, <2>1, <2>2 DEF ErpShape, SentOnce
  <2>4. NamesAreExported'
    BY <1>0, <2>1, <2>2 DEF NamesAreExported, Exported, Er!Fresh
  <2>5. QED
    BY <2>3, <2>4 DEF ErpInv
<1>6. ASSUME NEW o \in Orders, Er!SyncSingleOrder(o) PROVE ErpInv'
  <2>1. PICK e \in Er!Attempts(row[o]) :
          /\ o \notin run.written
          /\ mishaps' = mishaps + (IF e.lost THEN 1 ELSE 0) /\ mishaps' <= MaxMishaps
          /\ Er!Receive(o, e.sent)
          /\ row' = [row EXCEPT ![o] = e.row]
          /\ UNCHANGED <<due, run>>
    BY <1>6 DEF Er!SyncSingleOrder
  <2>2. /\ row[o] \in Er!Fields /\ Exported(row[o], remote[o])
        /\ remote[o] \in [so : Nat, invoice : Nat]
    BY <1>0 DEF ErpShape, NamesAreExported
  <2>3. /\ e.row \in Er!Fields /\ e.lost \in BOOLEAN
        /\ "so" \in e.sent => ~row[o].so
        /\ "invoice" \in e.sent => ~row[o].invoice
        /\ e.row.so <=> row[o].so \/ ("so" \in e.sent /\ ~e.lost)
        /\ e.row.invoice <=> row[o].invoice \/ ("invoice" \in e.sent /\ ~e.lost)
        /\ e.row.status = "Synced" => e.row.so /\ e.row.invoice
    BY <2>2, AttemptSends DEF Exported
  <2>4. /\ remote' \in [Orders -> [so : Nat, invoice : Nat]]
        /\ \A p \in Orders \ {o} : remote'[p] = remote[p]
        /\ remote'[o].so = remote[o].so + (IF "so" \in e.sent THEN 1 ELSE 0)
        /\ remote'[o].invoice = remote[o].invoice + (IF "invoice" \in e.sent THEN 1 ELSE 0)
    BY <1>0, <2>1, <2>2 DEF Er!Receive, ErpShape
  <2>5. /\ row' \in [Orders -> Er!Fields] /\ row'[o] = e.row
        /\ \A p \in Orders \ {o} : row'[p] = row[p]
    BY <1>0, <2>1, <2>3 DEF ErpShape
  <2>6. mishaps \in 0..MaxMishaps /\ mishaps' \in 0..MaxMishaps /\ mishaps <= mishaps'
    BY <1>0, <2>1, <2>3 DEF ErpShape
  <2>7. ErpShape'
    BY <1>0, <2>1, <2>4, <2>5, <2>6 DEF ErpShape
  <2>8. NamesAreExported'
    <3> SUFFICES ASSUME NEW p \in Orders
                 PROVE  /\ Exported(row'[p], remote'[p])
                        /\ Exported(run.read[p], remote'[p])
                        /\ Exported(run.rows[p], remote'[p])
      BY <2>1 DEF NamesAreExported, Exported
    <3>1. CASE p # o
      BY <1>0, <2>4, <2>5, <3>1 DEF NamesAreExported
    <3>2. CASE p = o
      <4>1. Exported(run.read[o], remote'[o]) /\ Exported(run.rows[o], remote'[o])
        BY <1>0, <2>2, <2>4 DEF NamesAreExported, Exported
      <4>2. Exported(e.row, remote'[o])
        BY <2>2, <2>3, <2>4 DEF Exported
      <4>3. QED
        BY <2>5, <3>2, <4>1, <4>2
    <3>3. QED
      BY <3>1, <3>2
  <2>9. SentOnce'
    <3>1. \A p \in Orders \ {o} :
            /\ remote'[p].so <= 1 + mishaps' /\ (~SoNamed(p)' => remote'[p].so <= mishaps')
            /\ remote'[p].invoice <= 1 + mishaps'
            /\ (~InvoiceNamed(p)' => remote'[p].invoice <= mishaps')
      BY <1>0, <2>1, <2>4, <2>5, <2>6 DEF SentOnce, SoNamed, InvoiceNamed, ErpShape
    <3>2. /\ SoNamed(o)' <=> e.row.so
          /\ InvoiceNamed(o)' <=> e.row.invoice
          /\ SoNamed(o) <=> row[o].so
          /\ InvoiceNamed(o) <=> row[o].invoice
      BY <2>1, <2>5 DEF SoNamed, InvoiceNamed
    <3>3. /\ remote[o].so <= 1 + mishaps /\ (~row[o].so => remote[o].so <= mishaps)
          /\ remote[o].invoice <= 1 + mishaps
          /\ (~row[o].invoice => remote[o].invoice <= mishaps)
      BY <1>0, <3>2 DEF SentOnce
    <3>4. mishaps' = mishaps + (IF e.lost THEN 1 ELSE 0)
      BY <2>1
    <3>5. QED
      BY <2>2, <2>3, <2>4, <2>6, <3>1, <3>2, <3>3, <3>4 DEF SentOnce
  <2>10. QED
    BY <2>7, <2>8, <2>9 DEF ErpInv
<1>7. CASE UNCHANGED <<due, row, remote, run, mishaps>>
  BY <1>0, <1>7 DEF ErpInv, ErpShape, NamesAreExported, SentOnce, SoNamed, InvoiceNamed
<1>8. QED
  BY <1>1, <1>2, <1>3, <1>4, <1>5, <1>6, <1>7 DEF Er!Next

\* A paid order is on the other site when the hub says so, once but for what a
\* lost answer, a run that died or a push from a stale read sent again.
THEOREM ExportStaysComplete == Spec => []ExportIsComplete
<1>1. Init => ErpInv
  BY ErpStart
<1>2. ErpInv /\ [Next]_vars => ErpInv'
  BY ErpStep
<1>3. ErpInv => ExportIsComplete
  BY DEF ErpInv, NamesAreExported, Exported, SentOnce, ExportIsComplete, Er!ExportIsComplete,
         Er!ExportedOnce, Er!SyncedIsExported
<1>4. QED
  BY <1>1, <1>2, <1>3, PTL DEF Spec
-----------------------------------------------------------------------------
(* ChartOfAccounts.                                                        *)

LEMMA ChartMoves == [Next]_vars => [Ch!Next]_<<chart, step, ready, cache, fresh>>
BY DEF Next, vars, Money, Outward, Inward, StillMoney, StillChart

\* What the first keyword of a key finds.
FirstMatching(k) == Matching[Keywords[k][1]]
Created == {SetUp[i] : i \in DOMAIN SetUp}

\* A ready chart holds what the setup created, and what a process started since
\* has found it found by the first keyword.
ChartInv ==
    /\ cache \in [Processes -> [Keys -> Ch!Accounts \cup {NoAccount}]]
    /\ chart \subseteq Ch!Accounts
    /\ ready \in BOOLEAN
    /\ ready => Created \subseteq chart
    /\ fresh \subseteq Processes /\ (fresh # {} => ready)
    /\ \A p \in fresh, k \in Keys : cache[p][k] \in FirstMatching(k) \cup {NoAccount}

\* On a chart that holds what the setup created no other keyword is tried.
LEMMA FirstKeywordHits ==
    ASSUME Created \subseteq chart, NEW k \in Keys, NEW i \in Ch!Hits(k)
    PROVE  i = 1
<1>1. chart \cap Matching[Keywords[k][1]] # {} /\ 1 \in DOMAIN Keywords[k]
  BY ChartAssumption DEF Created
<1>2. i \in Nat \ {0}
  BY ChartAssumption DEF Ch!Hits
<1>3. i > 1 => 1 \in 1..(i - 1)
  BY <1>2
<1>4. QED
  BY <1>1, <1>2, <1>3 DEF Ch!Hits

LEMMA ChartStart == Init => ChartInv
BY DEF Init, Ch!Init, Ch!NothingCached, Ch!Accounts, ChartInv

LEMMA ChartStep == ChartInv /\ [Next]_vars => ChartInv'
<1> SUFFICES ASSUME ChartInv, [Ch!Next]_<<chart, step, ready, cache, fresh>>
             PROVE  ChartInv'
  BY ChartMoves
<1> USE DEF ChartInv
<1>1. ASSUME NEW p \in Processes, Ch!Restart(p) PROVE ChartInv'
  BY <1>1 DEF Ch!Restart, Ch!NothingCached
<1>2. ASSUME NEW p \in Processes, NEW k \in Keys, Ch!GetAccount(p, k) PROVE ChartInv'
  <2>0. PICK i \in Ch!Hits(k) : \E a \in chart \cap Matching[Keywords[k][i]] :
          cache' = [cache EXCEPT ![p][k] = a]
    BY <1>2 DEF Ch!GetAccount
  <2>1. PICK a \in chart \cap Matching[Keywords[k][i]] : cache' = [cache EXCEPT ![p][k] = a]
    BY <2>0
  <2>2. UNCHANGED <<chart, step, ready, fresh>>
    BY <1>2 DEF Ch!GetAccount
  <2>3. cache' \in [Processes -> [Keys -> Ch!Accounts \cup {NoAccount}]]
    BY <2>1
  <2>4. p \in fresh => a \in FirstMatching(k)
    BY <2>1, FirstKeywordHits DEF FirstMatching
  <2>5. \A q \in fresh, l \in Keys : cache'[q][l] \in FirstMatching(l) \cup {NoAccount}
    BY <2>1, <2>4
  <2>6. QED
    BY <2>2, <2>3, <2>5
<1>3. CASE Ch!StartSetup
  BY <1>3 DEF Ch!StartSetup
<1>4. CASE Ch!FinishSetup
  BY <1>4 DEF Ch!FinishSetup, Created
<1>5. ASSUME NEW works \in BOOLEAN, Ch!CreateAccount(works) PROVE ChartInv'
  <2>1. step + 1 \in DOMAIN SetUp
    BY <1>5, ChartAssumption DEF Ch!CreateAccount
  <2>2. SetUp[step + 1] \in Ch!Accounts
    BY <2>1 DEF Ch!Accounts
  <2>3. QED
    BY <1>5, <2>2 DEF Ch!CreateAccount
<1>6. ASSUME NEW a \in Ch!Accounts, Ch!RemoveAccount(a) PROVE ChartInv'
  BY <1>6 DEF Ch!RemoveAccount
<1>7. CASE UNCHANGED <<chart, step, ready, cache, fresh>>
  BY <1>7
<1>8. QED
  BY <1>1, <1>2, <1>3, <1>4, <1>5, <1>6, <1>7 DEF Ch!Next

\* A process started on a complete chart never posts two keys to one account.
THEOREM LedgersStaySeparate == Spec => []LedgersAreSeparate
<1>1. Init => ChartInv
  BY ChartStart
<1>2. ChartInv /\ [Next]_vars => ChartInv'
  BY ChartStep
<1>3. ChartInv => LedgersAreSeparate
  BY ChartAssumption
     DEF ChartInv, FirstMatching, LedgersAreSeparate, Ch!LedgersAreSeparate, Ch!Accounts
<1>4. QED
  BY <1>1, <1>2, <1>3, PTL DEF Spec

-----------------------------------------------------------------------------
(* Devices.                                                                *)

LEMMA DevicesMove == [Next]_vars => [De!Next]_<<devices, login, asking, doubled>>
BY DEF Next, vars, Money, Outward, Inward, StillOutward, StillDevices

\* A phone that was not registered twice at once has one row, or one registration
\* under way, or neither.
DevicesInv ==
    /\ De!DevicesTypeOK
    /\ \A t \in Tokens \ doubled : Len(devices[t]) + Len(asking[t]) <= 1

LEMMA DevicesStart == Init => DevicesInv
BY DevicesAssumption DEF Init, De!Init, DevicesInv, De!DevicesTypeOK

LEMMA RemovedAt ==
    ASSUME NEW S, NEW s \in Seq(S), NEW i \in 1..Len(s)
    PROVE  De!RemoveAt(s, i) \in Seq(S) /\ Len(De!RemoveAt(s, i)) = Len(s) - 1
<1> DEFINE before == SubSeq(s, 1, i - 1)
           after == SubSeq(s, i + 1, Len(s))
<1>1. /\ before \in Seq(S) /\ Len(before) = i - 1
      /\ after \in Seq(S) /\ Len(after) = Len(s) - i
  <2>1. \A j \in 1..Len(s) : s[j] \in S
    OBVIOUS
  <2>2. i - 1 \in Int /\ i + 1 \in Int /\ Len(s) \in Int
    OBVIOUS
  <2>3. \A j \in 1..(i - 1) : s[j] \in S
    BY <2>1
  <2>4. \A j \in (i + 1)..Len(s) : s[j] \in S
    BY <2>1
  <2>5. QED
    BY <2>2, <2>3, <2>4, SubSeqProperties
<1>2. De!RemoveAt(s, i) = before \o after
  BY DEF De!RemoveAt
<1> HIDE DEF before, after
<1>3. before \o after \in Seq(S) /\ Len(before \o after) = Len(before) + Len(after)
  BY <1>1, ConcatProperties, Zenon
<1>4. (i - 1) + (Len(s) - i) = Len(s) - 1
  OBVIOUS
<1>5. QED
  BY <1>1, <1>2, <1>3, <1>4

\* How many rows and registrations a phone has.
LEMMA RowsAreCounted ==
    ASSUME De!DevicesTypeOK, NEW t \in Tokens
    PROVE  /\ Len(devices[t]) \in Nat /\ DOMAIN devices[t] = 1..Len(devices[t])
           /\ \A i \in 1..Len(devices[t]) : devices[t][i] \in De!Device
           /\ Len(asking[t]) \in Nat
<1>1. devices[t] \in Seq(De!Device) /\ asking[t] \in Seq(Users)
  BY DEF De!DevicesTypeOK
<1>2. QED
  BY <1>1, LenProperties

LEMMA Silenced == \A d \in De!Device : [d EXCEPT !.active = FALSE] \in De!Device
BY DEF De!Device

LEMMA DevicesStep == DevicesInv /\ [Next]_vars => DevicesInv'
<1> SUFFICES ASSUME DevicesInv, [De!Next]_<<devices, login, asking, doubled>>
             PROVE  DevicesInv'
  BY DevicesMove
<1> USE DevicesAssumption DEF DevicesInv, De!DevicesTypeOK
<1>1. ASSUME NEW t \in Tokens, NEW u \in Users, De!LogIn(t, u) PROVE DevicesInv'
  BY <1>1 DEF De!LogIn
<1>2. ASSUME NEW t \in Tokens, De!RegisterDevice(t) PROVE DevicesInv'
  <2>1. /\ login[t] \in Users /\ devices[t] = <<>>
        /\ asking' = [asking EXCEPT ![t] = Append(@, login[t])]
        /\ doubled' = IF asking[t] = <<>> THEN doubled ELSE doubled \cup {t}
        /\ UNCHANGED <<devices, login>>
    BY <1>2 DEF De!RegisterDevice, De!Known
  <2>2. asking' \in [Tokens -> Seq(Users)]
    BY <2>1
  <2>3. asking[t] = <<>> => Len(asking'[t]) = 1
    BY <2>1
  <2>4. QED
    BY <2>1, <2>2, <2>3
<1>3. ASSUME NEW t \in Tokens, De!EndSession(t) PROVE DevicesInv'
  BY <1>3 DEF De!EndSession
<1>4. ASSUME NEW t \in Tokens, NEW i \in 1..MaxRows, De!InsertDevice(t, i) PROVE DevicesInv'
  <2> DEFINE new == [user |-> asking[t][i], active |-> TRUE, age |-> 0]
  <2>1. /\ i \in 1..Len(asking[t])
        /\ devices' = [devices EXCEPT ![t] = Append(@, new)]
        /\ asking' = [asking EXCEPT ![t] = De!RemoveAt(@, i)]
        /\ UNCHANGED <<login, doubled>>
    BY <1>4 DEF De!InsertDevice
  <2>2. new \in De!Device
    BY <2>1 DEF De!Device
  <2> HIDE DEF new
  <2>3. /\ De!RemoveAt(asking[t], i) \in Seq(Users)
        /\ Len(De!RemoveAt(asking[t], i)) = Len(asking[t]) - 1
    BY <2>1, RemovedAt
  <2>4. devices' \in [Tokens -> Seq(De!Device)] /\ asking' \in [Tokens -> Seq(Users)]
    BY <2>1, <2>2, <2>3
  <2>5. Len(devices'[t]) = Len(devices[t]) + 1 /\ Len(asking'[t]) = Len(asking[t]) - 1
    BY <2>1, <2>2, <2>3
  <2>6. QED
    BY <2>1, <2>4, <2>5
<1>5. ASSUME NEW t \in Tokens, NEW i \in 1..MaxRows, De!UnregisterDevice(t, i) PROVE DevicesInv'
  <2>1. /\ i \in 1..Len(devices[t])
        /\ devices' = [devices EXCEPT ![t][i].active = FALSE]
        /\ login' = [login EXCEPT ![t] = Nobody]
        /\ UNCHANGED <<asking, doubled>>
    BY <1>5 DEF De!UnregisterDevice
  <2>2. [devices[t][i] EXCEPT !.active = FALSE] \in De!Device
    BY <2>1, RowsAreCounted, Silenced
  <2>3. devices'[t] \in Seq(De!Device) /\ Len(devices'[t]) = Len(devices[t])
    BY <2>1, <2>2
  <2>4. QED
    BY <2>1, <2>3
<1>6. CASE De!CleanupStaleTokens
  <2> DEFINE Older(d) == IF d.age < Lifetime THEN [d EXCEPT !.age = @ + 1]
                         ELSE [d EXCEPT !.active = FALSE]
  <2>1. /\ devices' = [t \in Tokens |-> [i \in DOMAIN devices[t] |-> Older(devices[t][i])]]
        /\ UNCHANGED <<login, asking, doubled>>
    BY <1>6 DEF De!CleanupStaleTokens
  <2>2. \A d \in De!Device : Older(d) \in De!Device
    <3> SUFFICES ASSUME NEW d \in De!Device PROVE Older(d) \in De!Device
      OBVIOUS
    <3>1. CASE d.age < Lifetime
      <4>1. d.age + 1 \in 0..Lifetime
        BY <3>1 DEF De!Device
      <4>2. QED
        BY <3>1, <4>1 DEF De!Device
    <3>2. CASE ~(d.age < Lifetime)
      BY <3>2, Silenced
    <3>3. QED
      BY <3>1, <3>2
  <2> HIDE DEF Older
  <2>3. ASSUME NEW t \in Tokens
        PROVE  devices'[t] \in Seq(De!Device) /\ Len(devices'[t]) = Len(devices[t])
    <3>1. Len(devices[t]) \in Nat /\ devices'[t] \in [1..Len(devices[t]) -> De!Device]
      BY <2>1, <2>2, RowsAreCounted
    <3>2. devices'[t] \in Seq(De!Device)
      <4>1. devices'[t] \in UNION {[1..n -> De!Device] : n \in Nat}
        BY <3>1
      <4>2. QED
        BY <4>1, SeqDef, Zenon
    <3>3. QED
      BY <3>1, <3>2, LenProperties
  <2>4. QED
    BY <2>1, <2>3
<1>7. CASE UNCHANGED <<devices, login, asking, doubled>>
  BY <1>7
<1>8. QED
  BY <1>1, <1>2, <1>3, <1>4, <1>5, <1>6, <1>7 DEF De!Next

LEMMA OneRowOneUser == DevicesInv => De!OneUserPerPhone
<1> SUFFICES ASSUME DevicesInv, NEW t \in Tokens \ doubled
             PROVE  Cardinality({u \in Users : t \in De!DeviceTokens(u)}) <= 1
  BY DEF De!OneUserPerPhone, De!Cardinality, Cardinality
<1> DEFINE Served == {u \in Users : t \in De!DeviceTokens(u)}
<1>0. /\ Len(devices[t]) \in Nat /\ DOMAIN devices[t] = 1..Len(devices[t])
      /\ Len(asking[t]) \in Nat /\ Len(devices[t]) + Len(asking[t]) <= 1
  BY RowsAreCounted, Zenon DEF DevicesInv
<1>1. DOMAIN devices[t] \subseteq {1}
  BY ONLY <1>0, \A m, n \in Nat : m + n <= 1 => 1..m \subseteq {1}
<1>2. Served \subseteq {devices[t][1].user}
  BY <1>1 DEF De!DeviceTokens
<1>3. Served = {} \/ Served = {devices[t][1].user}
  BY <1>2
<1>4. Cardinality(Served) \in {0, 1}
  BY <1>3, FS_EmptySet, FS_Singleton
<1>5. QED
  BY <1>4

LEMMA UnregisteredIsSilent == DevicesInv => De!LogoutSilences
<1> SUFFICES ASSUME DevicesInv, NEW t \in Tokens \ doubled, NEW i \in 1..MaxRows,
                    De!UnregisterDevice(t, i)
             PROVE  t \notin De!DeviceTokens(devices[t][i].user)'
  BY DEF De!LogoutSilences
<1>0. /\ Len(devices[t]) \in Nat /\ DOMAIN devices[t] = 1..Len(devices[t])
      /\ \A j \in 1..Len(devices[t]) : devices[t][j] \in De!Device
      /\ Len(asking[t]) \in Nat /\ Len(devices[t]) + Len(asking[t]) <= 1
  BY RowsAreCounted, Zenon DEF DevicesInv
<1>1. DOMAIN devices[t] = {1} /\ i = 1 /\ devices[t][1] \in De!Device
  <2>1. i \in DOMAIN devices[t]
    BY DEF De!UnregisterDevice
  <2>2. \A m, n \in Nat : m + n <= 1 /\ i \in 1..m => m = 1 /\ i = 1
    OBVIOUS
  <2>3. Len(devices[t]) = 1 /\ i = 1
    BY ONLY <1>0, <2>1, <2>2
  <2>4. QED
    BY <1>0, <2>3
<1>2. devices'[t] = [devices[t] EXCEPT ![1] = [devices[t][1] EXCEPT !.active = FALSE]]
  BY <1>1 DEF De!UnregisterDevice, DevicesInv, De!DevicesTypeOK
<1>3. DOMAIN devices'[t] = {1} /\ ~devices'[t][1].active
  BY <1>1, <1>2 DEF De!Device
<1>4. QED
  BY <1>3 DEF De!DeviceTokens

\* A phone shows one customer's notifications, and none after a logout.
THEOREM PhonesAreAlwaysOnesOwn == Spec => PhonesAreOnesOwn
<1>1. Init => DevicesInv
  BY DevicesStart
<1>2. DevicesInv /\ [Next]_vars => DevicesInv'
  BY DevicesStep
<1>3. DevicesInv' => De!OneUserPerPhone'
  BY OneRowOneUser, PTL
<1>4. DevicesInv /\ DevicesInv' => De!PhonesStayOnesOwn
  BY <1>3, UnregisteredIsSilent DEF De!PhonesStayOnesOwn
<1>5. QED
  BY <1>1, <1>2, <1>4, PTL DEF Spec, PhonesAreOnesOwn
-----------------------------------------------------------------------------
(* PriceUpdates.                                                           *)

LEMMA PricesMove == [Next]_vars => [Pr!Next]_<<rows, jobs, listings, display, overlapped>>
BY DEF Next, vars, Money, Outward, Inward, StillInward, StillPrices

PricesShape ==
    /\ rows \in [Pr!PriceEvents -> {"none", "Queued", "Sent", "Failed"}]
    /\ jobs \in [Pr!PriceEvents -> [at : {"none", "queued", "running"}, read : Pr!Listings]]
    /\ listings \in Pr!Listings

\* What a running job has read was so once.
ReadsAreOlder ==
    \A e \in Pr!Running, v \in Vendors : jobs[e].read[v].seq <= listings[v].seq

PricesInv == PricesShape /\ ReadsAreOlder /\ Pr!SentIsApplied /\ Pr!DisplayIsCheapest

LEMMA PriceEventsHaveNumbers ==
    ASSUME NEW e \in Pr!PriceEvents
    PROVE  /\ e[1] \in Vendors /\ e[2] \in Nat /\ PriceOf[e[1]][e[2]] \in Pr!Prices
BY PricesAssumption DEF Pr!PriceEvents, Pr!Seqs, Pr!Prices

LEMMA NoJobShape == Pr!NoJob \in [at : {"none", "queued", "running"}, read : Pr!Listings]
<1>1. \A v \in Vendors : PriceOf[v][0] \in Pr!Prices
  BY PricesAssumption DEF Pr!Prices
<1>2. QED
  BY <1>1 DEF Pr!NoJob, Pr!FirstListings, Pr!Listings

LEMMA PricesStart == Init => PricesInv
<1> SUFFICES ASSUME Init PROVE PricesInv
  OBVIOUS
<1>1. PricesShape
  BY NoJobShape DEF Init, Pr!Init, PricesShape, Pr!NoJob
<1>2. ReadsAreOlder /\ Pr!SentIsApplied /\ Pr!DisplayIsCheapest
  BY DEF Init, Pr!Init, ReadsAreOlder, Pr!Running, Pr!NoJob, Pr!SentIsApplied,
         Pr!DisplayIsCheapest
<1>3. QED
  BY <1>1, <1>2 DEF PricesInv

\* A job that ends without a word to the listings.
LEMMA JobEnds ==
    ASSUME PricesInv, NEW e \in Pr!PriceEvents, NEW to \in {"Sent", "Failed"},
           rows' \in {rows, [rows EXCEPT ![e] = to]},
           to = "Sent" => listings[e[1]].seq >= e[2],
           jobs' = [jobs EXCEPT ![e] = Pr!NoJob], UNCHANGED <<listings, display, overlapped>>
    PROVE  PricesInv'
<1>1. PricesShape'
  BY NoJobShape DEF PricesInv, PricesShape
<1>2. Pr!Running' \subseteq Pr!Running \ {e} /\ \A d \in Pr!Running' : jobs'[d] = jobs[d]
  BY DEF PricesInv, PricesShape, Pr!Running, Pr!NoJob
<1>3. ReadsAreOlder'
  BY <1>2 DEF PricesInv, ReadsAreOlder
<1>4. Pr!SentIsApplied' /\ Pr!DisplayIsCheapest'
  BY DEF PricesInv, PricesShape, Pr!SentIsApplied, Pr!DisplayIsCheapest
<1>5. QED
  BY <1>1, <1>3, <1>4 DEF PricesInv

LEMMA PricesStep ==
    PricesInv /\ [Next]_vars => PricesInv' /\ Pr!PricesNeverGoBack
<1> SUFFICES ASSUME PricesInv, [Pr!Next]_<<rows, jobs, listings, display, overlapped>>
             PROVE  PricesInv' /\ Pr!PricesNeverGoBack
  BY PricesMove
<1>0. /\ PricesShape /\ ReadsAreOlder /\ Pr!SentIsApplied /\ Pr!DisplayIsCheapest
      /\ \A v \in Vendors : listings[v].seq \in Nat
  BY DEF PricesInv, PricesShape, Pr!Listings
<1>1. listings' = listings => Pr!PricesNeverGoBack
  BY DEF Pr!PricesNeverGoBack
<1>2. ASSUME NEW e \in Pr!PriceEvents, Pr!Receive(e) PROVE PricesInv' /\ Pr!PricesNeverGoBack
  <2>1. PICK at \in {"queued", "none"} :
          /\ jobs' = [jobs EXCEPT ![e].at = at] /\ rows' = [rows EXCEPT ![e] = "Queued"]
          /\ UNCHANGED <<listings, display, overlapped>>
    BY <1>2 DEF Pr!Receive
  <2>2. PricesShape'
    BY <1>0, <2>1 DEF PricesShape
  <2>3. Pr!Running' \subseteq Pr!Running /\ \A d \in Pr!Running' : jobs'[d] = jobs[d]
    BY <1>0, <2>1 DEF PricesShape, Pr!Running
  <2>4. ReadsAreOlder'
    BY <1>0, <2>1, <2>3 DEF ReadsAreOlder
  <2>5. Pr!SentIsApplied' /\ Pr!DisplayIsCheapest'
    BY <1>0, <2>1 DEF PricesShape, Pr!SentIsApplied, Pr!DisplayIsCheapest
  <2>6. QED
    BY <1>1, <2>1, <2>2, <2>4, <2>5 DEF PricesInv
<1>3. ASSUME NEW e \in Pr!PriceEvents, Pr!StartJob(e) PROVE PricesInv' /\ Pr!PricesNeverGoBack
  <2>1. /\ jobs' = [jobs EXCEPT ![e] = [at |-> "running", read |-> listings]]
        /\ UNCHANGED <<rows, listings, display, overlapped>>
    BY <1>3 DEF Pr!StartJob
  <2>2. PricesShape'
    BY <1>0, <2>1 DEF PricesShape
  <2>3. ReadsAreOlder'
    BY <1>0, <2>1 DEF ReadsAreOlder, Pr!Running, PricesShape
  <2>4. Pr!SentIsApplied' /\ Pr!DisplayIsCheapest'
    BY <1>0, <2>1 DEF Pr!SentIsApplied, Pr!DisplayIsCheapest
  <2>5. QED
    BY <1>1, <2>1, <2>2, <2>3, <2>4 DEF PricesInv
<1>4. ASSUME NEW e \in Pr!PriceEvents, Pr!DropStale(e) PROVE PricesInv' /\ Pr!PricesNeverGoBack
  <2>1. e[1] \in Vendors /\ e[2] \in Nat
    BY PriceEventsHaveNumbers
  <2>2. e[2] <= jobs[e].read[e[1]].seq /\ jobs[e].read[e[1]].seq <= listings[e[1]].seq
    BY <1>0, <1>4, <2>1 DEF Pr!DropStale, Pr!Stale, ReadsAreOlder
  <2>3. jobs[e].read[e[1]].seq \in Nat
    BY <1>0, <2>1 DEF PricesShape, Pr!Listings
  <2>4. listings[e[1]].seq >= e[2]
    BY <1>0, <2>1, <2>2, <2>3
  <2>5. QED
    BY <1>1, <1>4, <2>4, JobEnds DEF Pr!DropStale
<1>5. ASSUME NEW e \in Pr!PriceEvents, Pr!ApplyPriceUpdate(e)
      PROVE  PricesInv' /\ Pr!PricesNeverGoBack
  <2> DEFINE v == e[1]
             new == [price |-> PriceOf[e[1]][e[2]], seq |-> e[2]]
  <2>1. v \in Vendors /\ e[2] \in Nat /\ new \in [price : Pr!Prices, seq : Nat]
    BY PriceEventsHaveNumbers
  <2>2. /\ e \in Pr!Running /\ ~(e[2] <= jobs[e].read[v].seq) /\ jobs[e].read[v] = listings[v]
        /\ listings' = [listings EXCEPT ![v] = new]
        /\ display' = Pr!PriceShown(e)
        /\ overlapped' = (Pr!Running # {e} \/ jobs[e].read # listings)
        /\ rows' = [rows EXCEPT ![e] = "Sent"] /\ jobs' = [jobs EXCEPT ![e] = Pr!NoJob]
    BY <1>5 DEF Pr!ApplyPriceUpdate, Pr!Stale, Pr!Conflicts
  <2>3. listings'[v] = new /\ new.seq = e[2] /\ e[2] > listings[v].seq
    BY <1>0, <2>1, <2>2 DEF PricesShape, Pr!Listings
  <2>4. \A w \in Vendors : listings'[w].seq >= listings[w].seq /\ listings'[w].seq \in Nat
    BY <1>0, <2>1, <2>2, <2>3 DEF PricesShape, Pr!Listings
  <2>5. Pr!PricesNeverGoBack
    BY <1>0, <2>1, <2>2, <2>3 DEF Pr!PricesNeverGoBack, PricesShape, Pr!Listings
  <2>6. PricesShape'
    BY <1>0, <2>1, <2>2, NoJobShape DEF PricesShape, Pr!Listings
  <2>7. ReadsAreOlder'
    <3> SUFFICES ASSUME NEW d \in Pr!Running', NEW w \in Vendors
                 PROVE  jobs'[d].read[w].seq <= listings'[w].seq
      BY DEF ReadsAreOlder
    <3>1. d \in Pr!Running /\ jobs'[d] = jobs[d]
      BY <1>0, <2>2 DEF PricesShape, Pr!Running, Pr!NoJob
    <3>2. jobs[d].read[w].seq \in Nat
      BY <1>0, <3>1 DEF PricesShape, Pr!Listings, Pr!Running
    <3>3. QED
      BY <1>0, <2>4, <3>1, <3>2 DEF ReadsAreOlder
  <2>8. Pr!SentIsApplied'
    <3> SUFFICES ASSUME NEW d \in Pr!PriceEvents, rows'[d] = "Sent"
                 PROVE  listings'[d[1]].seq >= d[2]
      BY DEF Pr!SentIsApplied
    <3>1. d[1] \in Vendors /\ d[2] \in Nat
      BY PriceEventsHaveNumbers
    <3>2. CASE d = e
      BY <2>1, <2>3, <3>2
    <3>3. CASE d # e
      BY <1>0, <2>2, <2>4, <3>1, <3>3 DEF Pr!SentIsApplied, PricesShape
    <3>4. QED
      BY <3>2, <3>3
  <2>9. Pr!DisplayIsCheapest'
    <3> SUFFICES ASSUME ~overlapped' PROVE display' = Pr!Cheapest(listings')
      BY DEF Pr!DisplayIsCheapest, Pr!Cheapest, Pr!Min
    <3>1. jobs[e].read = listings
      BY <2>2
    <3> DEFINE seen == [listings EXCEPT ![v].price = PriceOf[e[1]][e[2]]]
    <3>2. \A w \in Vendors : seen[w].price = listings'[w].price
      BY <1>0, <2>1, <2>2 DEF PricesShape, Pr!Listings
    <3>3. display' = Pr!Cheapest(seen)
      BY <2>2, <3>1 DEF Pr!PriceShown
    <3> HIDE DEF seen
    <3>4. {seen[w].price : w \in Vendors} = {listings'[w].price : w \in Vendors}
      BY <3>2
    <3>5. QED
      BY <3>3, <3>4 DEF Pr!Cheapest
  <2>10. QED
    BY <2>5, <2>6, <2>7, <2>8, <2>9 DEF PricesInv
<1>6. ASSUME NEW e \in Pr!PriceEvents, Pr!RefuseConflict(e)
      PROVE  PricesInv' /\ Pr!PricesNeverGoBack
  BY <1>1, <1>6, JobEnds DEF Pr!RefuseConflict, Pr!RefusedStatus
<1>7. ASSUME NEW e \in Pr!PriceEvents, Pr!LoseJob(e) PROVE PricesInv' /\ Pr!PricesNeverGoBack
  BY <1>1, <1>7, JobEnds DEF Pr!LoseJob
<1>8. ASSUME NEW e \in Pr!PriceEvents, Pr!Archive(e) PROVE PricesInv' /\ Pr!PricesNeverGoBack
  BY <1>0, <1>1, <1>8
     DEF Pr!Archive, PricesInv, PricesShape, ReadsAreOlder, Pr!Running, Pr!SentIsApplied,
         Pr!DisplayIsCheapest
<1>9. CASE UNCHANGED <<rows, jobs, listings, display, overlapped>>
  BY <1>0, <1>1, <1>9
     DEF PricesInv, PricesShape, ReadsAreOlder, Pr!Running, Pr!SentIsApplied,
         Pr!DisplayIsCheapest
<1>10. QED
  BY <1>2, <1>3, <1>4, <1>5, <1>6, <1>7, <1>8, <1>9 DEF Pr!Next

\* In whatever order they come, price events end in the listings, no listing goes
\* back to an earlier price, and the cheapest is shown.
THEOREM PricesAlwaysFollowEvents == Spec => PricesFollowEvents
<1>1. Init => PricesInv
  BY PricesStart
<1>2. PricesInv /\ [Next]_vars => PricesInv' /\ Pr!PricesNeverGoBack
  BY PricesStep
<1>3. PricesInv' /\ Pr!PricesNeverGoBack => Pr!PricesFollow
  BY DEF PricesInv, Pr!PricesFollow
<1>4. QED
  BY <1>1, <1>2, <1>3, PTL DEF Spec, PricesFollowEvents
-----------------------------------------------------------------------------
(* CircuitBreaker.                                                         *)

LEMMA BreakerMoves == [Next]_vars => [Ci!Next]_<<circuit, kept, report, streak>>
BY DEF Next, vars, Money, Outward, Inward, StillOutward, StillBreaker

\* A closed circuit has counted failures of the streak, an open one enough of them.
Counted(c, n) ==
    /\ c.state = "missing" => c.failures = 0
    /\ c.state = "closed" => c.failures <= n
    /\ c.state = "open" => n >= FailureThreshold

\* So has what a call has read; and the circuit of a call that is alone is as the
\* call has read it, or has been forgotten.
BreakerInv ==
    /\ Ci!BreakerTypeOK
    /\ Counted(circuit, streak)
    /\ \A w \in Workers : Ci!Busy(w) => Counted(report[w].read, streak)
    /\ \A w \in Workers : Ci!Busy(w) /\ report[w].alone =>
         /\ \A x \in Workers \ {w} : ~Ci!Busy(x)
         /\ circuit.state \in {report[w].read.state, "missing"}

LEMMA BreakerStart == Init => BreakerInv
BY BreakerAssumption
   DEF Init, Ci!Init, BreakerInv, Ci!BreakerTypeOK, Counted, Ci!Circuits, Ci!Missing, Ci!Kinds,
       Ci!NoReport, Ci!Busy

\* What a failure and a success make of a circuit.
LEMMA FailureCounts ==
    ASSUME NEW c \in Ci!Circuits, c.state # "missing", NEW n \in 0..MaxCount, Counted(c, n)
    PROVE  /\ Ci!Failed(c) \in Ci!Circuits /\ Counted(Ci!Failed(c), Ci!Cap(n + 1))
           /\ Ci!Failed(c).state \in {c.state, "open"}
<1> USE BreakerAssumption DEF Counted, Ci!Circuits
<1>1. /\ Ci!Cap(n + 1) \in 0..MaxCount /\ n <= Ci!Cap(n + 1)
      /\ Ci!Cap(c.failures + 1) \in 0..MaxCount
      /\ c.failures <= n => Ci!Cap(c.failures + 1) <= Ci!Cap(n + 1)
      /\ c.failures <= n /\ c.failures + 1 >= FailureThreshold => Ci!Cap(n + 1) >= FailureThreshold
  BY DEF Ci!Cap
<1>2. CASE c.state = "closed" /\ c.failures + 1 >= FailureThreshold
  <2>1. Ci!Failed(c) = [c EXCEPT !.failures = Ci!Cap(c.failures + 1), !.state = "open", !.cooled = FALSE]
    BY <1>2 DEF Ci!Failed
  <2>2. QED
    BY <1>1, <1>2, <2>1
<1>3. CASE ~(c.state = "closed" /\ c.failures + 1 >= FailureThreshold)
  <2>1. Ci!Failed(c) = [c EXCEPT !.failures = Ci!Cap(c.failures + 1)]
    BY <1>3 DEF Ci!Failed
  <2>2. QED
    BY <1>1, <1>3, <2>1
<1>4. QED
  BY <1>2, <1>3

LEMMA SuccessCounts ==
    ASSUME NEW c \in Ci!Circuits, c.state # "missing"
    PROVE  /\ Ci!Succeeded(c) \in Ci!Circuits
           /\ c.state = "open" => Ci!Succeeded(c) = c
           /\ c.state # "open" => /\ Ci!Succeeded(c).state \in {"closed", "half_open"}
                                  /\ Ci!Succeeded(c).state = "closed" => Ci!Succeeded(c).failures = 0
<1> USE BreakerAssumption DEF Ci!Circuits
<1>1. CASE c.state = "half_open" /\ c.successes + 1 >= SuccessThreshold
  <2>1. Ci!Succeeded(c) = [c EXCEPT !.state = "closed", !.failures = 0, !.successes = 0]
    BY <1>1 DEF Ci!Succeeded
  <2>2. 0 \in 0..MaxCount /\ 0 \in 0..SuccessThreshold
    OBVIOUS
  <2>3. Ci!Succeeded(c) \in Ci!Circuits
    BY <2>1, <2>2
  <2>4. Ci!Succeeded(c).state = "closed" /\ Ci!Succeeded(c).failures = 0
    BY <2>1
  <2>5. QED
    BY <1>1, <2>3, <2>4
<1>2. CASE c.state = "half_open" /\ c.successes + 1 < SuccessThreshold
  <2>1. Ci!Succeeded(c) = [c EXCEPT !.successes = c.successes + 1]
    BY <1>2 DEF Ci!Succeeded
  <2>2. QED
    BY <1>2, <2>1
<1>3. CASE c.state = "closed"
  BY <1>3 DEF Ci!Succeeded
<1>4. CASE c.state = "open"
  BY <1>4 DEF Ci!Succeeded
<1>5. QED
  BY <1>1, <1>2, <1>3, <1>4

LEMMA BreakerStep ==
    BreakerInv /\ [Next]_vars => BreakerInv' /\ Ci!ClosedAfterTest
<1> SUFFICES ASSUME BreakerInv, [Ci!Next]_<<circuit, kept, report, streak>>
             PROVE  BreakerInv' /\ Ci!ClosedAfterTest
  BY BreakerMoves
<1> USE BreakerAssumption
<1>0. /\ circuit \in Ci!Circuits /\ kept \in 0..Expiry /\ streak \in 0..MaxCount
      /\ report \in [Workers -> [kind : Ci!Kinds, read : Ci!Circuits, alone : BOOLEAN]]
      /\ Counted(circuit, streak)
      /\ \A w \in Workers : Ci!Busy(w) => Counted(report[w].read, streak)
      /\ \A w \in Workers : Ci!Busy(w) /\ report[w].alone =>
           /\ \A x \in Workers \ {w} : ~Ci!Busy(x)
           /\ circuit.state \in {report[w].read.state, "missing"}
  BY DEF BreakerInv, Ci!BreakerTypeOK
<1>1. circuit'.state \in {circuit.state, "missing"} => Ci!ClosedAfterTest
  BY DEF Ci!ClosedAfterTest
<1>2. Ci!Missing \in Ci!Circuits /\ Ci!Missing.state = "missing" /\ Ci!Missing.failures = 0
  BY DEF Ci!Missing, Ci!Circuits
<1>3. Counted(Ci!Missing, streak)
  BY <1>2 DEF Counted
<1>4. ASSUME NEW w \in Workers, NEW kind \in Ci!Kinds \ {"none"}, Ci!Read(w, kind)
      PROVE  BreakerInv' /\ Ci!ClosedAfterTest
  <2>1. /\ UNCHANGED <<circuit, kept, streak>>
        /\ report'[w] = [kind |-> kind, read |-> circuit, alone |-> \A y \in Workers : ~Ci!Busy(y)]
        /\ \A x \in Workers \ {w} : report'[x] = [report[x] EXCEPT !.alone = ~Ci!Busy(x)]
        /\ report' = [x \in Workers |-> report'[x]]
    BY <1>4 DEF Ci!Read
  <2>2. /\ report' \in [Workers -> [kind : Ci!Kinds, read : Ci!Circuits, alone : BOOLEAN]]
        /\ \A x \in Workers \ {w} :
             /\ report'[x].kind = report[x].kind /\ report'[x].read = report[x].read
             /\ report'[x].alone = ~Ci!Busy(x)
    <3>1. report'[w] \in [kind : Ci!Kinds, read : Ci!Circuits, alone : BOOLEAN]
      BY <1>0, <2>1
    <3>2. ASSUME NEW x \in Workers \ {w}
          PROVE  /\ report'[x] \in [kind : Ci!Kinds, read : Ci!Circuits, alone : BOOLEAN]
                 /\ report'[x].kind = report[x].kind /\ report'[x].read = report[x].read
                 /\ report'[x].alone = ~Ci!Busy(x)
      <4>1. report'[x] = [report[x] EXCEPT !.alone = ~Ci!Busy(x)]
        BY <2>1
      <4>2. (~Ci!Busy(x)) \in BOOLEAN
        OBVIOUS
      <4>3. report[x] \in [kind : Ci!Kinds, read : Ci!Circuits, alone : BOOLEAN]
        BY <1>0
      <4>4. \A b \in BOOLEAN :
              LET rep == [report[x] EXCEPT !.alone = b]
              IN /\ rep \in [kind : Ci!Kinds, read : Ci!Circuits, alone : BOOLEAN]
                 /\ rep.kind = report[x].kind /\ rep.read = report[x].read /\ rep.alone = b
        BY <4>3
      <4>5. QED
        BY <4>1, <4>2, <4>4, Zenon
    <3>3. QED
      BY <2>1, <3>1, <3>2
  <2>6. \A x \in Workers \ {w} : Ci!Busy(x)' <=> Ci!Busy(x)
    BY <2>2 DEF Ci!Busy
  <2>3. Counted(report'[w].read, streak) /\ report'[w].read = circuit
    BY <1>0, <2>1
  <2>4. report'[w].alone => \A x \in Workers : ~Ci!Busy(x)
    BY <2>1
  <2>5. QED
    <3>1. \A x \in Workers : Ci!Busy(x)' => Counted(report'[x].read, streak')
      <4>1. \A x \in Workers \ {w} : Ci!Busy(x)' => Counted(report[x].read, streak)
        BY <1>0, <2>6
      <4>2. QED
        BY <2>1, <2>2, <2>3, <4>1
    <3>2. \A x \in Workers : Ci!Busy(x)' /\ report'[x].alone =>
            /\ x = w /\ \A y \in Workers \ {w} : ~Ci!Busy(y)'
            /\ report'[x].read = circuit
      BY <2>2, <2>3, <2>4, <2>6
    <3>3. Counted(circuit', streak') /\ circuit'.state \in {circuit.state, "missing"}
      BY <1>0, <2>1
    <3>4. QED
      BY <1>0, <1>1, <2>1, <2>2, <3>1, <3>2, <3>3 DEF BreakerInv, Ci!BreakerTypeOK
<1>5. ASSUME NEW w \in Workers, Ci!Write(w) PROVE BreakerInv' /\ Ci!ClosedAfterTest
  <2> DEFINE known == IF report[w].read.state = "missing" THEN Ci!Fresh ELSE report[w].read
             kind == report[w].kind
             Restarts == kind = "success" /\ report[w].alone /\ report[w].read.state # "open"
  <2>1. /\ Ci!Busy(w) /\ circuit' = Ci!Result(kind, report[w].read) /\ kept' = Expiry
        /\ report' = [report EXCEPT ![w] = Ci!NoReport]
        /\ streak' = IF kind = "failure" THEN Ci!Cap(streak + 1)
                     ELSE IF Restarts THEN 0 ELSE streak
    BY <1>5 DEF Ci!Write
  <2>2. /\ known \in Ci!Circuits /\ known.state # "missing" /\ Counted(known, streak)
        /\ known.state \in {"closed", report[w].read.state}
        /\ report[w].read.state \in {"missing", known.state}
    <3>1. /\ Ci!Fresh \in Ci!Circuits /\ Ci!Fresh.state = "closed" /\ Ci!Fresh.failures = 0
      BY <1>2 DEF Ci!Fresh, Ci!Circuits
    <3>2. Counted(Ci!Fresh, streak)
      BY <1>0, <3>1 DEF Counted
    <3>3. QED
      BY <1>0, <2>1, <3>1, <3>2
  <2>3. /\ report' \in [Workers -> [kind : Ci!Kinds, read : Ci!Circuits, alone : BOOLEAN]]
        /\ ~Ci!Busy(w)' /\ \A x \in Workers \ {w} : report'[x] = report[x]
    BY <1>0, <1>2, <2>1 DEF Ci!NoReport, Ci!Kinds, Ci!Busy
  <2>4. /\ streak' \in 0..MaxCount
        /\ streak' >= streak \/ (Restarts /\ \A x \in Workers \ {w} : ~Ci!Busy(x))
    BY <1>0, <2>1 DEF Ci!Cap
  <2>5. circuit' \in Ci!Circuits /\ Counted(circuit', streak')
    <3>1. CASE kind = "failure"
      BY <1>0, <2>1, <2>2, <3>1, FailureCounts DEF Ci!Result
    <3>2. CASE kind = "success"
      <4>1. circuit' = Ci!Succeeded(known)
        BY <2>1, <3>2 DEF Ci!Result
      <4>2. CASE known.state = "open"
        BY <2>1, <2>2, <3>2, <4>1, <4>2, SuccessCounts
      <4>3. CASE known.state # "open"
        BY <2>2, <2>4, <4>1, <4>3, SuccessCounts DEF Counted
      <4>4. QED
        BY <4>2, <4>3
    <3>3. CASE kind \notin {"failure", "success"}
      <4>1. circuit' = [known EXCEPT !.state = "half_open", !.successes = 0]
        BY <2>1, <3>3 DEF Ci!Result
      <4> HIDE DEF known
      <4>2. circuit' \in Ci!Circuits
        <5>1. 0 \in 0..SuccessThreshold
          OBVIOUS
        <5>2. QED
          BY <2>2, <4>1, <5>1 DEF Ci!Circuits
      <4>3. circuit'.state = "half_open"
        BY <2>2, <4>1 DEF Ci!Circuits
      <4>4. QED
        BY <4>2, <4>3 DEF Counted
    <3>4. QED
      BY <3>1, <3>2, <3>3
  <2>6. \A x \in Workers : Ci!Busy(x)' =>
          /\ x # w /\ Ci!Busy(x) /\ report'[x] = report[x] /\ streak' >= streak
          /\ ~report[x].alone
    BY <1>0, <2>1, <2>3, <2>4 DEF Ci!Busy
  <2>7. \A x \in Workers : Ci!Busy(x)' => Counted(report'[x].read, streak')
    BY <1>0, <2>4, <2>6 DEF Counted, Ci!Circuits
  <2>8. BreakerInv'
    BY <1>0, <2>1, <2>3, <2>4, <2>5, <2>6, <2>7 DEF BreakerInv, Ci!BreakerTypeOK
  <2>9. Ci!ClosedAfterTest
    <3> SUFFICES ASSUME circuit.state = "open", circuit'.state = "closed", report[w].alone
                 PROVE  FALSE
      BY <2>1 DEF Ci!ClosedAfterTest
    <3>1. report[w].read.state = "open" /\ known = report[w].read
      BY <1>0, <2>1
    <3>2. kind = "failure" => circuit'.state \in {"open"}
      BY <1>0, <2>1, <2>2, <3>1, FailureCounts DEF Ci!Result
    <3>3. kind = "success" => circuit'.state = "open"
      BY <2>1, <2>2, <3>1, SuccessCounts DEF Ci!Result
    <3>4. kind \notin {"failure", "success"} => circuit'.state = "half_open"
      BY <2>1, <2>2, <3>1 DEF Ci!Result, Ci!Circuits
    <3>5. QED
      BY <3>2, <3>3, <3>4
  <2>10. QED
    BY <2>8, <2>9
<1>6. CASE Ci!CooldownPasses
  <2>1. \A c \in Ci!Circuits :
          /\ Ci!Cooled(c) \in Ci!Circuits /\ Ci!Cooled(c).state = c.state
          /\ Ci!Cooled(c).failures = c.failures
    BY DEF Ci!Cooled, Ci!Circuits
  <2>2. /\ circuit' \in {Ci!Missing, Ci!Cooled(circuit)} /\ kept' \in 0..Expiry
        /\ streak' = streak
        /\ report' = [w \in Workers |-> [report[w] EXCEPT !.read = Ci!Cooled(report[w].read)]]
    <3>1. circuit' = (IF kept <= 1 THEN Ci!Missing ELSE Ci!Cooled(circuit))
      BY <1>6 DEF Ci!CooldownPasses
    <3>2. kept' = (IF kept = 0 THEN 0 ELSE kept - 1) /\ streak' = streak
      BY <1>6 DEF Ci!CooldownPasses
    <3>3. report' = [w \in Workers |-> [report[w] EXCEPT !.read = Ci!Cooled(report[w].read)]]
      BY <1>6 DEF Ci!CooldownPasses
    <3>4. kept' \in 0..Expiry
      BY <1>0, <3>2
    <3>5. QED
      BY <3>1, <3>2, <3>3, <3>4
  <2>3. /\ circuit' \in Ci!Circuits /\ Counted(circuit', streak)
        /\ circuit'.state \in {circuit.state, "missing"}
    BY <1>0, <1>2, <1>3, <2>1, <2>2 DEF Counted
  <2>4. /\ report' \in [Workers -> [kind : Ci!Kinds, read : Ci!Circuits, alone : BOOLEAN]]
        /\ \A w \in Workers :
             /\ report'[w].kind = report[w].kind
             /\ report'[w].alone = report[w].alone
             /\ report'[w].read.state = report[w].read.state
             /\ report'[w].read.failures = report[w].read.failures
    BY <1>0, <2>1, <2>2
  <2>5. \A w \in Workers : Ci!Busy(w)' <=> Ci!Busy(w)
    BY <2>4 DEF Ci!Busy
  <2>6. \A w \in Workers : Ci!Busy(w)' => Counted(report'[w].read, streak')
    <3> SUFFICES ASSUME NEW w \in Workers, Ci!Busy(w)
                 PROVE  Counted(report'[w].read, streak')
      BY <2>5
    <3>1. Counted(report[w].read, streak) /\ streak' = streak
      BY <1>0, <2>2
    <3>2. /\ report'[w].read.state = report[w].read.state
          /\ report'[w].read.failures = report[w].read.failures
      BY <2>4
    <3>3. QED
      BY <3>1, <3>2 DEF Counted
  <2>7. \A w \in Workers : Ci!Busy(w)' /\ report'[w].alone =>
          /\ \A x \in Workers \ {w} : ~Ci!Busy(x)'
          /\ circuit'.state \in {report'[w].read.state, "missing"}
    BY <1>0, <2>3, <2>4, <2>5
  <2>8. QED
    BY <1>0, <1>1, <2>2, <2>3, <2>4, <2>6, <2>7 DEF BreakerInv, Ci!BreakerTypeOK
<1>7. CASE Ci!ResetCircuit
  BY <1>0, <1>1, <1>2, <1>3, <1>7 DEF Ci!ResetCircuit, BreakerInv, Ci!BreakerTypeOK, Ci!Busy
<1>8. CASE UNCHANGED <<circuit, kept, report, streak>>
  BY <1>0, <1>1, <1>8 DEF BreakerInv, Ci!BreakerTypeOK, Ci!Busy
<1>9. QED
  BY <1>4, <1>5, <1>6, <1>7, <1>8 DEF Ci!Next

\* An open circuit was opened by its failures, and is closed after a test.
THEOREM BreakerKeepsItsCycle == Spec => BreakerCycle
<1>1. Init => BreakerInv
  BY BreakerStart
<1>2. BreakerInv /\ [Next]_vars => BreakerInv' /\ Ci!ClosedAfterTest
  BY BreakerStep
<1>3. BreakerInv' /\ Ci!ClosedAfterTest => Ci!BreakerKeepsCycle
  BY DEF BreakerInv, Counted, Ci!OpenedByFailures, Ci!BreakerKeepsCycle
<1>4. QED
  BY <1>1, <1>2, <1>3, PTL DEF Spec, BreakerCycle
-----------------------------------------------------------------------------
(* SecretRotation.                                                         *)

LEMMA RotationMoves ==
    [Next]_vars => [Se!Next]_<<hub, vendor, rotation, started, crossed, signed>>
BY DEF Next, vars, Money, Outward, Inward, StillInward, StillRotation

Sides == {"hub", "vendor"}
OwnSecret(side) == IF side = "hub" THEN hub.current ELSE vendor.current

\* The pushes that the property is about: the second rotation since they were
\* signed has not started.
Recent(side) == signed[side] # Se!NoPush /\ started <= signed[side].sent + 1

\* A rotation under way made a secret later than the one it found.
RotationsAreLater ==
    \A a \in Admins : rotation[a].phase # "none" =>
        /\ rotation[a].secret \in 1..started
        /\ rotation[a].read \in 0..(rotation[a].secret - 1)

\* A push signed when no rotation ran is signed with what is still current, until
\* the next one starts.
SignedWithOwn ==
    \A side \in Sides : signed[side] # Se!NoPush =>
        /\ signed[side].sent <= started
        /\ signed[side].sent = started => ~Se!Rotating /\ signed[side].secret = OwnSecret(side)

\* Before the hub flips both sides sign with one secret, ...
Unflipped ==
    /\ hub.current = vendor.current
    /\ \A side \in Sides : Recent(side) => signed[side].secret = hub.current
    /\ \A a \in Admins :
         /\ rotation[a].phase # "flipped"
         /\ rotation[a].phase # "none" => rotation[a].read = hub.current
         /\ rotation[a].phase = "staged" => vendor.next = rotation[a].secret
\* ... after it the vendor has the hub's as its next one and signs with the hub's
\* old one, ...
Flipped ==
    /\ hub.current = vendor.next /\ hub.old = vendor.current /\ hub.current # hub.old
    /\ hub.current # Se!None
    /\ Recent("hub") => signed["hub"].secret \in {hub.current, hub.old}
    /\ Recent("vendor") => signed["vendor"].secret = hub.old
    /\ \A a \in Admins : rotation[a].phase \in {"none", "flipped"}
\* ... and after the promotion both have both.
Promoted ==
    /\ hub.current = vendor.current /\ hub.old = vendor.old
    /\ \A side \in Sides : Recent(side) => signed[side].secret \in {hub.current, hub.old}
    /\ \A a \in Admins : rotation[a].phase = "none"

OneRotates ==
    \A a, b \in Admins : rotation[a].phase # "none" /\ rotation[b].phase # "none" => a = b

RotationInv ==
    /\ Se!RotationTypeOK /\ RotationsAreLater /\ SignedWithOwn
    /\ hub.current <= started
    /\ ~crossed => OneRotates /\ (Unflipped \/ Flipped \/ Promoted)

LEMMA RotationStart == Init => RotationInv
<1> SUFFICES ASSUME Init PROVE RotationInv
  OBVIOUS
<1>1. /\ hub = [current |-> 0, old |-> -1] /\ vendor = [current |-> 0, next |-> -1, old |-> -1]
      /\ rotation = [a \in Admins |-> Se!NotRotating] /\ started = 0 /\ crossed = FALSE
      /\ signed = [side \in Sides |-> Se!NoPush]
  BY DEF Init, Se!Init, Se!None, Sides
<1>2. Se!RotationTypeOK
  <2>1. 0 \in Se!Secrets /\ -1 \in Se!Secrets \cup {Se!None}
    BY RotationAssumption DEF Se!Secrets, Se!None
  <2>2. hub \in [current : Se!Secrets, old : Se!Secrets \cup {Se!None}]
    BY <1>1, <2>1
  <2>3. vendor \in [current : Se!Secrets, next : Se!Secrets \cup {Se!None},
                     old : Se!Secrets \cup {Se!None}]
    BY <1>1, <2>1
  <2>4. Se!NotRotating \in [phase : Se!Phases, secret : Se!Secrets \cup {Se!None},
                            read : Se!Secrets \cup {Se!None}]
    BY DEF Se!NotRotating, Se!Phases
  <2>5. Se!NoPush \in [secret : Se!Secrets \cup {Se!None}, sent : Se!Secrets \cup {Se!None}]
    BY DEF Se!NoPush
  <2>6. QED
    BY <1>1, <2>1, <2>2, <2>3, <2>4, <2>5 DEF Se!RotationTypeOK, Sides
<1>3. \A a \in Admins : rotation[a].phase = "none"
  BY <1>1 DEF Se!NotRotating
<1>4. \A side \in Sides : signed[side] = Se!NoPush
  BY <1>1
<1>5. hub.current = 0 /\ vendor.current = 0
  BY <1>1
<1>6. QED
  BY <1>1, <1>2, <1>3, <1>4, <1>5
     DEF RotationInv, RotationsAreLater, SignedWithOwn, OneRotates, Unflipped, Recent

LEMMA RotationStep == RotationInv /\ [Next]_vars => RotationInv'
<1> SUFFICES ASSUME RotationInv, [Se!Next]_<<hub, vendor, rotation, started, crossed, signed>>
             PROVE  RotationInv'
  BY RotationMoves
<1> USE RotationAssumption
<1>0. /\ Se!RotationTypeOK /\ RotationsAreLater /\ SignedWithOwn
      /\ started \in 0..MaxSecret /\ hub.current \in 0..started
      /\ ~crossed => OneRotates /\ (Unflipped \/ Flipped \/ Promoted)
  BY DEF RotationInv, Se!RotationTypeOK, Se!Secrets
<1>1. ASSUME NEW a \in Admins, Se!MakeSecret(a) PROVE RotationInv'
  <2>1. /\ rotation[a].phase = "none" /\ started < MaxSecret /\ started' = started + 1
        /\ rotation' = [rotation EXCEPT ![a] =
               [phase |-> "made", secret |-> started + 1, read |-> hub.current]]
        /\ crossed' = (crossed \/ hub.current # vendor.current \/ Se!Rotating)
        /\ UNCHANGED <<hub, vendor, signed>>
    BY <1>1 DEF Se!MakeSecret, Se!Unpromoted
  <2>2. /\ rotation'[a] = [phase |-> "made", secret |-> started + 1, read |-> hub.current]
        /\ \A b \in Admins \ {a} : rotation'[b] = rotation[b]
    BY <1>0, <2>1 DEF Se!RotationTypeOK
  <2>3. Se!RotationTypeOK'
    BY <1>0, <2>1 DEF Se!RotationTypeOK, Se!Secrets, Se!Phases
  <2>4. RotationsAreLater'
    BY <1>0, <2>1, <2>2 DEF RotationsAreLater
  <2>5. SignedWithOwn' /\ \A side \in Sides :
          Recent(side)' => signed[side] # Se!NoPush /\ signed[side].sent = started
    <3>1. \A side \in Sides : signed[side].sent \in Int
      BY <1>0 DEF Se!RotationTypeOK, Se!Secrets, Se!None, Sides
    <3>2. QED
      BY <1>0, <2>1, <3>1 DEF SignedWithOwn, Recent, Sides
  <2>6. ~crossed' => OneRotates' /\ Unflipped'
    <3> SUFFICES ASSUME ~crossed' PROVE OneRotates' /\ Unflipped'
      OBVIOUS
    <3>1. hub.current = vendor.current /\ ~Se!Rotating
      BY <2>1
    <3>2. \A b \in Admins : rotation[b].phase = "none"
      BY <3>1 DEF Se!Rotating
    <3>3. OneRotates'
      BY <2>2, <3>2 DEF OneRotates
    <3>4. \A side \in Sides : Recent(side)' => signed'[side].secret = hub'.current
      BY <1>0, <2>1, <2>5, <3>1 DEF SignedWithOwn, OwnSecret
    <3>5. QED
      BY <2>1, <2>2, <3>1, <3>2, <3>3, <3>4 DEF Unflipped
  <2>7. hub'.current <= started'
    BY <1>0, <2>1
  <2>8. QED
    BY <2>3, <2>4, <2>5, <2>6, <2>7 DEF RotationInv
<1>2. ASSUME NEW a \in Admins, NEW answered \in BOOLEAN, Se!StageReaches(a, answered)
      PROVE  RotationInv'
  <2>1. /\ rotation[a].phase = "made"
        /\ vendor' = [vendor EXCEPT !.next = rotation[a].secret]
        /\ rotation' = [rotation EXCEPT ![a] =
               IF answered THEN [rotation[a] EXCEPT !.phase = "staged"] ELSE Se!NotRotating]
        /\ UNCHANGED <<hub, started, crossed, signed>>
    BY <1>2 DEF Se!StageReaches
  <2>2. /\ vendor'.current = vendor.current /\ vendor'.next = rotation[a].secret
        /\ \A b \in Admins \ {a} : rotation'[b] = rotation[b]
        /\ \/ /\ rotation'[a].phase = "staged" /\ rotation'[a].secret = rotation[a].secret
              /\ rotation'[a].read = rotation[a].read
           \/ rotation'[a].phase = "none"
    BY <1>0, <2>1 DEF Se!RotationTypeOK, Se!NotRotating
  <2>3. Se!RotationTypeOK'
    BY <1>0, <2>1 DEF Se!RotationTypeOK, Se!Secrets, Se!Phases, Se!NotRotating, Se!None
  <2>4. RotationsAreLater'
    BY <1>0, <2>1, <2>2 DEF RotationsAreLater
  <2>5. Se!Rotating
    BY <2>1 DEF Se!Rotating
  <2>6. SignedWithOwn' /\ \A side \in Sides : Recent(side)' <=> Recent(side)
    BY <1>0, <2>1, <2>5 DEF SignedWithOwn, Recent
  <2>7. ~crossed' => OneRotates' /\ Unflipped'
    <3> SUFFICES ASSUME ~crossed PROVE OneRotates' /\ Unflipped'
      BY <2>1
    <3>1. OneRotates /\ Unflipped
      BY <1>0, <2>1 DEF Flipped, Promoted
    <3>2. \A b \in Admins \ {a} : rotation[b].phase = "none"
      BY <2>1, <3>1 DEF OneRotates
    <3>3. OneRotates'
      BY <2>2, <3>2 DEF OneRotates
    <3>4. QED
      BY <2>1, <2>2, <2>6, <3>1, <3>2, <3>3 DEF Unflipped
  <2>8. QED
    BY <1>0, <2>1, <2>3, <2>4, <2>6, <2>7 DEF RotationInv
<1>3. ASSUME NEW a \in Admins, Se!Flip(a) PROVE RotationInv'
  <2>1. /\ rotation[a].phase = "staged"
        /\ hub' = [current |-> rotation[a].secret, old |-> rotation[a].read]
        /\ rotation' = [rotation EXCEPT ![a].phase = "flipped"]
        /\ UNCHANGED <<vendor, started, crossed, signed>>
    BY <1>3 DEF Se!Flip, Se!MayFlip
  <2>2. /\ rotation'[a].phase = "flipped" /\ rotation'[a].secret = rotation[a].secret
        /\ rotation'[a].read = rotation[a].read
        /\ \A b \in Admins \ {a} : rotation'[b] = rotation[b]
    BY <1>0, <2>1 DEF Se!RotationTypeOK
  <2>3. /\ rotation[a].secret \in 1..started /\ rotation[a].read \in 0..started
        /\ rotation[a].read < rotation[a].secret
    BY <1>0, <2>1 DEF RotationsAreLater
  <2>4. Se!RotationTypeOK'
    BY <1>0, <2>1, <2>3 DEF Se!RotationTypeOK, Se!Secrets, Se!Phases
  <2>5. RotationsAreLater'
    BY <1>0, <2>1, <2>2 DEF RotationsAreLater
  <2>6. Se!Rotating
    BY <2>1 DEF Se!Rotating
  <2>7. SignedWithOwn' /\ \A side \in Sides : Recent(side)' <=> Recent(side)
    BY <1>0, <2>1, <2>6 DEF SignedWithOwn, Recent
  <2>8. ~crossed' => OneRotates' /\ Flipped'
    <3> SUFFICES ASSUME ~crossed PROVE OneRotates' /\ Flipped'
      BY <2>1
    <3>1. OneRotates /\ Unflipped
      BY <1>0, <2>1 DEF Flipped, Promoted
    <3>2. \A b \in Admins \ {a} : rotation[b].phase = "none"
      BY <2>1, <3>1 DEF OneRotates
    <3>3. OneRotates'
      BY <2>2, <3>2 DEF OneRotates
    <3>4. /\ hub'.current = rotation[a].secret /\ hub'.old = hub.current
          /\ hub.current = vendor.current /\ vendor.next = rotation[a].secret
      BY <2>1, <3>1 DEF Unflipped
    <3>5. \A side \in Sides : Recent(side)' => signed'[side].secret = hub'.old
      BY <2>1, <2>7, <3>1, <3>4 DEF Unflipped
    <3>6. hub'.current # hub'.old /\ hub'.current # Se!None
      BY <2>1, <2>3 DEF Se!None
    <3>7. QED
      BY <2>1, <2>2, <3>2, <3>3, <3>4, <3>5, <3>6 DEF Flipped, Sides
  <2>9. hub'.current <= started'
    BY <2>1, <2>3
  <2>10. QED
    BY <2>4, <2>5, <2>7, <2>8, <2>9 DEF RotationInv
<1>4. ASSUME NEW a \in Admins, Se!PromoteReaches(a) PROVE RotationInv'
  <2>1. /\ rotation[a].phase = "flipped"
        /\ vendor' = IF vendor.next = Se!None THEN vendor
                     ELSE [current |-> vendor.next, next |-> Se!None, old |-> vendor.current]
        /\ rotation' = [rotation EXCEPT ![a] = Se!NotRotating]
        /\ UNCHANGED <<hub, started, crossed, signed>>
    BY <1>4 DEF Se!PromoteReaches
  <2>2. rotation'[a].phase = "none" /\ \A b \in Admins \ {a} : rotation'[b] = rotation[b]
    BY <1>0, <2>1 DEF Se!RotationTypeOK, Se!NotRotating
  <2>3. Se!RotationTypeOK'
    BY <1>0, <2>1 DEF Se!RotationTypeOK, Se!Secrets, Se!Phases, Se!NotRotating, Se!None
  <2>4. RotationsAreLater'
    BY <1>0, <2>1, <2>2 DEF RotationsAreLater
  <2>5. Se!Rotating
    BY <2>1 DEF Se!Rotating
  <2>6. SignedWithOwn' /\ \A side \in Sides : Recent(side)' <=> Recent(side)
    BY <1>0, <2>1, <2>5 DEF SignedWithOwn, Recent
  <2>7. ~crossed' => OneRotates' /\ Promoted'
    <3> SUFFICES ASSUME ~crossed PROVE OneRotates' /\ Promoted'
      BY <2>1
    <3>1. OneRotates /\ Flipped
      BY <1>0, <2>1 DEF Unflipped, Promoted
    <3>2. \A b \in Admins : rotation'[b].phase = "none"
      BY <2>1, <2>2, <3>1 DEF OneRotates
    <3>3. vendor'.current = hub.current /\ vendor'.old = hub.old
      BY <2>1, <3>1 DEF Flipped
    <3>4. \A side \in Sides : Recent(side)' => signed'[side].secret \in {hub'.current, hub'.old}
      BY <2>1, <2>6, <3>1 DEF Flipped, Sides
    <3>5. QED
      BY <2>1, <3>2, <3>3, <3>4 DEF Promoted, OneRotates
  <2>8. QED
    BY <1>0, <2>1, <2>3, <2>4, <2>6, <2>7 DEF RotationInv
<1>5. ASSUME NEW a \in Admins, Se!Abandon(a) PROVE RotationInv'
  <2>1. /\ rotation[a].phase # "none" /\ rotation' = [rotation EXCEPT ![a] = Se!NotRotating]
        /\ UNCHANGED <<hub, vendor, started, crossed, signed>>
    BY <1>5 DEF Se!Abandon
  <2>2. rotation'[a].phase = "none" /\ \A b \in Admins \ {a} : rotation'[b] = rotation[b]
    BY <1>0, <2>1 DEF Se!RotationTypeOK, Se!NotRotating
  <2>3. Se!RotationTypeOK'
    BY <1>0, <2>1 DEF Se!RotationTypeOK, Se!Secrets, Se!Phases, Se!NotRotating, Se!None
  <2>4. RotationsAreLater'
    BY <1>0, <2>1, <2>2 DEF RotationsAreLater
  <2>5. Se!Rotating
    BY <2>1 DEF Se!Rotating
  <2>6. SignedWithOwn' /\ \A side \in Sides : Recent(side)' <=> Recent(side)
    BY <1>0, <2>1, <2>5 DEF SignedWithOwn, Recent
  <2>7. OneRotates => OneRotates'
    BY <2>2 DEF OneRotates
  <2>8. (Unflipped => Unflipped') /\ (Flipped => Flipped') /\ (Promoted => Promoted')
    BY <2>1, <2>2, <2>6 DEF Unflipped, Flipped, Promoted, Sides
  <2>9. QED
    BY <1>0, <2>1, <2>3, <2>4, <2>6, <2>7, <2>8 DEF RotationInv
<1>6. ASSUME NEW side \in Sides, Se!Sign(side) PROVE RotationInv'
  <2>1. /\ UNCHANGED <<hub, vendor, rotation, started, crossed>>
        /\ signed' = [signed EXCEPT ![side] =
              [secret |-> OwnSecret(side), sent |-> IF Se!Rotating THEN started - 1 ELSE started]]
    BY <1>6 DEF Se!Sign, OwnSecret
  <2>2. /\ signed'[side].secret = OwnSecret(side)
        /\ signed'[side].sent = (IF Se!Rotating THEN started - 1 ELSE started)
        /\ \A other \in Sides \ {side} : signed'[other] = signed[other]
    BY <1>0, <2>1 DEF Se!RotationTypeOK, Sides
  <2>3. Se!Rotating => started >= 1
    BY <1>0 DEF Se!Rotating, RotationsAreLater
  <2>4. Se!RotationTypeOK'
    <3>1. OwnSecret(side) \in Se!Secrets
      BY <1>0 DEF OwnSecret, Se!RotationTypeOK
    <3>2. (IF Se!Rotating THEN started - 1 ELSE started) \in Se!Secrets
      BY <1>0, <2>3 DEF Se!Secrets
    <3>3. QED
      BY <1>0, <2>1, <3>1, <3>2 DEF Se!RotationTypeOK
  <2>5. RotationsAreLater' /\ (OneRotates => OneRotates') /\ (Se!Rotating' <=> Se!Rotating)
    BY <1>0, <2>1 DEF RotationsAreLater, OneRotates, Se!Rotating
  <2>6. SignedWithOwn'
    <3> SUFFICES ASSUME NEW other \in Sides, signed'[other] # Se!NoPush
                 PROVE  /\ signed'[other].sent <= started
                        /\ signed'[other].sent = started =>
                              ~Se!Rotating /\ signed'[other].secret = OwnSecret(other)
      BY <2>1, <2>5 DEF SignedWithOwn, OwnSecret
    <3>1. CASE other = side
      BY <1>0, <2>2, <3>1
    <3>2. CASE other # side
      BY <1>0, <2>2, <3>2 DEF SignedWithOwn
    <3>3. QED
      BY <3>1, <3>2
  <2>7. /\ \A other \in Sides \ {side} : Recent(other)' <=> Recent(other)
        /\ OwnSecret("hub") = hub.current /\ OwnSecret("vendor") = vendor.current
    BY <2>1, <2>2 DEF Recent, OwnSecret
  <2>8. (Unflipped => Unflipped') /\ (Flipped => Flipped') /\ (Promoted => Promoted')
    <3>1. Unflipped => Unflipped'
      BY <2>1, <2>2, <2>7 DEF Unflipped, OwnSecret
    <3>2. Flipped => Flipped'
      BY <2>1, <2>2, <2>7 DEF Flipped, Sides
    <3>3. Promoted => Promoted'
      BY <2>1, <2>2, <2>7 DEF Promoted, OwnSecret
    <3>4. QED
      BY <3>1, <3>2, <3>3
  <2>9. QED
    BY <1>0, <2>1, <2>4, <2>5, <2>6, <2>8 DEF RotationInv
<1>7. ASSUME NEW side \in Sides, Se!Verify(side) PROVE RotationInv'
  <2>1. /\ UNCHANGED <<hub, vendor, rotation, started, crossed>>
        /\ signed' = [signed EXCEPT ![side] = Se!NoPush]
    BY <1>7 DEF Se!Verify
  <2>2. /\ signed'[side] = Se!NoPush
        /\ \A other \in Sides \ {side} : signed'[other] = signed[other]
    BY <1>0, <2>1 DEF Se!RotationTypeOK, Sides
  <2>3. Se!RotationTypeOK'
    BY <1>0, <2>1 DEF Se!RotationTypeOK, Se!NoPush
  <2>4. /\ RotationsAreLater' /\ (OneRotates => OneRotates') /\ (Se!Rotating' <=> Se!Rotating)
        /\ \A other \in Sides : OwnSecret(other)' = OwnSecret(other)
    BY <1>0, <2>1 DEF RotationsAreLater, OneRotates, Se!Rotating, OwnSecret
  <2>5. SignedWithOwn'
    BY <1>0, <2>1, <2>2, <2>4 DEF SignedWithOwn
  <2>6. \A other \in Sides :
          Recent(other)' => Recent(other) /\ signed'[other] = signed[other]
    BY <2>1, <2>2 DEF Recent
  <2>7. (Unflipped => Unflipped') /\ (Flipped => Flipped') /\ (Promoted => Promoted')
    BY <2>1, <2>6 DEF Unflipped, Flipped, Promoted, Sides
  <2>8. QED
    BY <1>0, <2>1, <2>3, <2>4, <2>5, <2>7 DEF RotationInv
<1>8. CASE UNCHANGED <<hub, vendor, rotation, started, crossed, signed>>
  BY <1>0, <1>8
     DEF RotationInv, Se!RotationTypeOK, RotationsAreLater, SignedWithOwn, Se!Rotating, OwnSecret,
         OneRotates, Unflipped, Flipped, Promoted, Recent
<1>9. QED
  BY <1>1, <1>2, <1>3, <1>4, <1>5, <1>6, <1>7, <1>8 DEF Se!Next, Sides

\* No push is rejected during a rotation that starts after the last was promoted.
THEOREM RotationAlwaysKeepsPushes == Spec => []RotationKeepsPushes
<1>1. Init => RotationInv
  BY RotationStart
<1>2. RotationInv /\ [Next]_vars => RotationInv'
  BY RotationStep
<1>3. RotationInv => RotationKeepsPushes
  BY DEF RotationInv, RotationKeepsPushes, Se!RotationKeepsPushes, Se!Accepted, Se!HubAccepts,
         Se!VendorAccepts, Unflipped, Flipped, Promoted, Recent, Sides
<1>4. QED
  BY <1>1, <1>2, <1>3, PTL DEF Spec

-----------------------------------------------------------------------------
(* Payouts.                                                                *)

Payout == [status : Statuses \cup {"none", "deleted"}, total : SUBSET Fulfilments]

PayoutShape ==
    /\ payable \subseteq Fulfilments
    /\ link \in [Fulfilments -> PayoutIds \cup {NoPayout}]
    /\ payouts \in [PayoutIds -> Payout]
    /\ \A r \in Requests : request[r].payout \in PayoutIds \cup {NoPayout}
    /\ \A r \in Requests : request[r].selected \subseteq Fulfilments
    /\ \A r \in Requests : \A f \in request[r].selected : request[r].seen[f] = NoPayout
    /\ DOMAIN request = Requests
    /\ races \in Nat

\* The payouts that count f without having its claim.
Beside(f) == {p \in PayoutIds : p # link[f] /\ f \in payouts[p].total}

\* Each of them lost its claim to a calculation that overwrote it.
CountedBeside == \A f \in Fulfilments : Cardinality(Beside(f)) <= races

PayoutInv == PayoutShape /\ CountedBeside /\ ClaimsAreHeld

-----------------------------------------------------------------------------
LEMMA RequestStep ==
    ASSUME PayoutShape, NEW r \in Requests, NEW p \in PayoutIds, Calculate(r, p)
    PROVE  PayoutShape' /\ UNCHANGED <<link, payouts, races>>
  <1> DEFINE new == [payout |-> p, selected |-> Outstanding,
                     seen |-> [f \in Fulfilments |-> IF f \in Outstanding THEN link[f] ELSE NoPayout]]
  <1>1. request' = [request EXCEPT ![r] = new] /\ UNCHANGED <<link, payouts, races, payable>>
    BY DEF Calculate
  <1>2. Outstanding \subseteq Fulfilments /\ \A f \in Outstanding : link[f] = NoPayout
    BY DEF Outstanding, PayoutShape
  <1>3. DOMAIN request' = Requests /\ request'[r] = new
        /\ \A q \in Requests \ {r} : request'[q] = request[q]
    BY <1>1 DEF PayoutShape
  <1>4. /\ new.payout \in PayoutIds
        /\ new.selected \subseteq Fulfilments
        /\ \A f \in new.selected : new.seen[f] = NoPayout
    BY <1>2
  <1> QED BY <1>1, <1>3, <1>4 DEF PayoutShape

\* The request is over, and what it did not write stays.
LEMMA RequestOver ==
    ASSUME PayoutShape, NEW r \in Requests, request' = [request EXCEPT ![r] = Waiting]
    PROVE  /\ DOMAIN request' = Requests
           /\ \A q \in Requests : /\ request'[q].payout \in PayoutIds \cup {NoPayout}
                                  /\ request'[q].selected \subseteq Fulfilments
                                  /\ \A f \in request'[q].selected : request'[q].seen[f] = NoPayout
  BY DEF PayoutShape, Waiting

LEMMA FewerBeside ==
    ASSUME NEW S, NEW T, IsFiniteSet(T), S \subseteq T, NEW n \in Nat, Cardinality(T) <= n
    PROVE  Cardinality(S) <= n
  BY FS_Subset, FS_CardinalityType

LEMMA OneMoreBeside ==
    ASSUME NEW S, NEW T, NEW x, IsFiniteSet(T), S \subseteq T \cup {x}, NEW n \in Nat,
           Cardinality(T) <= n
    PROVE  Cardinality(S) <= n + 1
  <1>1. Cardinality(T) \in Nat
    BY FS_CardinalityType
  <1>2. IsFiniteSet(T \cup {x})
    BY FS_AddElement
  <1>3. Cardinality(T \cup {x}) = Cardinality(T) \/ Cardinality(T \cup {x}) = Cardinality(T) + 1
    BY FS_AddElement
  <1>4. Cardinality(S) <= Cardinality(T \cup {x}) /\ Cardinality(S) \in Nat
    BY <1>2, FS_Subset, FS_CardinalityType
  <1> QED BY <1>1, <1>3, <1>4

LEMMA ClaimStep ==
    ASSUME IsFiniteSet(PayoutIds), NoPayout \notin PayoutIds, PayoutInv, NEW r \in Requests, Claim(r)
    PROVE  PayoutInv'
  <1> DEFINE p == request[r].payout
             chosen == request[r].selected
  <1>1. /\ p \in PayoutIds /\ p # NoPayout
        /\ request' = [request EXCEPT ![r] = Waiting]
    BY DEF Claim, PayoutInv, PayoutShape
  <1>2. /\ DOMAIN request' = Requests
        /\ \A q \in Requests : /\ request'[q].payout \in PayoutIds \cup {NoPayout}
                               /\ request'[q].selected \subseteq Fulfilments
                               /\ \A f \in request'[q].selected : request'[q].seen[f] = NoPayout
    BY <1>1, RequestOver DEF PayoutInv
  <1>3. \A f \in Fulfilments : IsFiniteSet(Beside(f))
    BY FS_Subset DEF Beside
  <1>4. CASE ~Saves(p)
    <2>1. UNCHANGED <<payable, link, payouts, races>>
      BY <1>4 DEF Claim
    <2> QED BY <1>2, <2>1 DEF PayoutInv, PayoutShape, CountedBeside, Beside, ClaimsAreHeld, Exists
  <1>5. CASE Saves(p)
    <2> DEFINE was == payouts[p].status
               filled == [status |-> IF was = "none" THEN "Draft" ELSE was, total |-> chosen]
    <2>0. payable' = payable
      BY DEF Claim
    <2>1. /\ races' = races + (IF Overwrites(r) THEN 1 ELSE 0)
          /\ payouts' = [payouts EXCEPT ![p] = filled]
          /\ link' = [f \in Fulfilments |-> IF f \in chosen THEN p ELSE link[f]]
      BY <1>5 DEF Claim
    <2>2. was \in Statuses \cup {"none"} /\ chosen \subseteq Fulfilments
      BY <1>1, <1>5 DEF Saves, PayoutInv, PayoutShape, Payout
    <2>3. filled \in Payout /\ filled.status \in Statuses /\ filled.total = chosen
      BY <2>2 DEF Payout, Statuses
    <2> HIDE DEF filled
    <2>4. /\ payouts' \in [PayoutIds -> Payout] /\ payouts'[p] = filled
          /\ \A q \in PayoutIds \ {p} : payouts'[q] = payouts[q]
      BY <1>1, <2>1, <2>3 DEF PayoutInv, PayoutShape
    <2>5. races \in Nat /\ races' \in Nat /\ races <= races'
      BY <2>1 DEF PayoutInv, PayoutShape
    <2>6. link' \in [Fulfilments -> PayoutIds \cup {NoPayout}]
      BY <1>1, <2>1 DEF PayoutInv, PayoutShape
    <2>7. PayoutShape'
      BY <1>2, <2>0, <2>4, <2>5, <2>6 DEF PayoutShape, PayoutInv
    <2>8. ClaimsAreHeld'
      <3>1. payouts'[p].status \in Statuses
        BY <2>3, <2>4
      <3>2. \A q \in PayoutIds : payouts[q].status \in Statuses => payouts'[q].status \in Statuses
        BY <2>3, <2>4
      <3>3. \A f \in Fulfilments :
               link'[f] = p \/ (link'[f] = link[f] /\ link[f] \in PayoutIds \cup {NoPayout})
        BY <2>1 DEF PayoutInv, PayoutShape
      <3> QED BY <3>1, <3>2, <3>3 DEF ClaimsAreHeld, PayoutInv, Exists
    <2>9. ASSUME NEW f \in Fulfilments PROVE Cardinality(Beside(f)') <= races'
      <3>1. Cardinality(Beside(f)) <= races
        BY DEF PayoutInv, CountedBeside
      <3>2. CASE f \notin chosen
        <4>1. Beside(f)' \subseteq Beside(f)
          BY <2>1, <2>3, <2>4, <3>2 DEF Beside
        <4>2. Cardinality(Beside(f)') <= races
          BY <1>3, <2>5, <3>1, <4>1, FewerBeside
        <4> QED BY <1>3, <2>5, <4>1, <4>2, FS_Subset, FS_CardinalityType
      <3>3. CASE f \in chosen /\ link[f] = NoPayout
        <4>1. Beside(f)' \subseteq Beside(f) \cup {NoPayout}
          BY <2>1, <2>4, <3>3 DEF Beside
        <4>2. Beside(f)' \subseteq Beside(f)
          BY <4>1 DEF Beside
        <4>3. Cardinality(Beside(f)') <= races
          BY <1>3, <2>5, <3>1, <4>2, FewerBeside
        <4> QED BY <1>3, <2>5, <4>2, <4>3, FS_Subset, FS_CardinalityType
      <3>4. CASE f \in chosen /\ link[f] # NoPayout
        <4>1. request[r].seen[f] = NoPayout
          BY <3>4 DEF PayoutInv, PayoutShape
        <4>2. Overwrites(r)
          BY <3>4, <4>1 DEF Overwrites
        <4>3. races' = races + 1
          BY <2>1, <2>5, <4>2
        <4>4. Beside(f)' \subseteq Beside(f) \cup {link[f]}
          BY <2>1, <2>4, <3>4 DEF Beside
        <4> QED BY <1>3, <2>5, <3>1, <4>3, <4>4, OneMoreBeside
      <3> QED BY <3>2, <3>3, <3>4
    <2>10. CountedBeside'
      BY <2>9 DEF CountedBeside
    <2> QED BY <2>7, <2>8, <2>10 DEF PayoutInv
  <1> QED BY <1>4, <1>5
LEMMA DeleteStep ==
    ASSUME IsFiniteSet(PayoutIds), NoPayout \notin PayoutIds, PayoutInv,
           NEW p \in PayoutIds, Delete(p)
    PROVE  PayoutInv'
  <1> DEFINE gone == [status |-> "deleted", total |-> {}]
  <1>1. /\ payouts' = [payouts EXCEPT ![p] = gone]
        /\ link' = [f \in Fulfilments |-> IF link[f] = p THEN NoPayout ELSE link[f]]
        /\ UNCHANGED <<payable, request, races>>
    BY DEF Delete
  <1>2. /\ payouts'[p] = gone /\ \A q \in PayoutIds \ {p} : payouts'[q] = payouts[q]
        /\ payouts' \in [PayoutIds -> Payout]
    BY <1>1 DEF PayoutInv, PayoutShape, Payout
  <1>3. PayoutShape'
    BY <1>1, <1>2 DEF PayoutInv, PayoutShape
  <1>4. ClaimsAreHeld'
    BY <1>1, <1>2 DEF PayoutInv, PayoutShape, ClaimsAreHeld, Exists
  <1>5. ASSUME NEW f \in Fulfilments PROVE Cardinality(Beside(f)') <= races'
    <2>1. Beside(f)' \subseteq Beside(f)
      BY <1>1, <1>2 DEF Beside
    <2>2. IsFiniteSet(Beside(f)) /\ Cardinality(Beside(f)) <= races /\ races \in Nat
      BY FS_Subset, PayoutsAssumption DEF Beside, PayoutInv, CountedBeside, PayoutShape
    <2> QED BY <1>1, <2>1, <2>2, FewerBeside
  <1> QED BY <1>3, <1>4, <1>5 DEF PayoutInv, CountedBeside

\* MarkPaid and ApplySettlementReceived.
LEMMA StatusStep ==
    ASSUME PayoutInv, NEW p \in PayoutIds, MarkPaid(p) \/ ApplySettlementReceived(p)
    PROVE  PayoutInv'
  <1>1. PICK s \in {"Paid", "Confirmed"} : payouts' = [payouts EXCEPT ![p].status = s]
    BY DEF MarkPaid, ApplySettlementReceived
  <1>2. UNCHANGED <<payable, link, request, races>>
    BY DEF MarkPaid, ApplySettlementReceived
  <1>3. /\ payouts' \in [PayoutIds -> Payout]
        /\ \A q \in PayoutIds : payouts'[q].total = payouts[q].total
        /\ \A q \in PayoutIds : payouts'[q].status \in {payouts[q].status, s}
    BY <1>1 DEF PayoutInv, PayoutShape, Payout, Statuses
  <1>4. PayoutShape' /\ ClaimsAreHeld'
    BY <1>2, <1>3 DEF PayoutInv, PayoutShape, ClaimsAreHeld, Exists, Statuses
  <1>5. \A f \in Fulfilments : Beside(f)' = Beside(f)
    BY <1>2, <1>3 DEF Beside
  <1> QED BY <1>2, <1>4, <1>5 DEF PayoutInv, CountedBeside

LEMMA PayoutStep ==
    ASSUME IsFiniteSet(PayoutIds), NoPayout \notin PayoutIds, PayoutInv, [PayoutsNext]_payoutVars
    PROVE  PayoutInv'
  <1>1. ASSUME NEW f \in Fulfilments, OrderMoves(f) PROVE PayoutInv'
    BY <1>1 DEF OrderMoves, PayoutInv, PayoutShape, CountedBeside, Beside, ClaimsAreHeld, Exists
  <1>2. ASSUME NEW r \in Requests, NEW p \in PayoutIds, Calculate(r, p) PROVE PayoutInv'
    <2>1. PayoutShape' /\ UNCHANGED <<link, payouts, races>>
      BY <1>2, RequestStep DEF PayoutInv
    <2> QED BY <2>1 DEF PayoutInv, CountedBeside, Beside, ClaimsAreHeld, Exists
  <1>3. CASE UNCHANGED payoutVars
    BY <1>3 DEF payoutVars, PayoutInv, PayoutShape, CountedBeside, Beside, ClaimsAreHeld, Exists
  <1> QED BY <1>1, <1>2, <1>3, ClaimStep, DeleteStep, StatusStep DEF PayoutsNext

LEMMA PayoutStart == PayoutsInit => PayoutInv
  <1> SUFFICES ASSUME PayoutsInit PROVE PayoutInv
    OBVIOUS
  <1>1. PayoutShape
    BY DEF PayoutsInit, PayoutShape, Unclaimed, NotUsed, Waiting, Payout
  <1>2. \A f \in Fulfilments : Beside(f) = {}
    BY DEF PayoutsInit, Beside, NotUsed
  <1>3. CountedBeside
    BY <1>2, FS_EmptySet DEF CountedBeside, PayoutsInit
  <1>4. ClaimsAreHeld
    BY DEF PayoutsInit, ClaimsAreHeld, Unclaimed
  <1> QED BY <1>1, <1>3, <1>4 DEF PayoutInv

\* What Hub does is, to the payouts, a step of theirs or none.
LEMMA HubPaysOut == Spec => PayoutsSpec
  <1>1. Init => PayoutsInit
    BY DEF Init
  <1>2. [Next]_vars => [PayoutsNext]_payoutVars
    BY DEF Next, vars, Money, Outward, Inward, StillMoney, StillPayouts, payoutVars
  <1> QED BY <1>1, <1>2, PTL DEF Spec, PayoutsSpec

LEMMA PayoutInvHolds == Spec => []PayoutInv
  <1>1. PayoutInv /\ [PayoutsNext]_payoutVars => PayoutInv'
    BY PayoutStep, PayoutsAssumption
  <1> QED BY <1>1, PayoutStart, HubPaysOut, PTL DEF PayoutsSpec

-----------------------------------------------------------------------------
\* Deleting payouts and claiming fulfilments in any order never leaves one that
\* is neither owed nor in a payout (vendor_payout.py, on_trash).
THEOREM NoClaimIsOrphaned == Spec => []ClaimsAreHeld
  <1>1. PayoutInv => ClaimsAreHeld
    BY DEF PayoutInv
  <1> QED BY <1>1, PayoutInvHolds, PTL

\* A fulfilment is in one payout's total, and in one more for each calculation
\* that overwrote a claim (vendor_payout.py:43).
THEOREM CountedInOneTotal == Spec => []CountedOnce
  <1>1. PayoutInv => CountedOnce
    <2> SUFFICES ASSUME PayoutInv, NEW f \in Fulfilments
                 PROVE  Cardinality({p \in PayoutIds : f \in payouts[p].total}) <= 1 + races
      BY DEF CountedOnce
    <2>1. {p \in PayoutIds : f \in payouts[p].total} \subseteq Beside(f) \cup {link[f]}
      BY DEF Beside
    <2>2. IsFiniteSet(Beside(f)) /\ Cardinality(Beside(f)) <= races /\ races \in Nat
      BY FS_Subset, PayoutsAssumption DEF Beside, PayoutInv, CountedBeside, PayoutShape
    <2>3. Cardinality({p \in PayoutIds : f \in payouts[p].total}) <= races + 1
      BY <2>1, <2>2, OneMoreBeside
    <2> QED BY <2>2, <2>3
  <1> QED BY <1>1, PayoutInvHolds, PTL

\* What a vendor is owed is counted once and stays claimable (payouts.py,
\* vendor_payout.py).
THEOREM EachOwedOnce == Spec => []OwedOnce
  <1>1. CountedOnce /\ ClaimsAreHeld => OwedOnce
    BY DEF OwedOnce
  <1> QED BY <1>1, CountedInOneTotal, NoClaimIsOrphaned, PTL

-----------------------------------------------------------------------------
(* Publishing.                                                             *)

\* What Hub does is, to the queue, a step of its own or none.
LEMMA HubPublishes == Spec => PublishingSpec
  <1>1. Init => PublishingInit
    BY DEF Init
  <1>2. [Next]_vars => [PublishingNext]_publishingVars
    BY DEF Next, vars, Money, Outward, Inward, StillOutward, StillPublishing, publishingVars
  <1> QED BY <1>1, <1>2, PTL DEF Spec, PublishingSpec

Active(c) == calls[c].at # "none"
HoldsLock(c) == calls[c].at \in {"inserted", "refused"}
Row == [event : Events, seq : Nat]
Call == [at : {"none", "asked", "fresh", "inserted", "refused"},
         event : Events \cup {SomeEvent}, seen : SUBSET Events, seq : Nat]

-----------------------------------------------------------------------------
(* The numbers.                                                            *)

\* No bound is needed, and an idle caller's event may be none of Events.
PublishingShape ==
    /\ log \in Seq(Row)
    /\ lastSeq \in Nat
    /\ calls \in [Callers -> Call]
    /\ \A c \in Callers : Active(c) => calls[c].event \in Events

\* At most one caller has the lock, and its number is the next.
LockHeldOnce ==
    /\ \A c, d \in Callers : HoldsLock(c) /\ HoldsLock(d) => c = d
    /\ \A c \in Callers : HoldsLock(c) => calls[c].seq = lastSeq + 1

NumbersUpToLast == \A i \in DOMAIN log : log[i].seq <= lastSeq

NumberInv == PublishingShape /\ LockHeldOnce /\ NumbersUpToLast /\ NumbersFollowCommits

LEMMA IdleCall ==
    /\ NoCall \in Call /\ NoCall.at = "none"
  BY DEF NoCall, Call

LEMMA RowsOfLog ==
    ASSUME PublishingShape
    PROVE  /\ Len(log) \in Nat /\ DOMAIN log = 1..Len(log)
           /\ \A i \in DOMAIN log : log[i] \in Row /\ log[i].seq \in Nat /\ log[i].event \in Events
           /\ Logged \in SUBSET Events
  <1>1. /\ Len(log) \in Nat /\ DOMAIN log = 1..Len(log)
        /\ \A i \in DOMAIN log : log[i] \in Row
    BY DEF PublishingShape
  <1>2. \A r \in Row : r.seq \in Nat /\ r.event \in Events
    BY DEF Row
  <1> QED BY <1>1, <1>2 DEF Logged

\* A call that changes: its own record, and nobody else's.
LEMMA CallsAfter ==
    ASSUME PublishingShape, NEW c \in Callers, NEW r \in Call,
           r.at # "none" => r.event \in Events,
           calls' = [calls EXCEPT ![c] = r], lastSeq' \in Nat, log' \in Seq(Row)
    PROVE  PublishingShape' /\ calls'[c] = r /\ \A d \in Callers \ {c} : calls'[d] = calls[d]
  BY DEF PublishingShape, Active

LEMMA NumberInit == PublishingInit => NumberInv
  BY IdleCall DEF PublishingInit, NumberInv, PublishingShape, LockHeldOnce, NumbersUpToLast, NumbersFollowCommits,
     Active, HoldsLock

\* What a commit does to the log.
LEMMA Appended ==
    ASSUME PublishingShape, NEW c \in Callers, Commit(c)
    PROVE  /\ log' = Append(log, [event |-> calls[c].event, seq |-> calls[c].seq])
           /\ log' \in Seq(Row)
           /\ Len(log') = Len(log) + 1
           /\ \A i \in DOMAIN log : i \in DOMAIN log' /\ log'[i] = log[i]
           /\ log'[Len(log) + 1] = [event |-> calls[c].event, seq |-> calls[c].seq]
           /\ DOMAIN log' = DOMAIN log \cup {Len(log) + 1}
  <1> DEFINE new == [event |-> calls[c].event, seq |-> calls[c].seq]
  <1>1. new \in Row
    BY DEF PublishingShape, Commit, Active, Row, Call
  <1>2. log \in Seq(Row) /\ log' = Append(log, new)
    BY DEF PublishingShape, Commit
  <1> HIDE DEF new
  <1>3. /\ log' \in Seq(Row) /\ Len(log') = Len(log) + 1
        /\ \A i \in 1..Len(log) : log'[i] = log[i]
        /\ log'[Len(log) + 1] = new
    BY <1>1, <1>2
  <1>4. Len(log) \in Nat /\ DOMAIN log = 1..Len(log) /\ DOMAIN log' = 1..Len(log')
    BY <1>2, <1>3
  <1> QED BY <1>2, <1>3, <1>4 DEF new

LEMMA NumberStep == NumberInv /\ [PublishingNext]_publishingVars => NumberInv'
  <1> SUFFICES ASSUME NumberInv, [PublishingNext]_publishingVars PROVE NumberInv'
    OBVIOUS
  <1> USE IdleCall DEF NumberInv
  <1>0. lastSeq \in Nat /\ log \in Seq(Row) /\ \A c \in Callers : calls[c] \in Call
    BY DEF PublishingShape
  <1>1. ASSUME NEW c \in Callers, NEW e \in Events, Skip(c, e) \/ Ask(c, e) PROVE NumberInv'
    <2>1. UNCHANGED <<log, lastSeq>>
      BY <1>1 DEF Skip, Ask
    <2>2. CASE Skip(c, e)
      BY <2>1, <2>2 DEF Skip, PublishingShape, LockHeldOnce, NumbersUpToLast, NumbersFollowCommits,
         Active, HoldsLock
    <2>3. CASE Ask(c, e)
      <3> DEFINE r == [at |-> "asked", event |-> e, seen |-> Logged, seq |-> 0]
      <3>1. r \in Call /\ r.at = "asked" /\ r.event = e
        BY RowsOfLog DEF Call
      <3>2. calls' = [calls EXCEPT ![c] = r]
        BY <2>3 DEF Ask
      <3> HIDE DEF r
      <3>3. PublishingShape' /\ calls'[c] = r /\ \A d \in Callers \ {c} : calls'[d] = calls[d]
        BY <1>0, <2>1, <3>1, <3>2, CallsAfter
      <3>4. LockHeldOnce'
        BY <2>1, <3>1, <3>3 DEF LockHeldOnce, HoldsLock
      <3> QED BY <2>1, <3>3, <3>4 DEF NumbersUpToLast, NumbersFollowCommits
    <2> QED BY <1>1, <2>2, <2>3
  <1>2. ASSUME NEW c \in Callers, Mark(c) \/ AskDatabase(c) \/ Rollback(c) PROVE NumberInv'
    <2>1. UNCHANGED <<log, lastSeq>>
      BY <1>2 DEF Mark, AskDatabase, Rollback
    <2>2. PICK r \in {[calls[c] EXCEPT !.at = "fresh"], NoCall} :
            /\ calls' = [calls EXCEPT ![c] = r]
            /\ r # NoCall => calls[c].at = "asked"
      BY <1>2 DEF Mark, AskDatabase, Rollback
    <2>3. r \in Call /\ r.at \in {"none", "fresh"} /\ (r.at # "none" => r.event \in Events)
      BY <1>0, <2>2 DEF Call, PublishingShape, Active
    <2>4. PublishingShape' /\ calls'[c] = r /\ \A d \in Callers \ {c} : calls'[d] = calls[d]
      BY <1>0, <2>1, <2>2, <2>3, CallsAfter
    <2>5. LockHeldOnce'
      BY <2>1, <2>3, <2>4 DEF LockHeldOnce, HoldsLock
    <2> QED BY <2>1, <2>4, <2>5 DEF NumbersUpToLast, NumbersFollowCommits
  <1>3. ASSUME NEW c \in Callers, Insert(c) PROVE NumberInv'
    <2>1. UNCHANGED <<log, lastSeq>> /\ (\A d \in Callers : ~HoldsLock(d)) /\ Active(c)
      BY <1>3 DEF Insert, Locked, HoldsLock, Active
    <2>2. PICK how \in {"inserted", "refused"} :
            calls' = [calls EXCEPT ![c] = [calls[c] EXCEPT !.at = how, !.seq = lastSeq + 1]]
      BY <1>0, <1>3 DEF Insert, NextSeq
    <2> DEFINE r == [calls[c] EXCEPT !.at = how, !.seq = lastSeq + 1]
    <2>3. r \in Call /\ r.seq = lastSeq + 1 /\ r.event \in Events
      <3>1. calls[c] \in Call /\ calls[c].event \in Events /\ lastSeq + 1 \in Nat
        BY <1>0, <2>1 DEF PublishingShape
      <3>2. \A k \in Call : LET s == [k EXCEPT !.at = how, !.seq = lastSeq + 1]
                            IN s \in Call /\ s.seq = lastSeq + 1 /\ s.event = k.event
        BY <3>1 DEF Call
      <3> QED BY <3>1, <3>2
    <2>4. calls' = [calls EXCEPT ![c] = r]
      BY <2>2
    <2> HIDE DEF r
    <2>5. PublishingShape' /\ calls'[c] = r /\ \A d \in Callers \ {c} : calls'[d] = calls[d]
      BY <1>0, <2>1, <2>3, <2>4, CallsAfter
    <2>6. LockHeldOnce'
      BY <2>1, <2>3, <2>5 DEF LockHeldOnce, HoldsLock
    <2> QED BY <2>1, <2>5, <2>6 DEF NumbersUpToLast, NumbersFollowCommits
  <1>4. ASSUME NEW c \in Callers, Commit(c) \/ SwallowRefusal(c)
        PROVE  /\ PublishingShape' /\ LockHeldOnce' /\ lastSeq' = lastSeq + 1
               /\ calls[c].seq = lastSeq + 1
    <2>1. /\ HoldsLock(c) /\ lastSeq' = calls[c].seq
          /\ calls' = [calls EXCEPT ![c] = NoCall]
      BY <1>4 DEF Commit, SwallowRefusal, HoldsLock
    <2>2. lastSeq' = lastSeq + 1 /\ lastSeq' \in Nat
      BY <1>0, <2>1 DEF LockHeldOnce
    <2>3. log' \in Seq(Row)
      BY <1>0, <1>4, Appended DEF SwallowRefusal
    <2>4. PublishingShape' /\ calls'[c] = NoCall /\ \A d \in Callers \ {c} : calls'[d] = calls[d]
      BY <2>1, <2>2, <2>3, CallsAfter
    <2>5. LockHeldOnce'
      BY <2>1, <2>4 DEF LockHeldOnce, HoldsLock
    <2> QED BY <2>1, <2>2, <2>4, <2>5
  <1>5. ASSUME NEW c \in Callers, Commit(c) PROVE NumberInv'
    <2>0. /\ DOMAIN log' = DOMAIN log \cup {Len(log) + 1}
          /\ \A i \in DOMAIN log : log'[i] = log[i]
          /\ log'[Len(log) + 1] = [event |-> calls[c].event, seq |-> calls[c].seq]
      BY <1>5, Appended
    <2>1. /\ DOMAIN log' = DOMAIN log \cup {Len(log) + 1}
          /\ \A i \in DOMAIN log : log'[i] = log[i]
          /\ log'[Len(log) + 1].seq = lastSeq + 1
      BY <1>4, <1>5, <2>0
    <2>2. \A i \in DOMAIN log : i \in Nat /\ i <= Len(log) /\ log[i].seq \in Nat /\ log[i].seq <= lastSeq
      BY RowsOfLog DEF NumbersUpToLast
    <2>3. Len(log) \in Nat
      BY RowsOfLog
    <2>4. NumbersUpToLast'
      BY <1>0, <1>4, <1>5, <2>1, <2>2 DEF NumbersUpToLast
    <2>5. NumbersFollowCommits'
      <3> SUFFICES ASSUME NEW i \in DOMAIN log', NEW j \in DOMAIN log', i < j
                   PROVE  log'[i].seq < log'[j].seq
        BY DEF NumbersFollowCommits
      <3>1. i \in DOMAIN log
        BY <2>1, <2>2, <2>3
      <3>2. CASE j \in DOMAIN log
        BY <2>1, <3>1, <3>2 DEF NumbersFollowCommits
      <3>3. CASE j = Len(log) + 1
        BY <1>0, <2>1, <2>2, <3>1, <3>3
      <3> QED BY <2>1, <3>2, <3>3
    <2> QED BY <1>4, <1>5, <2>4, <2>5
  <1>6. ASSUME NEW c \in Callers, SwallowRefusal(c) PROVE NumberInv'
    <2>1. log' = log
      BY <1>6 DEF SwallowRefusal
    <2>2. NumbersUpToLast'
      BY <1>0, <1>4, <1>6, <2>1, RowsOfLog DEF NumbersUpToLast
    <2> QED BY <1>4, <1>6, <2>1, <2>2 DEF NumbersFollowCommits
  <1>7. ASSUME UNCHANGED <<log, lastSeq, calls>> PROVE NumberInv'
    BY <1>7 DEF PublishingShape, LockHeldOnce, NumbersUpToLast, NumbersFollowCommits, Active, HoldsLock
  <1> QED BY <1>1, <1>2, <1>3, <1>5, <1>6, <1>7 DEF PublishingNext, publishingVars, Expire

\* However the transactions of _enqueue's callers overlap, a vendor's events
\* commit in the order of their numbers, none twice (events/publisher.py:30-46).
THEOREM CommittedInOrder == Spec => []NumbersFollowCommits
  <1>1. Spec => []NumberInv
    BY NumberInit, NumberStep, HubPublishes, PTL DEF PublishingSpec
  <1> QED BY <1>1, PTL DEF NumberInv
-----------------------------------------------------------------------------
(* The holes.                                                              *)

SameId(e, f) == IdOf[e] = IdOf[f]

\* Two callers with one event_id, and a caller whose event_id was committed
\* after its lookup, have raced; so a refusal is a race.
RacesAreKnown ==
    /\ \A c, d \in Callers : Active(c) /\ Active(d) /\ c # d /\ SameId(calls[c].event, calls[d].event)
          => IdOf[calls[c].event] \in raced
    /\ \A c \in Callers, e \in Logged : Active(c) /\ ~HoldsLock(c) /\ SameId(e, calls[c].event)
          => IdOf[e] \in raced
    /\ \A c \in Callers : calls[c].at = "refused" => IdOf[calls[c].event] \in raced

HoleInv == NumberInv /\ RacesAreKnown /\ HolesAreRaces

\* The calls after a step that leaves c's event alone or ends c.
Follows(c) ==
    \A d \in Callers :
        /\ Active(d)' => Active(d) /\ calls'[d].event = calls[d].event
        /\ d # c => calls'[d] = calls[d]

LEMMA CallsFollow ==
    ASSUME PublishingShape, NEW c \in Callers,
           Mark(c) \/ AskDatabase(c) \/ Insert(c) \/ Commit(c) \/ SwallowRefusal(c) \/ Rollback(c)
    PROVE  Follows(c) /\ raced' = raced /\ Active(c)
  <1>1. /\ raced' = raced /\ Active(c)
        /\ \/ calls' = [calls EXCEPT ![c].at = "fresh"]
           \/ calls' = [calls EXCEPT ![c] = NoCall]
           \/ \E how \in {"inserted", "refused"} :
                 calls' = [calls EXCEPT ![c] = [calls[c] EXCEPT !.at = how, !.seq = NextSeq(c)]]
    BY DEF Mark, AskDatabase, Insert, Commit, SwallowRefusal, Rollback, Active, PublishingShape, Call
  <1>2. \A d \in Callers : calls[d] \in Call /\ d \in DOMAIN calls
    BY DEF PublishingShape
  <1>3. CASE calls' = [calls EXCEPT ![c] = NoCall]
    BY <1>1, <1>2, <1>3, IdleCall DEF Follows, Active
  <1>4. CASE calls' # [calls EXCEPT ![c] = NoCall]
    <2>1. /\ calls'[c].event = calls[c].event
          /\ \A d \in Callers \ {c} : calls'[d] = calls[d]
      BY <1>1, <1>2, <1>4 DEF Call
    <2> QED BY <1>1, <2>1 DEF Follows, Active
  <1> QED BY <1>3, <1>4

LEMMA HoleStep == HoleInv /\ [PublishingNext]_publishingVars => HoleInv'
  <1> SUFFICES ASSUME HoleInv, [PublishingNext]_publishingVars PROVE RacesAreKnown' /\ HolesAreRaces'
    BY NumberStep DEF HoleInv
  <1>0. PublishingShape /\ NumberInv /\ RacesAreKnown /\ HolesAreRaces
    BY DEF HoleInv, NumberInv
  <1>1. ASSUME NEW c \in Callers, NEW e \in Events, Skip(c, e)
        PROVE  RacesAreKnown' /\ HolesAreRaces'
    BY <1>0, <1>1 DEF Skip, RacesAreKnown, HolesAreRaces, Numbers, Logged, Active, HoldsLock
  <1>2. ASSUME NEW c \in Callers, NEW e \in Events, Ask(c, e)
        PROVE  RacesAreKnown' /\ HolesAreRaces'
    <2>1. /\ log' = log /\ lastSeq' = lastSeq /\ lost' = lost /\ raced \subseteq raced'
          /\ ~Active(c) /\ \A f \in Logged : ~SameId(f, e)
      BY <1>2 DEF Ask, Active, Existing, SameId
    <2>2. /\ calls'[c].at = "asked" /\ calls'[c].event = e
          /\ \A d \in Callers \ {c} : calls'[d] = calls[d]
      BY <1>0, <1>2 DEF Ask, PublishingShape
    <2>3. \A d \in Callers \ {c} : Active(d) /\ SameId(calls[d].event, e) => IdOf[e] \in raced'
      BY <1>2 DEF Ask, Others, SameId, Active
    <2>4. RacesAreKnown'
      BY <1>0, <2>1, <2>2, <2>3 DEF RacesAreKnown, Active, HoldsLock, SameId, Logged
    <2>5. HolesAreRaces'
      BY <1>0, <2>1 DEF HolesAreRaces, Numbers
    <2> QED BY <2>4, <2>5
  <1>3. ASSUME NEW c \in Callers, Mark(c) \/ AskDatabase(c) \/ Rollback(c)
        PROVE  RacesAreKnown' /\ HolesAreRaces'
    <2>1. log' = log /\ lastSeq' = lastSeq /\ lost' = lost
      BY <1>3 DEF Mark, AskDatabase, Rollback
    <2>2. Follows(c) /\ raced' = raced
      BY <1>0, <1>3, CallsFollow
    <2>3. calls'[c].at \in {"none", "fresh"} /\ (Active(c)' => ~HoldsLock(c))
      BY <1>0, <1>3, IdleCall DEF Mark, AskDatabase, Rollback, PublishingShape, HoldsLock, Active, Call
    <2>4. RacesAreKnown'
      BY <1>0, <2>1, <2>2, <2>3 DEF RacesAreKnown, Follows, Active, HoldsLock, SameId, Logged
    <2>5. HolesAreRaces'
      BY <1>0, <2>1, <2>2 DEF HolesAreRaces, Numbers
    <2> QED BY <2>4, <2>5
  <1>4. ASSUME NEW c \in Callers, Insert(c) PROVE RacesAreKnown' /\ HolesAreRaces'
    <2>1. log' = log /\ lastSeq' = lastSeq /\ lost' = lost /\ ~HoldsLock(c) /\ Active(c)
      BY <1>4 DEF Insert, HoldsLock, Active
    <2>2. Follows(c) /\ raced' = raced
      BY <1>0, <1>4, CallsFollow
    <2>3. HoldsLock(c)' /\ calls'[c].event = calls[c].event
      BY <1>0, <1>4 DEF Insert, HoldsLock, PublishingShape, Call
    <2>4. calls'[c].at = "refused" => \E f \in Logged : SameId(f, calls[c].event)
      BY <1>0, <1>4 DEF Insert, SameId, PublishingShape, Call
    <2>5. calls'[c].at = "refused" => IdOf[calls[c].event] \in raced
      BY <1>0, <2>1, <2>4 DEF RacesAreKnown, SameId
    <2>6. RacesAreKnown'
      BY <1>0, <2>1, <2>2, <2>3, <2>5 DEF RacesAreKnown, Follows, Active, HoldsLock, SameId, Logged
    <2>7. HolesAreRaces'
      BY <1>0, <2>1, <2>2 DEF HolesAreRaces, Numbers
    <2> QED BY <2>6, <2>7
  <1>5. ASSUME NEW c \in Callers, Commit(c) PROVE RacesAreKnown' /\ HolesAreRaces'
    <2> DEFINE e == calls[c].event
    <2>1. /\ DOMAIN log' = DOMAIN log \cup {Len(log) + 1}
          /\ \A i \in DOMAIN log : log'[i] = log[i]
          /\ log'[Len(log) + 1] = [event |-> e, seq |-> calls[c].seq]
      BY <1>0, <1>5, Appended
    <2>2. lastSeq \in Nat /\ calls[c].seq = lastSeq + 1 /\ lastSeq' = lastSeq + 1 /\ lost' = lost
      BY <1>0, <1>5 DEF Commit, NumberInv, LockHeldOnce, HoldsLock, PublishingShape
    <2>3. Logged' = Logged \cup {e} /\ Numbers' = Numbers \cup {lastSeq + 1}
      BY <2>1, <2>2 DEF Logged, Numbers
    <2>4. Follows(c) /\ raced' = raced /\ Active(c) /\ ~Active(c)'
      BY <1>0, <1>5, CallsFollow, IdleCall DEF Commit, Active, PublishingShape
    <2>5. RacesAreKnown'
      <3>1. \A d \in Callers : Active(d)' => d # c /\ calls'[d] = calls[d] /\ Active(d)
        BY <2>4 DEF Follows
      <3>2. \A d \in Callers : Active(d)' /\ SameId(e, calls[d].event) => IdOf[e] \in raced
        BY <1>0, <2>4, <3>1 DEF RacesAreKnown
      <3>3. \A d \in Callers : calls'[d].at = "refused" => Active(d)'
        BY DEF Active
      <3> QED BY <1>0, <2>3, <2>4, <3>1, <3>2, <3>3 DEF RacesAreKnown, Active, HoldsLock, SameId
    <2>6. HolesAreRaces'
      BY <1>0, <2>2, <2>3, <2>4 DEF HolesAreRaces
    <2> QED BY <2>5, <2>6
  <1>6. ASSUME NEW c \in Callers, SwallowRefusal(c) PROVE RacesAreKnown' /\ HolesAreRaces'
    <2>1. /\ log' = log /\ calls[c].at = "refused"
          /\ lost' = lost \cup {<<calls[c].seq, IdOf[calls[c].event]>>}
      BY <1>6 DEF SwallowRefusal
    <2>2. lastSeq \in Nat /\ calls[c].seq = lastSeq + 1 /\ lastSeq' = lastSeq + 1
      BY <1>0, <1>6 DEF SwallowRefusal, NumberInv, LockHeldOnce, HoldsLock, PublishingShape
    <2>3. Follows(c) /\ raced' = raced /\ ~Active(c)'
      BY <1>0, <1>6, CallsFollow, IdleCall DEF SwallowRefusal, Active, PublishingShape
    <2>4. RacesAreKnown'
      BY <1>0, <2>1, <2>3 DEF RacesAreKnown, Follows, Active, HoldsLock, SameId, Logged
    <2>5. HolesAreRaces'
      BY <1>0, <2>1, <2>2, <2>3 DEF HolesAreRaces, Numbers, RacesAreKnown
    <2> QED BY <2>4, <2>5
  <1>7. ASSUME UNCHANGED <<log, lastSeq, calls, lost, raced>>
        PROVE  RacesAreKnown' /\ HolesAreRaces'
    BY <1>0, <1>7 DEF RacesAreKnown, HolesAreRaces, Numbers, Logged, Active, HoldsLock
  <1> QED BY <1>1, <1>2, <1>3, <1>4, <1>5, <1>6, <1>7 DEF PublishingNext, publishingVars, Expire

\* A number that no event of the vendor has was taken by a transaction that lost
\* a race for its event_id (publisher.py:61-63, :76) and whose caller swallowed
\* the refusal (payments.py:462, orders.py:612).
THEOREM HolesComeFromRaces == Spec => []HolesAreRaces
  <1>1. PublishingInit => HoleInv
    BY NumberInit, IdleCall DEF PublishingInit, HoleInv, RacesAreKnown, HolesAreRaces, Active, HoldsLock, Logged
  <1>2. Spec => []HoleInv
    BY <1>1, HoleStep, HubPublishes, PTL DEF PublishingSpec
  <1> QED BY <1>2, PTL DEF HoleInv
-----------------------------------------------------------------------------
(* The content check.                                                      *)

Same(e, f) == Fingerprint(e) = Fingerprint(f)

\* Past its check, on its way or committed, a content is marked or its window
\* was reopened; two that are on their way or committed besides reopened it.
WindowsAreMarked ==
    /\ \A c \in Callers : Active(c) /\ calls[c].at # "asked" =>
          Fingerprint(calls[c].event) \in marks \cup reopened
    /\ \A e \in Logged : Fingerprint(e) \in marks \cup reopened
    /\ \A c, d \in Callers : Active(c) /\ Active(d) /\ c # d /\ Same(calls[c].event, calls[d].event)
          => Fingerprint(calls[c].event) \in reopened
    /\ \A c \in Callers, e \in Logged : Active(c) /\ Same(e, calls[c].event)
          => Fingerprint(e) \in reopened

WindowInv == NumberInv /\ WindowsAreMarked /\ OncePerWindow

LEMMA WindowStep == WindowInv /\ [PublishingNext]_publishingVars => WindowInv'
  <1> SUFFICES ASSUME WindowInv, [PublishingNext]_publishingVars PROVE WindowsAreMarked' /\ OncePerWindow'
    BY NumberStep DEF WindowInv
  <1>0. PublishingShape /\ NumberInv /\ WindowsAreMarked /\ OncePerWindow
    BY DEF WindowInv, NumberInv
  <1>1. ASSUME NEW c \in Callers, NEW e \in Events, Skip(c, e)
        PROVE  WindowsAreMarked' /\ OncePerWindow'
    BY <1>0, <1>1 DEF Skip, WindowsAreMarked, OncePerWindow, Logged, Active
  <1>2. ASSUME NEW c \in Callers, NEW e \in Events, Ask(c, e)
        PROVE  WindowsAreMarked' /\ OncePerWindow'
    <2>1. /\ log' = log /\ marks' = marks /\ reopened \subseteq reopened'
          /\ Fingerprint(e) \notin marks
      BY <1>2 DEF Ask
    <2>2. /\ calls'[c].at = "asked" /\ calls'[c].event = e
          /\ \A d \in Callers \ {c} : calls'[d] = calls[d]
      BY <1>0, <1>2 DEF Ask, PublishingShape
    <2>3. \A d \in Callers \ {c} : Active(d) /\ Same(calls[d].event, e) => Fingerprint(e) \in reopened'
      BY <1>2 DEF Ask, Others, Same, Active
    <2>4. \A f \in Logged : Same(f, e) => Fingerprint(e) \in reopened'
      BY <1>0, <2>1 DEF WindowsAreMarked, Same
    <2>5. WindowsAreMarked'
      BY <1>0, <2>1, <2>2, <2>3, <2>4 DEF WindowsAreMarked, Active, Same, Logged
    <2>6. OncePerWindow'
      BY <1>0, <2>1 DEF OncePerWindow
    <2> QED BY <2>5, <2>6
  <1>3. ASSUME NEW c \in Callers, Mark(c) \/ AskDatabase(c)
        PROVE  WindowsAreMarked' /\ OncePerWindow'
    <2>1. /\ log' = log /\ marks \subseteq marks' /\ reopened \subseteq reopened'
          /\ Fingerprint(calls[c].event) \in marks' \cup reopened'
      BY <1>3 DEF Mark, Marked, AskDatabase
    <2>2. Follows(c)
      BY <1>0, <1>3, CallsFollow
    <2>3. WindowsAreMarked'
      BY <1>0, <2>1, <2>2 DEF WindowsAreMarked, Follows, Active, Same, Logged
    <2>4. OncePerWindow'
      BY <1>0, <2>1 DEF OncePerWindow
    <2> QED BY <2>3, <2>4
  <1>4. ASSUME NEW c \in Callers, Insert(c) \/ SwallowRefusal(c) \/ Rollback(c)
        PROVE  WindowsAreMarked' /\ OncePerWindow'
    <2>1. log' = log /\ marks' = marks /\ reopened' = reopened
      BY <1>4 DEF Insert, SwallowRefusal, Rollback
    <2>2. Follows(c)
      BY <1>0, <1>4, CallsFollow
    <2>3. calls[c].at = "asked" => ~Active(c)'
      BY <1>0, <1>4, IdleCall DEF Insert, SwallowRefusal, Rollback, PublishingShape, Active
    <2>4. WindowsAreMarked'
      BY <1>0, <2>1, <2>2, <2>3 DEF WindowsAreMarked, Follows, Active, Same, Logged
    <2>5. OncePerWindow'
      BY <1>0, <2>1 DEF OncePerWindow
    <2> QED BY <2>4, <2>5
  <1>5. ASSUME NEW c \in Callers, Commit(c) PROVE WindowsAreMarked' /\ OncePerWindow'
    <2> DEFINE e == calls[c].event
    <2>1. /\ DOMAIN log' = DOMAIN log \cup {Len(log) + 1}
          /\ \A i \in DOMAIN log : log'[i] = log[i]
          /\ log'[Len(log) + 1] = [event |-> e, seq |-> calls[c].seq]
      BY <1>0, <1>5, Appended
    <2>2. marks' = marks /\ reopened' = reopened /\ Active(c) /\ calls[c].at # "asked"
      BY <1>5 DEF Commit, Active
    <2>3. Logged' = Logged \cup {e}
      BY <2>1 DEF Logged
    <2>4. Follows(c) /\ ~Active(c)'
      BY <1>0, <1>5, CallsFollow, IdleCall DEF Commit, Active, PublishingShape
    <2>5. \A d \in Callers : Active(d)' => d # c /\ calls'[d] = calls[d] /\ Active(d)
      BY <2>4 DEF Follows
    <2>6. WindowsAreMarked'
      <3>1. Fingerprint(e) \in marks \cup reopened
        BY <1>0, <2>2 DEF WindowsAreMarked
      <3>2. \A d \in Callers : Active(d)' /\ Same(e, calls[d].event) => Fingerprint(e) \in reopened
        BY <1>0, <2>2, <2>5 DEF WindowsAreMarked
      <3> QED BY <1>0, <2>2, <2>3, <2>5, <3>1, <3>2 DEF WindowsAreMarked, Same
    <2>7. \A f \in Logged : Same(f, e) => Fingerprint(e) \in reopened
      BY <1>0, <2>2 DEF WindowsAreMarked, Same
    <2>8. \A i \in DOMAIN log : log[i].event \in Logged
      BY DEF Logged
    <2>9. OncePerWindow'
      BY <1>0, <2>1, <2>2, <2>7, <2>8 DEF OncePerWindow, Same
    <2> QED BY <2>6, <2>9
  <1>6. ASSUME NEW e \in Events, Expire(e) PROVE WindowsAreMarked' /\ OncePerWindow'
    BY <1>0, <1>6 DEF Expire, WindowsAreMarked, OncePerWindow, Logged, Active
  <1>7. ASSUME UNCHANGED <<log, marks, calls, reopened>> PROVE WindowsAreMarked' /\ OncePerWindow'
    BY <1>0, <1>7 DEF WindowsAreMarked, OncePerWindow, Logged, Active
  <1> QED BY <1>1, <1>2, <1>3, <1>4, <1>5, <1>6, <1>7 DEF PublishingNext, publishingVars

\* One content is queued twice for a vendor only if its window of ten minutes
\* ended, two callers checked it at once, or Redis failed (event_dedup.py:25-41).
THEOREM RepeatsNeedAWindow == Spec => []OncePerWindow
  <1>1. PublishingInit => WindowInv
    BY NumberInit, IdleCall DEF PublishingInit, WindowInv, WindowsAreMarked, OncePerWindow, Active, Logged
  <1>2. Spec => []WindowInv
    BY <1>1, WindowStep, HubPublishes, PTL DEF PublishingSpec
  <1> QED BY <1>2, PTL DEF WindowInv

\* A content is in the table, on its way there, or failed on its way.
Accounted(f) ==
    \/ \E e \in Logged : Fingerprint(e) = f
    \/ \E c \in Callers : Active(c) /\ Fingerprint(calls[c].event) = f
    \/ f \in marred

MarksAreAccounted ==
    /\ \A c \in Callers : calls[c].seen \subseteq Logged
    /\ \A f \in marks : Accounted(f)
    /\ skipped \subseteq Events
    /\ \A e \in skipped : Accounted(Fingerprint(e))

SkipInv == NumberInv /\ MarksAreAccounted

\* Nothing that was accounted for is forgotten.
LEMMA StaysAccounted ==
    ASSUME NumberInv, [PublishingNext]_publishingVars,
           \A c \in Callers : calls[c].seen \subseteq Logged,
           NEW f, Accounted(f),
           \A c \in Callers : ~(AskDatabase(c) /\ calls'[c] = NoCall /\ Fingerprint(calls[c].event) = f)
    PROVE  Accounted(f)'
  <1>0. PublishingShape
    BY DEF NumberInv
  <1>1. ASSUME NEW c \in Callers, NEW e \in Events, Skip(c, e) \/ Ask(c, e) PROVE Accounted(f)'
    <2>1. /\ log' = log /\ marred' = marred /\ ~Active(c)
          /\ \A d \in Callers \ {c} : calls'[d] = calls[d]
      BY <1>0, <1>1 DEF Skip, Ask, Active, PublishingShape
    <2> QED BY <2>1 DEF Accounted, Logged, Active
  <1>2. ASSUME NEW c \in Callers, Mark(c) \/ AskDatabase(c) \/ Insert(c) PROVE Accounted(f)'
    <2>1. log' = log /\ marred' = marred /\ Follows(c)
      BY <1>0, <1>2, CallsFollow DEF Mark, AskDatabase, Insert
    <2>2. \/ Active(c)' /\ calls'[c].event = calls[c].event
          \/ AskDatabase(c) /\ calls'[c] = NoCall
      BY <1>0, <1>2 DEF Mark, AskDatabase, Insert, Active, PublishingShape, Call
    <2> QED BY <2>1, <2>2 DEF Accounted, Logged, Follows, Active
  <1>3. ASSUME NEW c \in Callers, Commit(c) PROVE Accounted(f)'
    <2>1. /\ DOMAIN log' = DOMAIN log \cup {Len(log) + 1}
          /\ \A i \in DOMAIN log : log'[i] = log[i]
          /\ log'[Len(log) + 1] = [event |-> calls[c].event, seq |-> calls[c].seq]
      BY <1>0, <1>3, Appended
    <2>2. Logged' = Logged \cup {calls[c].event}
      BY <2>1 DEF Logged
    <2>3. marred' = marred /\ Follows(c)
      BY <1>0, <1>3, CallsFollow DEF Commit
    <2> QED BY <2>2, <2>3 DEF Accounted, Follows, Active
  <1>4. ASSUME NEW c \in Callers, SwallowRefusal(c) \/ Rollback(c) PROVE Accounted(f)'
    <2>1. log' = log /\ marred' = marred \cup {Fingerprint(calls[c].event)} /\ Follows(c)
      BY <1>0, <1>4, CallsFollow DEF SwallowRefusal, Rollback
    <2> QED BY <2>1 DEF Accounted, Logged, Follows, Active
  <1>5. ASSUME UNCHANGED <<log, calls, marred>> PROVE Accounted(f)'
    BY <1>5 DEF Accounted, Logged, Active
  <1> QED BY <1>1, <1>2, <1>3, <1>4, <1>5 DEF PublishingNext, publishingVars, Expire
LEMMA LoggedGrows ==
    ASSUME NumberInv, [PublishingNext]_publishingVars
    PROVE  Logged \subseteq Logged'
  <1>1. ASSUME NEW c \in Callers, Commit(c) PROVE Logged \subseteq Logged'
    <2>1. \A i \in DOMAIN log : i \in DOMAIN log' /\ log'[i] = log[i]
      BY <1>1, Appended DEF NumberInv
    <2> QED BY <2>1 DEF Logged
  <1>2. CASE log' = log
    BY <1>2 DEF Logged
  <1> QED BY <1>1, <1>2 DEF PublishingNext, publishingVars, Skip, Ask, Mark, AskDatabase, Insert,
         SwallowRefusal, Rollback, Expire

LEMMA SkipStep == SkipInv /\ [PublishingNext]_publishingVars => SkipInv'
  <1> SUFFICES ASSUME SkipInv, [PublishingNext]_publishingVars PROVE MarksAreAccounted'
    BY NumberStep DEF SkipInv
  <1>0. NumberInv /\ PublishingShape /\ MarksAreAccounted /\ Logged \subseteq Logged'
    BY LoggedGrows DEF SkipInv, NumberInv
  <1>1. ASSUME NEW f, NEW c \in Callers, AskDatabase(c), calls'[c] = NoCall,
               Fingerprint(calls[c].event) = f
        PROVE  Accounted(f)'
    <2>1. calls' # [calls EXCEPT ![c].at = "fresh"]
      BY <1>0, <1>1, IdleCall DEF PublishingShape, Call
    <2>2. \E e \in Logged : Fingerprint(e) = f
      BY <1>0, <1>1, <2>1 DEF AskDatabase, MarksAreAccounted
    <2>3. \E e \in Logged' : Fingerprint(e) = f
      BY <1>0, <2>2
    <2> QED BY <2>3 DEF Accounted
  <1>2. \A f : Accounted(f) => Accounted(f)'
    <2> SUFFICES ASSUME NEW f, Accounted(f) PROVE Accounted(f)'
      OBVIOUS
    <2>1. CASE \E c \in Callers : /\ AskDatabase(c) /\ calls'[c] = NoCall
                                  /\ Fingerprint(calls[c].event) = f
      BY <1>1, <2>1
    <2>2. CASE \A c \in Callers :
                  ~(AskDatabase(c) /\ calls'[c] = NoCall /\ Fingerprint(calls[c].event) = f)
      <3>1. \A c \in Callers : calls[c].seen \subseteq Logged
        BY <1>0 DEF MarksAreAccounted
      <3> QED BY <1>0, <2>2, <3>1, StaysAccounted
    <2> QED BY <2>1, <2>2
  <1>3. \A c \in Callers : calls'[c].seen \subseteq Logged'
    <2>1. ASSUME NEW c \in Callers, NEW e \in Events, Ask(c, e)
          PROVE  \A d \in Callers : calls'[d].seen \subseteq Logged'
      BY <1>0, <2>1 DEF Ask, PublishingShape, MarksAreAccounted
    <2>2. ASSUME NEW c \in Callers,
                 Mark(c) \/ AskDatabase(c) \/ Insert(c) \/ Commit(c) \/ SwallowRefusal(c) \/ Rollback(c)
          PROVE  \A d \in Callers : calls'[d].seen \subseteq Logged'
      <3>1. \A d \in Callers : d # c => calls'[d] = calls[d]
        BY <1>0, <2>2, CallsFollow DEF Follows
      <3>2. calls'[c].seen = calls[c].seen \/ calls'[c].seen = {}
        BY <1>0, <2>2 DEF Mark, AskDatabase, Insert, Commit, SwallowRefusal, Rollback, PublishingShape, Call,
           NoCall
      <3> QED BY <1>0, <3>1, <3>2 DEF MarksAreAccounted
    <2>3. CASE calls' = calls
      BY <1>0, <2>3 DEF MarksAreAccounted
    <2> QED BY <2>1, <2>2, <2>3 DEF PublishingNext, publishingVars, Skip, Expire
  <1>4. \A f \in marks' : Accounted(f)'
    <2>1. ASSUME NEW c \in Callers, Mark(c) PROVE \A f \in marks' : Accounted(f)'
      <3>1. Accounted(Fingerprint(calls[c].event)) /\ marks' = marks \cup {Fingerprint(calls[c].event)}
        BY <2>1 DEF Mark, Marked, Accounted, Active
      <3> QED BY <1>0, <1>2, <3>1 DEF MarksAreAccounted
    <2>2. CASE marks' \subseteq marks
      BY <1>0, <1>2, <2>2 DEF MarksAreAccounted
    <2> QED BY <2>1, <2>2 DEF PublishingNext, publishingVars, Skip, Ask, AskDatabase, Insert, Commit,
           SwallowRefusal, Rollback, Expire
  <1>5. skipped' \subseteq Events /\ \A e \in skipped' : Accounted(Fingerprint(e))'
    <2>1. ASSUME NEW c \in Callers, NEW e \in Events, Skip(c, e)
          PROVE  skipped' \subseteq Events /\ \A g \in skipped' : Accounted(Fingerprint(g))'
      BY <1>0, <1>2, <2>1 DEF Skip, MarksAreAccounted
    <2>2. ASSUME NEW c \in Callers, AskDatabase(c)
          PROVE  skipped' \subseteq Events /\ \A g \in skipped' : Accounted(Fingerprint(g))'
      <3>1. CASE skipped' = skipped
        BY <1>0, <1>2, <3>1 DEF MarksAreAccounted
      <3>2. CASE skipped' # skipped
        <4>1. skipped' = skipped \cup {calls[c].event} /\ calls' = [calls EXCEPT ![c] = NoCall]
          BY <2>2, <3>2 DEF AskDatabase
        <4>2. calls'[c] = NoCall /\ calls[c].event \in Events
          BY <1>0, <2>2, <4>1 DEF AskDatabase, PublishingShape, Active
        <4>3. \A f : f = Fingerprint(calls[c].event) => Accounted(f)'
          BY <1>1, <2>2, <4>2
        <4>4. ASSUME NEW g \in skipped' PROVE Accounted(Fingerprint(g))'
          <5>1. CASE g \in skipped
            BY <1>0, <1>2, <5>1 DEF MarksAreAccounted
          <5>2. CASE g = calls[c].event
            BY <4>3, <5>2
          <5> QED BY <4>1, <5>1, <5>2
        <4> QED BY <1>0, <4>1, <4>2, <4>4 DEF MarksAreAccounted
      <3> QED BY <3>1, <3>2
    <2>3. CASE skipped' = skipped
      BY <1>0, <1>2, <2>3 DEF MarksAreAccounted
    <2> QED BY <2>1, <2>2, <2>3 DEF PublishingNext, publishingVars, Ask, Mark, Insert, Commit,
           SwallowRefusal, Rollback, Expire
  <1> QED BY <1>3, <1>4, <1>5 DEF MarksAreAccounted

\* An event is taken for a repetition only if its content was published or is
\* about to be, or the transaction that published it failed
\* (event_dedup.py:36-38, which marks before the commit).
THEOREM DroppedWasPublished == Spec => []SkippedIsPublished
  <1>1. PublishingInit => SkipInv
    BY NumberInit, IdleCall DEF PublishingInit, SkipInv, MarksAreAccounted, NoCall
  <1>2. Spec => []SkipInv
    BY <1>1, SkipStep, HubPublishes, PTL DEF PublishingSpec
  <1>3. SkipInv => SkippedIsPublished
    <2> SUFFICES ASSUME SkipInv PROVE SkippedIsPublished
      OBVIOUS
    <2> SUFFICES ASSUME NEW e \in skipped,
                        Fingerprint(e) \notin marred,
                        \A c \in Callers : Active(c) => Fingerprint(calls[c].event) # Fingerprint(e)
                 PROVE  \E f \in Events : /\ TypeOf[f] = TypeOf[e] /\ ContentOf[f] = ContentOf[e]
                                          /\ f \in Logged
      <3>1. \A c \in Callers : Active(c) => calls[c].event \in Events
        BY DEF SkipInv, NumberInv, PublishingShape
      <3> QED BY <3>1 DEF SkippedIsPublished, Fingerprint, Active
    <2>1. Accounted(Fingerprint(e)) /\ Logged \subseteq Events
      BY RowsOfLog DEF SkipInv, MarksAreAccounted, NumberInv
    <2> QED BY <2>1 DEF Accounted, Fingerprint
  <1> QED BY <1>2, <1>3, PTL

\* Both halves of the content check, which looks before it marks and marks before
\* the commit (event_dedup.py:25-41).
THEOREM OnlyRepeatsAreDropped == Spec => []RepeatsAreDropped
  <1>1. OncePerWindow /\ SkippedIsPublished => RepeatsAreDropped
    BY DEF RepeatsAreDropped
  <1> QED BY <1>1, RepeatsNeedAWindow, DroppedWasPublished, PTL

-----------------------------------------------------------------------------
(* The types.                                                              *)

LEMMA PayoutsTyped == Spec => []PayoutsTypeOK
<1>1. PayoutsInit => PayoutsTypeOK
  BY PayoutsAssumption DEF PayoutsInit, PayoutsTypeOK, Unclaimed, NotUsed, Waiting
<1>2. PayoutsTypeOK /\ [PayoutsNext]_payoutVars => PayoutsTypeOK'
  <2> SUFFICES ASSUME PayoutsTypeOK, [PayoutsNext]_payoutVars PROVE PayoutsTypeOK'
    OBVIOUS
  <2> USE DEF PayoutsTypeOK
  <2>1. ASSUME NEW f \in Fulfilments, OrderMoves(f) PROVE PayoutsTypeOK'
    BY <2>1 DEF OrderMoves
  <2>2. ASSUME NEW r \in Requests, NEW p \in PayoutIds, Calculate(r, p) PROVE PayoutsTypeOK'
    <3>1. Outstanding \subseteq Fulfilments
      BY DEF Outstanding
    <3>2. QED
      BY <2>2, <3>1 DEF Calculate
  <2>3. ASSUME NEW r \in Requests, Claim(r) PROVE PayoutsTypeOK'
    <3>1. Waiting \in [payout : PayoutIds \cup {NoPayout}, selected : SUBSET Fulfilments,
                       seen : [Fulfilments -> PayoutIds \cup {NoPayout}]]
      BY DEF Waiting, Unclaimed
    <3>2. /\ request' = [request EXCEPT ![r] = Waiting] /\ payable' = payable
          /\ request[r].payout \in PayoutIds /\ request[r].selected \subseteq Fulfilments
      BY <2>3 DEF Claim
    <3>3. CASE ~Saves(request[r].payout)
      BY <2>3, <3>1, <3>2, <3>3 DEF Claim
    <3>4. CASE Saves(request[r].payout)
      <4>1. races' \in 0..MaxRaces
        BY <2>3, <3>4, PayoutsAssumption DEF Claim
      <4>2. payouts[request[r].payout].status \in Statuses \cup {"none"}
        BY <3>2, <3>4 DEF Saves
      <4>3. payouts' = [payouts EXCEPT ![request[r].payout] =
              [status |-> IF payouts[request[r].payout].status = "none" THEN "Draft"
                          ELSE payouts[request[r].payout].status,
               total |-> request[r].selected]]
        BY <2>3, <3>4 DEF Claim
      <4>4. payouts' \in [PayoutIds -> [status : Statuses \cup {"none", "deleted"},
                                        total : SUBSET Fulfilments]]
        BY <3>2, <4>2, <4>3 DEF Statuses
      <4>5. link' \in [Fulfilments -> PayoutIds \cup {NoPayout}]
        BY <2>3, <3>2, <3>4 DEF Claim
      <4>6. QED
        BY <3>1, <3>2, <4>1, <4>4, <4>5
    <3>5. QED
      BY <3>3, <3>4
  <2>4. ASSUME NEW p \in PayoutIds, Delete(p) \/ MarkPaid(p) \/ ApplySettlementReceived(p)
        PROVE  PayoutsTypeOK'
    <3>1. CASE Delete(p)
      <4>1. link' \in [Fulfilments -> PayoutIds \cup {NoPayout}]
        BY <3>1 DEF Delete
      <4>2. [status |-> "deleted", total |-> {}] \in
              [status : Statuses \cup {"none", "deleted"}, total : SUBSET Fulfilments]
        OBVIOUS
      <4>3. QED
        BY <3>1, <4>1, <4>2 DEF Delete
    <3>2. CASE MarkPaid(p)
      BY <3>2 DEF MarkPaid, Statuses
    <3>3. CASE ApplySettlementReceived(p)
      BY <3>3, ZenonT(40) DEF ApplySettlementReceived, Statuses
    <3>4. QED
      BY <2>4, <3>1, <3>2, <3>3
  <2>5. CASE UNCHANGED payoutVars
    BY <2>5 DEF payoutVars
  <2>6. QED
    BY <2>1, <2>2, <2>3, <2>4, <2>5 DEF PayoutsNext
<1>3. QED
  BY <1>1, <1>2, HubPaysOut, PTL DEF PayoutsSpec

\* The bound on the numbers is kept because the lock's holder has the next one.
LEMMA PublishingTyped == Spec => []PublishingTypeOK
<1> DEFINE Bounded == [event : Events, seq : 1..MaxSeq]
           Typed == [at : {"none", "asked", "fresh", "inserted", "refused"},
                     event : Events, seen : SUBSET Events, seq : 0..MaxSeq]
<1>1. NoCall \in Typed
  BY PublishingAssumption DEF NoCall, SomeEvent
<1>2. PublishingInit => PublishingTypeOK
  <2>1. <<>> \in Seq(Bounded)
    OBVIOUS
  <2>2. QED
    BY <1>1, <2>1, PublishingAssumption DEF PublishingInit, PublishingTypeOK
<1>3. PublishingTypeOK /\ NumberInv /\ [PublishingNext]_publishingVars => PublishingTypeOK'
  <2> SUFFICES ASSUME PublishingTypeOK, NumberInv, [PublishingNext]_publishingVars
               PROVE  PublishingTypeOK'
    OBVIOUS
  <2>0. /\ log \in Seq(Bounded) /\ lastSeq \in 0..MaxSeq /\ MaxSeq \in Nat
        /\ marks \subseteq {Fingerprint(e) : e \in Events}
        /\ calls \in [Callers -> Typed]
        /\ lost \subseteq (1..MaxSeq) \X Ids /\ raced \subseteq Ids /\ skipped \subseteq Events
        /\ \A e \in Events : IdOf[e] \in Ids
        /\ \A c \in Callers : calls[c] \in Typed /\ calls[c].event \in Events
    BY PublishingAssumption DEF PublishingTypeOK, Ids
  <2>1. ASSUME NEW c \in Callers, NEW e \in Events, Skip(c, e) PROVE PublishingTypeOK'
    BY <2>0, <2>1 DEF Skip, PublishingTypeOK
  <2>2. ASSUME NEW c \in Callers, NEW e \in Events, Ask(c, e) PROVE PublishingTypeOK'
    <3>1. Logged \in SUBSET Events
      BY RowsOfLog DEF NumberInv
    <3>2. [at |-> "asked", event |-> e, seen |-> Logged, seq |-> 0] \in Typed
      BY <3>1, PublishingAssumption
    <3>3. calls' \in [Callers -> Typed]
      BY <2>0, <2>2, <3>2 DEF Ask
    <3>4. raced' \subseteq Ids
      BY <2>0, <2>2 DEF Ask, Others
    <3>5. QED
      BY <2>0, <2>2, <3>3, <3>4 DEF Ask, PublishingTypeOK
  <2>3. ASSUME NEW c \in Callers, Mark(c) \/ AskDatabase(c) \/ Rollback(c)
        PROVE  PublishingTypeOK'
    <3>1. calls[c].event \in Events /\ [calls[c] EXCEPT !.at = "fresh"] \in Typed
      BY <2>0
    <3>2. calls' \in [Callers -> Typed]
      BY <1>1, <2>0, <2>3, <3>1 DEF Mark, AskDatabase, Rollback
    <3>3. UNCHANGED <<log, lastSeq, lost, raced>> /\ skipped' \subseteq Events
          /\ marks' \subseteq {Fingerprint(e) : e \in Events}
      BY <2>0, <2>3, <3>1 DEF Mark, Marked, AskDatabase, Rollback
    <3>4. QED
      BY <2>0, <3>2, <3>3 DEF PublishingTypeOK
  <2>4. ASSUME NEW c \in Callers, Insert(c) PROVE PublishingTypeOK'
    <3>1. lastSeq + 1 \in 0..MaxSeq
      BY <2>0, <2>4 DEF Insert, NextSeq
    <3>2. \A how \in {"inserted", "refused"} :
            [calls[c] EXCEPT !.at = how, !.seq = lastSeq + 1] \in Typed
      BY <2>0, <3>1
    <3>3. calls' \in [Callers -> Typed]
      BY <2>0, <2>4, <3>2 DEF Insert, NextSeq
    <3>4. QED
      BY <2>0, <2>4, <3>3 DEF Insert, PublishingTypeOK
  <2>5. ASSUME NEW c \in Callers, Commit(c) \/ SwallowRefusal(c) PROVE PublishingTypeOK'
    <3>1. calls[c].seq = lastSeq + 1 /\ calls[c].seq \in 1..MaxSeq /\ calls[c].event \in Events
      BY <2>0, <2>5 DEF Commit, SwallowRefusal, NumberInv, LockHeldOnce, HoldsLock
    <3>2. calls' \in [Callers -> Typed] /\ lastSeq' \in 0..MaxSeq
      <4>1. calls' = [calls EXCEPT ![c] = NoCall] /\ lastSeq' = calls[c].seq
        BY <2>5 DEF Commit, SwallowRefusal
      <4> HIDE DEF Typed
      <4>2. calls' \in [Callers -> Typed]
        BY <1>1, <2>0, <4>1
      <4>3. lastSeq' \in 0..MaxSeq
        BY <2>0, <3>1, <4>1
      <4>4. QED
        BY <4>2, <4>3
    <3>3. [event |-> calls[c].event, seq |-> calls[c].seq] \in Bounded
      BY <3>1
    <3> HIDE DEF Bounded
    <3>4. log \in Seq(Bounded)
          /\ log' \in {log, Append(log, [event |-> calls[c].event, seq |-> calls[c].seq])}
      BY <2>0, <2>5 DEF Commit, SwallowRefusal
    <3>5. log' \in Seq(Bounded)
      BY <3>3, <3>4
    <3>6. <<calls[c].seq, IdOf[calls[c].event]>> \in (1..MaxSeq) \X Ids
      BY <2>0, <3>1
    <3>7. lost' \in {lost, lost \cup {<<calls[c].seq, IdOf[calls[c].event]>>}}
      BY <2>5 DEF Commit, SwallowRefusal
    <3>8. lost' \subseteq (1..MaxSeq) \X Ids
      BY <2>0, <3>6, <3>7
    <3>9. QED
      BY <2>0, <2>5, <3>2, <3>5, <3>8 DEF Commit, SwallowRefusal, PublishingTypeOK, Bounded
  <2>6. ASSUME NEW e \in Events, Expire(e) PROVE PublishingTypeOK'
    BY <2>0, <2>6 DEF Expire, PublishingTypeOK
  <2>7. CASE UNCHANGED publishingVars
    BY <2>0, <2>7 DEF publishingVars, PublishingTypeOK
  <2>8. QED
    BY <2>1, <2>2, <2>3, <2>4, <2>5, <2>6, <2>7 DEF PublishingNext
<1>4. Spec => []NumberInv
  BY NumberInit, NumberStep, HubPublishes, PTL DEF PublishingSpec
<1>5. QED
  BY <1>2, <1>3, <1>4, HubPublishes, PTL DEF PublishingSpec

\* What is shown is the price of a listing.
LEMMA CheapestIsPrice ==
    ASSUME NEW ls, \A v \in Vendors : ls[v].price \in Pr!Prices
    PROVE  Pr!Cheapest(ls) \in Pr!Prices
<1> DEFINE S == {ls[v].price : v \in Vendors}
<1>1. Pr!Prices \in SUBSET Nat
  BY PricesAssumption DEF Pr!Prices
<1>2. S \in SUBSET Nat /\ S \subseteq Pr!Prices /\ S # {}
  BY <1>1, PricesAssumption
<1>3. \E x \in S : \A y \in S : x <= y
  BY <1>2, LeastExists
<1>4. Pr!Min(S) \in S
  BY <1>3 DEF Pr!Min
<1>5. QED
  BY <1>2, <1>4 DEF Pr!Cheapest

LEMMA PricesTyped == Spec => []Pr!PricesTypeOK
<1> DEFINE Shown == display \in Pr!Prices /\ overlapped \in BOOLEAN
<1>1. Init => Shown
  <2>1. \A v \in Vendors : Pr!FirstListings[v].price \in Pr!Prices
    BY PricesAssumption DEF Pr!FirstListings, Pr!Prices
  <2>2. QED
    BY <2>1, CheapestIsPrice DEF Init, Pr!Init
<1>2. PricesInv /\ Shown /\ [Next]_vars => Shown'
  <2> SUFFICES ASSUME PricesInv, Shown, [Pr!Next]_<<rows, jobs, listings, display, overlapped>>
               PROVE  Shown'
    BY PricesMove
  <2>1. ASSUME NEW e \in Pr!PriceEvents, Pr!ApplyPriceUpdate(e) PROVE Shown'
    <3> DEFINE seen == [jobs[e].read EXCEPT ![e[1]].price = PriceOf[e[1]][e[2]]]
    <3>1. jobs[e].read \in [Vendors -> [price : Pr!Prices, seq : Nat]]
      BY DEF PricesInv, PricesShape, Pr!Listings
    <3>2. \A v \in Vendors : seen[v].price \in Pr!Prices
      BY <3>1, PriceEventsHaveNumbers
    <3>3. display' = Pr!Cheapest(seen) /\ overlapped' \in BOOLEAN
      BY <2>1 DEF Pr!ApplyPriceUpdate, Pr!PriceShown
    <3> HIDE DEF seen
    <3>4. QED
      BY <3>2, <3>3, CheapestIsPrice
  <2>2. QED
    BY <2>1 DEF Pr!Next, Pr!Receive, Pr!StartJob, Pr!DropStale, Pr!RefuseConflict, Pr!LoseJob,
                Pr!Archive
<1>3. PricesInv /\ Shown => Pr!PricesTypeOK
  BY DEF PricesInv, PricesShape, Pr!PricesTypeOK
<1>4. Spec => []PricesInv
  BY PricesStart, PricesStep, PTL DEF Spec
<1>5. QED
  BY <1>1, <1>2, <1>3, <1>4, PTL DEF Spec

LEMMA ChartTyped == Spec => []Ch!ChartTypeOK
<1> DEFINE Stepped == step \in -1..Len(SetUp)
<1>0. Len(SetUp) \in Nat
  BY ChartAssumption
<1>1. Init => Stepped
  BY <1>0 DEF Init, Ch!Init
<1>2. Stepped /\ [Next]_vars => Stepped'
  <2> SUFFICES ASSUME Stepped, [Ch!Next]_<<chart, step, ready, cache, fresh>> PROVE Stepped'
    BY ChartMoves
  <2>1. ASSUME Ch!StartSetup \/ Ch!FinishSetup PROVE Stepped'
    <3>1. step' = 0 \/ step' = -1
      BY <2>1, Zenon DEF Ch!StartSetup, Ch!FinishSetup
    <3>2. QED
      BY <1>0, <3>1
  <2>2. ASSUME NEW works \in BOOLEAN, Ch!CreateAccount(works) PROVE Stepped'
    BY <1>0, <2>2 DEF Ch!CreateAccount
  <2>3. ASSUME step' = step PROVE Stepped'
    BY <2>3
  <2>4. QED
    BY <2>1, <2>2, <2>3 DEF Ch!Next, Ch!Restart, Ch!GetAccount, Ch!RemoveAccount
<1>3. ChartInv /\ Stepped => Ch!ChartTypeOK
  BY DEF ChartInv, Ch!ChartTypeOK
<1>4. Spec => []ChartInv
  BY ChartStart, ChartStep, PTL DEF Spec
<1>5. QED
  BY <1>1, <1>2, <1>3, <1>4, PTL DEF Spec

\* The entries and the other components' states: their invariants say more.
LEMMA LedgerTyped == Spec => []Le!LedgerTypeOK
<1>1. LedgerInv => Le!LedgerTypeOK
  <2> SUFFICES ASSUME LedgerInv PROVE Le!LedgerTypeOK
    OBVIOUS
  <2>1. ASSUME NEW b \in DOMAIN gl, NEW leg \in Le!ToSet(b.legs)
        PROVE  leg.debit >= 0 /\ leg.credit >= 0
    <3>1. b.legs \in Seq(Leg)
      BY DEF LedgerInv, Fair
    <3>2. leg \in Leg
      BY <2>1, <3>1 DEF Le!ToSet
    <3>3. QED
      BY <3>2 DEF Leg
  <2>2. \A r \in Requests : posting[r].op \in {"none", "gateway", "admin", "refund"}
    BY DEF LedgerInv, Asking
  <2>3. \A b \in DOMAIN gl : b.kind \in Le!Kinds /\ b.whole \in BOOLEAN
    BY DEF LedgerInv, Fair
  <2>4. QED
    BY <2>1, <2>2, <2>3 DEF LedgerInv, DealIs, Le!LedgerTypeOK, Le!BagToSet
<1>2. QED
  BY <1>1, LedgerStart, LedgerStep, PTL DEF Spec

\* Every component's state keeps its type (the doctypes' fields, the cache's
\* entries and what requests hold between reading and writing them).
THEOREM HubIsTyped == Spec => []TypeOK
<1>1. Spec => []LimitsHoldInv
  BY LimitsHoldAlways
<1>2. Spec => []CodesInv
  BY CodesStart, CodesStep, PTL DEF Spec
<1>3. Spec => []ErpInv
  BY ErpStart, ErpStep, PTL DEF Spec
<1>4. Spec => []DevicesInv
  BY DevicesStart, DevicesStep, PTL DEF Spec
<1>5. Spec => []BreakerInv
  BY BreakerStart, BreakerStep, PTL DEF Spec
<1>6. Spec => []RotationInv
  BY RotationStart, RotationStep, PTL DEF Spec
<1>7. LimitsHoldInv => Ra!LimitsTypeOK /\ Au!AuthTypeOK /\ Eb!BudgetTypeOK
  BY LimitsAssumption
     DEF LimitsHoldInv, LimitsInv, AuthInv, BudgetInv, Ra!LimitsTypeOK
<1>8. ErpInv => Er!ErpSyncTypeOK
  BY DEF ErpInv, ErpShape, Runs, Er!ErpSyncTypeOK
<1>9. /\ CodesInv => On!CodesTypeOK
      /\ DevicesInv => De!DevicesTypeOK
      /\ BreakerInv => Ci!BreakerTypeOK
      /\ RotationInv => Se!RotationTypeOK
  BY DEF CodesInv, DevicesInv, BreakerInv, RotationInv
<1>10. QED
  BY <1>1, <1>2, <1>3, <1>4, <1>5, <1>6, <1>7, <1>8, <1>9, PayoutsTyped, PublishingTyped,
     PricesTyped, ChartTyped, LedgerTyped, PTL DEF TypeOK
=============================================================================
