---------------------------- MODULE OneTimeCodes -----------------------------
(***************************************************************************)
(* Sign-up and password reset of one customer by codes sent in e-mails     *)
(* (api/auth_full.py).  Codes are numbered as they are sent; a record of   *)
(* Pending Verification holds one code of one purpose until it expires.    *)
(***************************************************************************)
EXTENDS Integers, FiniteSets

CONSTANTS
    Requests,   \* verifications that may run at once
    NoRecord,
    MaxCodes    \* bound: codes ever sent

VARIABLES
    user,      \* the account: missing, disabled until it is verified, enabled
    records,   \* the Pending Verification rows, named after their first code
    sent,      \* the code last sent for each purpose
    codes,     \* codes ever sent
    verifying, \* the record whose code each request has compared
    used       \* the codes that verified the account or set a password

codeVars == <<user, records, sent, codes, verifying, used>>

Purposes == {"signup", "password_reset"}
Record == [name : 1..MaxCodes, purpose : Purposes, code : 1..MaxCodes, expired : BOOLEAN]

CodesTypeOK ==
    /\ user \in {"missing", "disabled", "enabled"}
    /\ records \subseteq Record
    /\ sent \in [Purposes -> 0..MaxCodes]
    /\ codes \in 0..MaxCodes
    /\ verifying \in [Requests -> Record \cup {NoRecord}]
    /\ used \subseteq 1..MaxCodes

Init ==
    /\ user = "missing"
    /\ records = {}
    /\ sent = [p \in Purposes |-> 0]
    /\ codes = 0
    /\ verifying = [r \in Requests |-> NoRecord]
    /\ used = {}

Of(p) == {rec \in records : rec.purpose = p}
NewRecord(p) == [name |-> codes + 1, purpose |-> p, code |-> codes + 1, expired |-> FALSE]

Send(p) ==
    /\ codes < MaxCodes
    /\ codes' = codes + 1
    /\ sent' = [sent EXCEPT ![p] = codes + 1]
    /\ UNCHANGED <<verifying, used>>

\* signup: one transaction inserts the user and the record.
Signup ==
    /\ user = "missing"
    /\ user' = "disabled"
    /\ records' = records \cup {NewRecord("signup")}
    /\ Send("signup")

\* forgot_password inserts another record whatever is pending.
ForgotPassword ==
    /\ user # "missing"
    /\ records' = records \cup {NewRecord("password_reset")}
    /\ UNCHANGED user
    /\ Send("password_reset")

\* Fault: a resent code goes to a record of its own.
ResentBeside(p) == {records \cup {NewRecord(p)}}

\* What resend_otp may leave: one record found for the purpose is renewed, or
\* one is inserted when there is none.  The call is taken whole: two that
\* overlap with nothing pending would insert a record each.
Resent(p) ==
    IF Of(p) = {} THEN {records \cup {NewRecord(p)}}
    ELSE {(records \ {rec}) \cup {[NewRecord(p) EXCEPT !.name = rec.name]} : rec \in Of(p)}

ResendOtp(p) ==
    /\ user # "missing"
    /\ records' \in Resent(p)
    /\ UNCHANGED user
    /\ Send(p)

-----------------------------------------------------------------------------
\* _validate_otp_record looks at one record of the purpose, of several at any.
\* An expired one is deleted, and the request refused.
FindExpired(p) ==
    /\ \E rec \in Of(p) : rec.expired /\ records' = records \ {rec}
    /\ UNCHANGED <<user, sent, codes, verifying, used>>

\* Its code is the one presented.  Another is refused, and nothing changes.
Compare(r, code) ==
    /\ verifying[r] = NoRecord
    /\ \E rec \in records :
         /\ ~rec.expired /\ rec.code = code
         /\ verifying' = [verifying EXCEPT ![r] = rec]
    /\ UNCHANGED <<user, records, sent, codes, used>>

\* Fault: the record of a code that was used stays.
RecordsAfterKept(rec) == records

\* The record is deleted by its name, with the code it holds by now.
RecordsAfter(rec) == {other \in records : other.name # rec.name}

\* verify_signup_otp, or verify_forgot_password_otp, which sets the password
\* and enables an account that was not verified yet as well.
FinishVerification(r) ==
    /\ verifying[r] # NoRecord
    /\ user' = "enabled"
    /\ used' = used \cup {verifying[r].code}
    /\ records' = RecordsAfter(verifying[r])
    /\ verifying' = [verifying EXCEPT ![r] = NoRecord]
    /\ UNCHANGED <<sent, codes>>

\* Fifteen minutes pass for a record.
Expire(rec) ==
    /\ ~rec.expired
    /\ records' = (records \ {rec}) \cup {[rec EXCEPT !.expired = TRUE]}
    /\ UNCHANGED <<user, sent, codes, verifying, used>>

\* cleanup_expired_verifications, daily.
CleanupExpired ==
    /\ records' = {rec \in records : ~rec.expired}
    /\ UNCHANGED <<user, sent, codes, verifying, used>>

Next ==
    \/ Signup \/ ForgotPassword \/ CleanupExpired
    \/ \E p \in Purposes : ResendOtp(p) \/ FindExpired(p)
    \/ \E r \in Requests :
         FinishVerification(r) \/ \E code \in 1..codes : Compare(r, code)
    \/ \E rec \in records : Expire(rec)

Spec == Init /\ [][Next]_codeVars

-----------------------------------------------------------------------------
\* A customer who signs up can use the last code in the inbox: no record of
\* sign-up holds another, however often it was resent, expired or purged.
LastSignupCodeWorks ==
    user = "disabled" => \A rec \in Of("signup") : rec.code = sent["signup"]

\* A code works once, but for requests that compared it at the same time: one
\* that was used is on no record, though records are renewed under it.
UsedCodesAreGone == \A rec \in records : rec.code \notin used

\* The last code sent can be used, and once.
CodesWorkOnce == LastSignupCodeWorks /\ UsedCodesAreGone
=============================================================================
