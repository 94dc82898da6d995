------------------------------- MODULE Devices --------------------------------
(***************************************************************************)
(* The phones a customer's push notifications go to                        *)
(* (api/push_notifications.py): a row per registration of an FCM token,    *)
(* which no index makes unique.  A request looks the token up and then     *)
(* inserts a row.  A token that is found is to be given to the caller, but *)
(* the lookup answers a tuple, whose "user" cannot be read: the request    *)
(* fails before it writes.                                                 *)
(***************************************************************************)
EXTENDS Integers, Sequences, FiniteSets, SequencesExt

CONSTANTS
    Users,       \* the customers who log in on the phones
    Tokens,      \* the phones
    Nobody,      \* nobody is logged in on a phone
    MaxAsking,   \* bound: registrations of a phone at once
    MaxRows,     \* bound: rows of a phone
    Lifetime     \* the periods a row is active without being seen

VARIABLES
    devices,     \* devices[t]: the SM Notification Device rows of a phone
    login,       \* who uses each phone
    asking,      \* the users of the registrations whose lookup found nothing
    doubled      \* the phones two registrations found unknown at once

deviceVars == <<devices, login, asking, doubled>>

\* age: the periods since last_seen, which nothing renews.
Device == [user : Users, active : BOOLEAN, age : 0..Lifetime]

DevicesTypeOK ==
    /\ devices \in [Tokens -> Seq(Device)]
    /\ login \in [Tokens -> Users \cup {Nobody}]
    /\ asking \in [Tokens -> Seq(Users)]
    /\ doubled \subseteq Tokens

Init ==
    /\ devices = [t \in Tokens |-> <<>>]
    /\ login = [t \in Tokens |-> Nobody]
    /\ asking = [t \in Tokens |-> <<>>]
    /\ doubled = {}

-----------------------------------------------------------------------------
\* Fault: only the caller's own rows are looked up.
KnownToCaller(t, u) == \E i \in DOMAIN devices[t] : devices[t][i].user = u
\* Fault: only active rows are looked up.
KnownActive(t, u) == \E i \in DOMAIN devices[t] : devices[t][i].active
\* The lookup takes no account of the user, nor of is_active.
Known(t, u) == devices[t] # <<>>

LogIn(t, u) ==
    /\ login[t] = Nobody
    /\ login' = [login EXCEPT ![t] = u]
    /\ UNCHANGED <<devices, asking, doubled>>

\* register_device, up to its lookup: a known token ends in the TypeError.
RegisterDevice(t) ==
    /\ login[t] # Nobody
    /\ ~Known(t, login[t])
    /\ Len(asking[t]) < MaxAsking
    /\ asking' = [asking EXCEPT ![t] = Append(@, login[t])]
    /\ doubled' = IF asking[t] = <<>> THEN doubled ELSE doubled \cup {t}
    /\ UNCHANGED <<devices, login>>

InsertDevice(t, i) ==
    /\ i \in DOMAIN asking[t]
    /\ Len(devices[t]) < MaxRows
    /\ devices' = [devices EXCEPT ![t] =
          Append(@, [user |-> asking[t][i], active |-> TRUE, age |-> 0])]
    /\ asking' = [asking EXCEPT ![t] = RemoveAt(@, i)]
    /\ UNCHANGED <<login, doubled>>

\* unregister_device silences one of the caller's rows, whichever the lookup
\* finds, and the app logs out; a session may also just end.
UnregisterDevice(t, i) ==
    /\ i \in DOMAIN devices[t] /\ devices[t][i].user = login[t]
    /\ devices' = [devices EXCEPT ![t][i].active = FALSE]
    /\ login' = [login EXCEPT ![t] = Nobody]
    /\ UNCHANGED <<asking, doubled>>

EndSession(t) ==
    /\ login[t] # Nobody
    /\ login' = [login EXCEPT ![t] = Nobody]
    /\ UNCHANGED <<devices, asking, doubled>>

\* A period passes, and the rows not seen for too long are silenced.
CleanupStaleTokens ==
    /\ devices' = [t \in Tokens |-> [i \in DOMAIN devices[t] |->
          LET d == devices[t][i] IN
          IF d.age < Lifetime THEN [d EXCEPT !.age = @ + 1] ELSE [d EXCEPT !.active = FALSE]]]
    /\ UNCHANGED <<login, asking, doubled>>

Next ==
    \/ \E t \in Tokens, u \in Users : LogIn(t, u)
    \/ \E t \in Tokens : RegisterDevice(t) \/ EndSession(t) \/
                         (\E i \in 1..MaxRows : InsertDevice(t, i) \/ UnregisterDevice(t, i))
    \/ CleanupStaleTokens

Spec == Init /\ [][Next]_deviceVars

-----------------------------------------------------------------------------
\* The phones a notification of u is sent to.
DeviceTokens(u) ==
    {t \in Tokens : \E i \in DOMAIN devices[t] : devices[t][i].user = u /\ devices[t][i].active}

\* Nobody reads another customer's notifications on a phone that is unregistered
\* at logout: a phone is never both of two users', unless it was registered
\* twice at once.
OneUserPerPhone ==
    \A t \in Tokens \ doubled : Cardinality({u \in Users : t \in DeviceTokens(u)}) <= 1

\* A customer who unregisters a phone gets no more notifications there, unless
\* it was registered twice at once and the other row answers.
LogoutSilences ==
    \A t \in Tokens \ doubled, i \in 1..MaxRows :
        UnregisterDevice(t, i) => t \notin DeviceTokens(devices[t][i].user)'

\* A step leaves each phone to whoever registered it last.
PhonesStayOnesOwn == OneUserPerPhone' /\ LogoutSilences
===============================================================================
