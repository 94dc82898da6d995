--------------------------- MODULE SecretRotation ----------------------------
(***************************************************************************)
(* Rotating the webhook secret of one vendor (api/secret_rotation.py), the *)
(* hub's check of a push against the current and the previous secret       *)
(* (api/utils.py verify_hub_secret), and the vendor's three fields as the  *)
(* module's header describes them.  Secrets are numbered as they are made. *)
(* Pushes are signed at one moment and verified at a later one.            *)
(***************************************************************************)
EXTENDS Integers

CONSTANTS
    Admins,     \* rotations that may run at once
    MaxSecret   \* bound: rotations ever started

VARIABLES
    hub,       \* Vendor.webhook_secret and webhook_secret_old on the hub
    vendor,    \* the vendor's current, next and old secret
    rotation,  \* the phase of each admin's rotation, the secret it made and the
               \* one it found
    started,   \* rotations started
    crossed,   \* whether one was started before another was promoted
    pushes     \* a push under way from each side: its secret, and the rotations
               \* that were over when it was signed

rotationVars == <<hub, vendor, rotation, started, crossed, pushes>>

None == -1
Secrets == 0..MaxSecret
Phases == {"none", "made", "staged", "flipped"}
NotRotating == [phase |-> "none", secret |-> None, read |-> None]
NoPush == [secret |-> None, sent |-> None]

RotationTypeOK ==
    /\ hub \in [current : Secrets, old : Secrets \cup {None}]
    /\ vendor \in [current : Secrets, next : Secrets \cup {None}, old : Secrets \cup {None}]
    /\ rotation \in [Admins -> [phase : Phases, secret : Secrets \cup {None},
                               read : Secrets \cup {None}]]
    /\ started \in Secrets
    /\ crossed \in BOOLEAN
    /\ pushes \in [{"hub", "vendor"} -> [secret : Secrets \cup {None},
                                         sent : Secrets \cup {None}]]

Init ==
    /\ hub = [current |-> 0, old |-> None]
    /\ vendor = [current |-> 0, next |-> None, old |-> None]
    /\ rotation = [a \in Admins |-> NotRotating]
    /\ started = 0
    /\ crossed = FALSE
    /\ pushes = [side \in {"hub", "vendor"} |-> NoPush]

\* Fault: the hub forgets the previous secret with the flip.
HubAcceptsCurrent == {hub.current}

\* What each side verifies a signature against.
HubAccepts == {hub.current, hub.old}
VendorAccepts == {vendor.current, vendor.next, vendor.old}

-----------------------------------------------------------------------------
(* rotate_vendor_secret.                                                   *)

\* The flip of an earlier rotation has not been promoted.
Unpromoted == hub.current # vendor.current

Rotating == \E a \in Admins : rotation[a].phase # "none"

MakeSecret(a) ==
    /\ rotation[a].phase = "none"
    /\ started < MaxSecret
    /\ started' = started + 1
    /\ rotation' = [rotation EXCEPT ![a] = 
            [phase |-> "made", secret |-> started + 1, read |-> hub.current]]
    /\ crossed' = (crossed \/ Unpromoted \/ Rotating)
    /\ UNCHANGED <<hub, vendor, pushes>>

\* The vendor stages it, if it accepts the hub's signature; the answer may be
\* lost, and the hub then gives up.
StageReaches(a, answered) ==
    /\ rotation[a].phase = "made"
    /\ hub.current \in VendorAccepts
    /\ vendor' = [vendor EXCEPT !.next = rotation[a].secret]
    /\ rotation' = [rotation EXCEPT ![a] =
            IF answered THEN [@ EXCEPT !.phase = "staged"] ELSE NotRotating]
    /\ UNCHANGED <<hub, started, crossed, pushes>>

MayFlip(a) == rotation[a].phase = "staged"

\* Both fields in one commit; the old one is what this rotation read.
Flip(a) ==
    /\ MayFlip(a)
    /\ hub' = [current |-> rotation[a].secret, old |-> rotation[a].read]
    /\ rotation' = [rotation EXCEPT ![a].phase = "flipped"]
    /\ UNCHANGED <<vendor, started, crossed, pushes>>

\* The vendor promotes what is staged; the answer may be lost, which the hub
\* only logs.
PromoteReaches(a) ==
    /\ rotation[a].phase = "flipped"
    /\ hub.current \in VendorAccepts
    /\ vendor' = IF vendor.next = None THEN vendor
                 ELSE [current |-> vendor.next, next |-> None, old |-> vendor.current]
    /\ rotation' = [rotation EXCEPT ![a] = NotRotating]
    /\ UNCHANGED <<hub, started, crossed, pushes>>

\* The request is lost or rejected, or the hub dies: the rotation ends here.
Abandon(a) ==
    /\ rotation[a].phase # "none"
    /\ rotation' = [rotation EXCEPT ![a] = NotRotating]
    /\ UNCHANGED <<hub, vendor, started, crossed, pushes>>

-----------------------------------------------------------------------------
(* Event pushes, signed with the side's own current secret.                *)

Sign(side) ==
    /\ pushes[side] = NoPush
    /\ pushes' = [pushes EXCEPT ![side] =
            [secret |-> IF side = "hub" THEN hub.current ELSE vendor.current,
             sent |-> IF Rotating THEN started - 1 ELSE started]]
    /\ UNCHANGED <<hub, vendor, rotation, started, crossed>>

Verify(side) ==
    /\ pushes[side] # NoPush
    /\ pushes' = [pushes EXCEPT ![side] = NoPush]
    /\ UNCHANGED <<hub, vendor, rotation, started, crossed>>

Next ==
    \/ \E a \in Admins :
         \/ MakeSecret(a) \/ Flip(a) \/ PromoteReaches(a) \/ Abandon(a)
         \/ \E answered \in BOOLEAN : StageReaches(a, answered)
    \/ \E side \in {"hub", "vendor"} : Sign(side) \/ Verify(side)

Spec == Init /\ [][Next]_rotationVars

-----------------------------------------------------------------------------
Accepted(side) ==
    pushes[side].secret \in (IF side = "hub" THEN VendorAccepts ELSE HubAccepts)

\* "At no instant may a legitimately-signed request be rejected", for rotations
\* that start after the one before was promoted: a push is verifiable until the
\* second rotation after it was signed.
RotationKeepsPushes ==
    \A side \in {"hub", "vendor"} :
        pushes[side] # NoPush /\ ~crossed /\ started <= pushes[side].sent + 1 => Accepted(side)
=============================================================================
