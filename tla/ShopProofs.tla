------------------------------ MODULE ShopProofs -----------------------------
(***************************************************************************)
(* Theorems about Shop, for all values of its constants.                   *)
(***************************************************************************)
EXTENDS Shop, SumProofs

-----------------------------------------------------------------------------
(* Finite sets and least numbers.                                          *)

LEMMA PartBound ==
    ASSUME NEW S, IsFiniteSet(S), NEW T, T \subseteq S
    PROVE  IsFiniteSet(T) /\ Cardinality(T) \in Nat /\ Cardinality(T) <= Cardinality(S)
BY FS_Subset, FS_CardinalityType

LEMMA UnionBound ==
    ASSUME NEW S, IsFiniteSet(S), NEW T, IsFiniteSet(T), NEW U, U \subseteq S \cup T
    PROVE  /\ Cardinality(U) \in Nat /\ Cardinality(S) \in Nat /\ Cardinality(T) \in Nat
           /\ Cardinality(U) <= Cardinality(S) + Cardinality(T)
<1>1. IsFiniteSet(S \cup T) /\ IsFiniteSet(S \cap T)
  BY FS_Union, FS_Intersection
<1>2. Cardinality(S \cup T) = Cardinality(S) + Cardinality(T) - Cardinality(S \cap T)
  BY FS_Union
<1>3. /\ Cardinality(S) \in Nat /\ Cardinality(T) \in Nat /\ Cardinality(S \cup T) \in Nat
      /\ Cardinality(S \cap T) \in Nat
  BY <1>1, FS_CardinalityType
<1>4. Cardinality(U) \in Nat /\ Cardinality(U) <= Cardinality(S \cup T)
  BY <1>1, PartBound
<1>5. QED
  BY <1>2, <1>3, <1>4

-----------------------------------------------------------------------------
(* DeliverySlots.                                                          *)

LEMMA SlotsMove == [Next]_vars => [Sl!Next]_<<slotActive, bookings, counting>>
BY DEF Next, vars, Shows, Pays, Asks, StillPlaces, StillSlots

\* The bookings that take room on a date, or will once they are inserted.
TakingRoom(d) ==
    {b \in Bookings : /\ bookings[b].date = d
                      /\ bookings[b].status \in {"Booked", "Confirmed"} \/ b \in counting}

SlotsInv ==
    /\ Sl!SlotsTypeOK
    /\ \A d \in Dates : Cardinality(TakingRoom(d)) <= Sl!Capacity + MaxBusy - 1

LEMMA RoomIsFinite ==
    \A d \in Dates : /\ IsFiniteSet(TakingRoom(d)) /\ Cardinality(TakingRoom(d)) \in Nat
                     /\ IsFiniteSet(TakingRoom(d)') /\ Cardinality(TakingRoom(d)') \in Nat
<1> SUFFICES ASSUME NEW d \in Dates
             PROVE  /\ IsFiniteSet(TakingRoom(d)) /\ Cardinality(TakingRoom(d)) \in Nat
                    /\ IsFiniteSet(TakingRoom(d)') /\ Cardinality(TakingRoom(d)') \in Nat
  OBVIOUS
<1>1. TakingRoom(d) \subseteq Bookings /\ TakingRoom(d)' \subseteq Bookings
  BY DEF TakingRoom
<1>2. QED
  BY <1>1, SlotsAssumption, PartBound

LEMMA SlotsStart == Init => SlotsInv
<1> SUFFICES ASSUME Init PROVE SlotsInv
  OBVIOUS
<1> DEFINE first == CHOOSE d \in Dates : TRUE
<1>1. slotActive = TRUE /\ counting = {} /\ bookings \in [Bookings -> [status : {"none"}, date : {first}]]
  BY DEF Init, Sl!Init
<1>2. \A d \in Dates : TakingRoom(d) = {}
  BY <1>1 DEF TakingRoom
<1>3. first \in Dates
  BY SlotsAssumption
<1>4. Sl!SlotsTypeOK
  BY <1>1, <1>3 DEF Sl!SlotsTypeOK
<1>5. 0 <= Sl!Capacity + MaxBusy - 1
  BY SlotsAssumption, CouponsAssumption DEF Sl!Capacity
<1>6. \A d \in Dates : Cardinality(TakingRoom(d)) = 0
  BY <1>2, FS_EmptySet
<1>7. QED
  BY <1>4, <1>5, <1>6 DEF SlotsInv

LEMMA SlotsStep == SlotsInv /\ [Next]_vars => SlotsInv'
<1> SUFFICES ASSUME SlotsInv, [Sl!Next]_<<slotActive, bookings, counting>> PROVE SlotsInv'
  BY SlotsMove
<1> USE SlotsAssumption, CouponsAssumption
<1> DEFINE Row == [status : {"none", "Booked", "Confirmed", "Cancelled"}, date : Dates]
<1>0. /\ Sl!SlotsTypeOK /\ bookings \in [Bookings -> Row] /\ counting \subseteq Bookings
      /\ Sl!Capacity \in Nat /\ Sl!Capacity' = Sl!Capacity
      /\ \A d \in Dates : Cardinality(TakingRoom(d)) <= Sl!Capacity + MaxBusy - 1
  BY DEF SlotsInv, Sl!SlotsTypeOK, Sl!Capacity
\* A step that takes no room keeps the bound.
<1>1. ASSUME Sl!SlotsTypeOK', \A d \in Dates : TakingRoom(d)' \subseteq TakingRoom(d)
      PROVE  SlotsInv'
  <2>1. \A d \in Dates : Cardinality(TakingRoom(d)') <= Cardinality(TakingRoom(d))
    BY <1>1, RoomIsFinite, PartBound
  <2>2. \A d \in Dates : Cardinality(TakingRoom(d)') <= Sl!Capacity + MaxBusy - 1
    BY <1>0, <2>1, RoomIsFinite
  <2>3. QED
    BY <1>0, <1>1, <2>2 DEF SlotsInv
<1>2. ASSUME NEW b \in Bookings, NEW d \in Dates, Sl!StartBooking(b, d) PROVE SlotsInv'
  <2>1. /\ bookings' = [bookings EXCEPT ![b].date = d] /\ counting' = counting \cup {b}
        /\ slotActive' = slotActive /\ bookings[b].status = "none" /\ b \notin counting
        /\ Sl!Cardinality(counting) < MaxBusy /\ Sl!Cardinality(Sl!Occupied(d)) < Sl!Capacity
    BY <1>2 DEF Sl!StartBooking, Sl!Accepts
  <2>2. Sl!SlotsTypeOK'
    BY <1>0, <2>1 DEF Sl!SlotsTypeOK
  <2>3. \A e \in Dates \ {d} : TakingRoom(e)' \subseteq TakingRoom(e)
    BY <1>0, <2>1 DEF TakingRoom
  <2>4. TakingRoom(d)' \subseteq Sl!Occupied(d) \cup (counting \cup {b})
    BY <1>0, <2>1 DEF TakingRoom, Sl!Occupied
  <2>5. /\ IsFiniteSet(counting) /\ IsFiniteSet(counting \cup {b}) /\ Cardinality(counting) \in Nat
        /\ Cardinality(counting \cup {b}) = Cardinality(counting) + 1
    BY <1>0, <2>1, PartBound, FS_AddElement
  <2>6. IsFiniteSet(Sl!Occupied(d))
    BY PartBound DEF Sl!Occupied
  <2>7. Cardinality(TakingRoom(d)') <= Cardinality(Sl!Occupied(d)) + Cardinality(counting \cup {b})
        /\ Cardinality(Sl!Occupied(d)) \in Nat
    BY <2>4, <2>5, <2>6, UnionBound
  <2>8. Cardinality(counting) < MaxBusy /\ Cardinality(Sl!Occupied(d)) < Sl!Capacity
    BY <2>1 DEF Sl!Cardinality, Cardinality
  <2>9. Cardinality(TakingRoom(d)') <= Sl!Capacity + MaxBusy - 1
    BY <1>0, <2>5, <2>7, <2>8, RoomIsFinite
  <2>10. \A e \in Dates \ {d} : Cardinality(TakingRoom(e)') <= Sl!Capacity + MaxBusy - 1
    <3>1. \A e \in Dates \ {d} : Cardinality(TakingRoom(e)') <= Cardinality(TakingRoom(e))
      BY <2>3, RoomIsFinite, PartBound
    <3>2. QED
      BY <1>0, <3>1, RoomIsFinite
  <2>11. QED
    BY <1>0, <2>2, <2>9, <2>10 DEF SlotsInv
<1>3. ASSUME NEW b \in Bookings, Sl!FinishBooking(b) PROVE SlotsInv'
  <2>1. Sl!SlotsTypeOK'
    BY <1>0, <1>3 DEF Sl!FinishBooking, Sl!SlotsTypeOK
  <2>2. \A d \in Dates : TakingRoom(d)' \subseteq TakingRoom(d)
    BY <1>0, <1>3 DEF Sl!FinishBooking, TakingRoom
  <2>3. QED
    BY <1>1, <2>1, <2>2
<1>4. ASSUME NEW b \in Bookings, Sl!Confirm(b) PROVE SlotsInv'
  <2>1. Sl!SlotsTypeOK'
    BY <1>0, <1>4 DEF Sl!Confirm, Sl!SlotsTypeOK
  <2>2. \A d \in Dates : TakingRoom(d)' \subseteq TakingRoom(d)
    BY <1>0, <1>4 DEF Sl!Confirm, TakingRoom
  <2>3. QED
    BY <1>1, <2>1, <2>2
<1>5. ASSUME NEW b \in Bookings, Sl!CancelSlotBooking(b) PROVE SlotsInv'
  <2>1. Sl!SlotsTypeOK'
    BY <1>0, <1>5 DEF Sl!CancelSlotBooking, Sl!SlotsTypeOK
  <2>2. \A d \in Dates : TakingRoom(d)' \subseteq TakingRoom(d)
    BY <1>0, <1>5 DEF Sl!CancelSlotBooking, TakingRoom
  <2>3. QED
    BY <1>1, <2>1, <2>2
<1>6. CASE Sl!SwitchSlot \/ UNCHANGED <<slotActive, bookings, counting>>
  <2>1. Sl!SlotsTypeOK' /\ bookings' = bookings /\ counting' = counting
    BY <1>0, <1>6 DEF Sl!SwitchSlot, Sl!SlotsTypeOK
  <2>2. \A d \in Dates : TakingRoom(d)' \subseteq TakingRoom(d)
    BY <2>1 DEF TakingRoom
  <2>3. QED
    BY <1>1, <2>1, <2>2
<1>7. QED
  BY <1>2, <1>3, <1>4, <1>5, <1>6 DEF Sl!Next

\* book_slot counts and inserts without a lock, so a date is overbooked by the
\* requests that counted at once and by no more; and what get_available_slots
\* lists is what book_slot accepts (api/delivery_slots.py).
THEOREM SlotsStaySound == Spec => []SlotsAreSound
<1>1. SlotsInv => SlotsAreSound
  <2> SUFFICES ASSUME SlotsInv PROVE Sl!SlotsAreSound
    BY DEF SlotsAreSound
  <2>1. \A d \in Dates :
          LET taken == {b \in Bookings : bookings[b].date = d
                          /\ bookings[b].status \notin {"none", "Cancelled"}}
          IN Cardinality(taken) \in Nat /\ Cardinality(taken) <= Cardinality(TakingRoom(d))
    <3> SUFFICES ASSUME NEW d \in Dates
                 PROVE  LET taken == {b \in Bookings : bookings[b].date = d
                                        /\ bookings[b].status \notin {"none", "Cancelled"}}
                        IN Cardinality(taken) \in Nat /\ Cardinality(taken) <= Cardinality(TakingRoom(d))
      OBVIOUS
    <3> DEFINE taken == {b \in Bookings : bookings[b].date = d
                           /\ bookings[b].status \notin {"none", "Cancelled"}}
    <3>1. taken \subseteq TakingRoom(d)
      BY DEF SlotsInv, Sl!SlotsTypeOK, TakingRoom
    <3>2. QED
      BY <3>1, RoomIsFinite, PartBound
  <2>2. Sl!BookingsWithinCapacity
    <3>1. \A d \in Dates : Cardinality(TakingRoom(d)) <= Sl!Capacity + MaxBusy - 1
      BY DEF SlotsInv
    <3>2. Sl!Capacity \in Nat
      BY SlotsAssumption DEF Sl!Capacity
    <3>3. \A d \in Dates :
            Cardinality({b \in Bookings : bookings[b].date = d
                          /\ bookings[b].status \notin {"none", "Cancelled"}}) <= Sl!Capacity + MaxBusy - 1
      BY <2>1, <3>1, <3>2, RoomIsFinite, CouponsAssumption
    <3>4. QED
      BY <3>3 DEF Sl!BookingsWithinCapacity, Sl!Cardinality, Cardinality
  <2>3. Sl!OfferedIsBookable
    <3>1. \A d \in Dates : Sl!Cardinality(Sl!Occupied(d)) \in Nat
      <4>1. \A d \in Dates : Cardinality(Sl!Occupied(d)) \in Nat
        BY SlotsAssumption, PartBound DEF Sl!Occupied
      <4>2. QED
        BY <4>1 DEF Sl!Cardinality, Cardinality
    <3>2. Sl!Capacity \in Nat
      BY SlotsAssumption DEF Sl!Capacity
    <3>3. QED
      BY <3>1, <3>2 DEF Sl!OfferedIsBookable, Sl!Offered, Sl!Accepts
  <2>4. QED
    BY <2>2, <2>3 DEF Sl!SlotsAreSound
<1>2. QED
  BY <1>1, SlotsStart, SlotsStep, PTL DEF Spec
-----------------------------------------------------------------------------
(* Coupons.                                                                *)

LEMMA CouponsMove ==
    [Next]_vars => [Co!Next]_<<active, usedCount, usages, priced, quoted, granted, drift>>
BY DEF Next, vars, Shows, Pays, Asks, StillOrders, StillCoupons

\* The orders that count as a use of the coupon, and those that have the discount
\* or will have it once their request ends.
UsesIt == {o \in Orders : priced[o] \in {"placed", "saving"}}
Pledged == {o \in Orders : granted[o] \/ quoted[o]}
PledgedTo(phone) == {o \in Pledged : PhoneOf[o] = phone}
Phones == {PhoneOf[o] : o \in Orders}

\* used_count and the rows are short of the orders by what has drifted, and the
\* discounts exceed the limits by those and by the requests that ran at once.
CouponsInv ==
    /\ Co!CouponsTypeOK
    /\ \A o \in Orders : /\ granted[o] => o \in UsesIt
                         /\ quoted[o] => priced[o] \in {"pricing", "saving"}
    /\ usages \subseteq UsesIt
    /\ Cardinality(UsesIt) <= usedCount + drift
    /\ Cardinality(UsesIt \ usages) <= drift
    /\ Cardinality(Pledged) <= MaxUses + MaxBusy - 1 + drift
    /\ \A phone \in Phones :
          Cardinality(PledgedTo(phone)) <= MaxPerPhone + MaxBusy - 1 + drift

LEMMA OrdersAreFew ==
    ASSUME NEW S, S \subseteq Orders
    PROVE  IsFiniteSet(S) /\ Cardinality(S) \in Nat
BY CouponsAssumption, PartBound

LEMMA CouponsStart == Init => CouponsInv
<1> SUFFICES ASSUME Init PROVE CouponsInv
  OBVIOUS
<1>1. /\ active = TRUE /\ usedCount = 0 /\ usages = {} /\ drift = 0
      /\ priced = [o \in Orders |-> "none"] /\ quoted = [o \in Orders |-> FALSE]
      /\ granted = [o \in Orders |-> FALSE]
  BY DEF Init, Co!Init
<1>2. Co!CouponsTypeOK
  BY <1>1, CouponsAssumption DEF Co!CouponsTypeOK
<1>3. UsesIt = {} /\ Pledged = {} /\ \A phone : PledgedTo(phone) = {}
  BY <1>1 DEF UsesIt, Pledged, PledgedTo
<1>4. Cardinality({}) = 0
  BY FS_EmptySet
<1>5. /\ Cardinality(UsesIt) = 0 /\ Cardinality(UsesIt \ usages) = 0 /\ Cardinality(Pledged) = 0
      /\ \A phone \in Phones : Cardinality(PledgedTo(phone)) = 0
  <2>1. UsesIt \ usages = {}
    BY <1>3
  <2>2. QED
    BY <1>3, <1>4, <2>1
<1>6. QED
  BY <1>1, <1>2, <1>5, CouponsAssumption DEF CouponsInv

\* The pledges only grow when an order is priced.
LEMMA PledgesShrink ==
    ASSUME CouponsInv, Co!CouponsTypeOK', drift <= drift', Pledged' \subseteq Pledged
    PROVE  /\ Cardinality(Pledged') <= MaxUses + MaxBusy - 1 + drift'
           /\ \A phone \in Phones :
                 Cardinality(PledgedTo(phone)') <= MaxPerPhone + MaxBusy - 1 + drift'
<1>1. drift \in Nat /\ drift' \in Nat
  BY CouponsAssumption DEF CouponsInv, Co!CouponsTypeOK
<1>2. /\ Cardinality(Pledged') <= Cardinality(Pledged) /\ Cardinality(Pledged) \in Nat
      /\ Cardinality(Pledged') \in Nat
  <2>1. Pledged \subseteq Orders
    BY DEF Pledged
  <2>2. QED
    BY <2>1, OrdersAreFew, PartBound
<1>3. ASSUME NEW phone \in Phones
      PROVE  /\ Cardinality(PledgedTo(phone)') <= Cardinality(PledgedTo(phone))
             /\ Cardinality(PledgedTo(phone)) \in Nat /\ Cardinality(PledgedTo(phone)') \in Nat
  <2>1. PledgedTo(phone) \subseteq Orders /\ PledgedTo(phone)' \subseteq PledgedTo(phone)
    BY DEF Pledged, PledgedTo
  <2>2. QED
    BY <2>1, OrdersAreFew, PartBound
<1>4. QED
  BY <1>1, <1>2, <1>3, CouponsAssumption DEF CouponsInv

\* A step after which the uses are as before, and nothing new is pledged.
LEMMA UsesStay ==
    ASSUME CouponsInv, Co!CouponsTypeOK', drift <= drift', UsesIt' = UsesIt, usages' \subseteq usages,
           UsesIt \ usages' = UsesIt \ usages, usedCount + drift <= usedCount' + drift',
           Pledged' \subseteq Pledged,
           \A o \in Orders : /\ granted'[o] => o \in UsesIt'
                             /\ quoted'[o] => priced'[o] \in {"pricing", "saving"}
    PROVE  CouponsInv'
<1>1. UsesIt \subseteq Orders
  BY DEF UsesIt
<1>2. drift \in Nat /\ drift' \in Nat /\ usedCount \in Nat /\ usedCount' \in Nat
  BY CouponsAssumption DEF CouponsInv, Co!CouponsTypeOK
<1>3. Cardinality(UsesIt) \in Nat /\ Cardinality(UsesIt \ usages) \in Nat
  BY <1>1, OrdersAreFew
<1>4. UsesIt' \ usages' = UsesIt \ usages /\ usages' \subseteq UsesIt'
  BY DEF CouponsInv
<1>5. Cardinality(UsesIt') <= usedCount' + drift'
  <2>1. Cardinality(UsesIt') = Cardinality(UsesIt)
    OBVIOUS
  <2>2. Cardinality(UsesIt) <= usedCount + drift /\ usedCount + drift <= usedCount' + drift'
    BY DEF CouponsInv
  <2>3. \A k, m, n, i, j \in Nat : k <= m + n /\ m + n <= i + j => k <= i + j
    OBVIOUS
  <2>4. QED
    BY <1>2, <1>3, <2>1, <2>2, <2>3, Zenon
<1>6. Cardinality(UsesIt' \ usages') <= drift'
  <2>1. Cardinality(UsesIt' \ usages') = Cardinality(UsesIt \ usages)
    BY <1>4
  <2>2. Cardinality(UsesIt \ usages) <= drift
    BY DEF CouponsInv
  <2>3. QED
    BY <1>2, <1>3, <2>1, <2>2
<1>7. QED
  BY <1>4, <1>5, <1>6, PledgesShrink DEF CouponsInv, Phones

LEMMA CouponsStep == CouponsInv /\ [Next]_vars => CouponsInv'
<1> SUFFICES ASSUME CouponsInv,
                    [Co!Next]_<<active, usedCount, usages, priced, quoted, granted, drift>>
             PROVE  CouponsInv'
  BY CouponsMove
<1> USE CouponsAssumption
<1>0. /\ Co!CouponsTypeOK /\ usages \subseteq UsesIt /\ UsesIt \subseteq Orders
      /\ Pledged \subseteq Orders /\ usages \subseteq Orders
      /\ usedCount \in Nat /\ drift \in 0..MaxDrift /\ drift \in Nat
      /\ Cardinality(UsesIt) \in Nat /\ Cardinality(UsesIt) <= usedCount + drift
      /\ Cardinality(UsesIt \ usages) \in Nat /\ Cardinality(UsesIt \ usages) <= drift
  <2>1. UsesIt \subseteq Orders /\ UsesIt \ usages \subseteq Orders
    BY DEF UsesIt
  <2>2. QED
    BY <2>1, OrdersAreFew DEF CouponsInv, Co!CouponsTypeOK, Pledged
<1>1. ASSUME NEW o \in Orders, Co!Price(o) PROVE CouponsInv'
  <2>1. /\ priced[o] \in {"none", "placed"} /\ Co!Cardinality(Co!Busy) < MaxBusy
        /\ priced' = [priced EXCEPT ![o] = IF priced[o] = "none" THEN "pricing" ELSE "saving"]
        /\ quoted' = [quoted EXCEPT ![o] = Co!Valid(o)]
        /\ UNCHANGED <<usedCount, usages, granted, drift, active>>
    BY <1>1 DEF Co!Price, Co!CanStart
  <2>2. Co!CouponsTypeOK'
    BY <1>0, <2>1 DEF Co!CouponsTypeOK, Co!Valid
  <2>3. /\ UsesIt' = UsesIt
        /\ \A p \in Orders : /\ granted'[p] => p \in UsesIt'
                             /\ quoted'[p] => priced'[p] \in {"pricing", "saving"}
    <3>1. UsesIt' = UsesIt
      BY <1>0, <2>1 DEF UsesIt, Co!CouponsTypeOK
    <3>2. QED
      BY <1>0, <2>1, <3>1 DEF CouponsInv, Co!CouponsTypeOK
  <2>4. CASE ~Co!Valid(o)
    <3>1. Pledged' \subseteq Pledged
      BY <1>0, <2>1, <2>4 DEF Pledged, Co!CouponsTypeOK
    <3>2. QED
      BY <1>0, <2>1, <2>2, <2>3, <3>1, UsesStay
  <2>5. CASE Co!Valid(o)
    <3> DEFINE busy == Co!Busy \cup {o}
    <3>1. /\ usedCount < MaxUses
          /\ Cardinality(Co!UsesOf(PhoneOf[o])) < MaxPerPhone
          /\ Cardinality(Co!Busy) < MaxBusy
      BY <2>1, <2>5 DEF Co!Valid, Co!Cardinality, Cardinality
    <3>2. IsFiniteSet(busy) /\ Cardinality(busy) \in Nat /\ Cardinality(busy) <= MaxBusy
      <4>1. Co!Busy \subseteq Orders /\ busy \subseteq Orders
        BY DEF Co!Busy
      <4>2. /\ IsFiniteSet(Co!Busy) /\ Cardinality(Co!Busy) \in Nat
            /\ IsFiniteSet(busy) /\ Cardinality(busy) \in Nat
        BY <4>1, OrdersAreFew
      <4>3. Cardinality(busy) <= Cardinality(Co!Busy) + 1
        BY <4>2, FS_AddElement
      <4>4. QED
        BY <3>1, <4>2, <4>3
    <3>3. \A p \in Pledged' : p \in UsesIt \/ p \in busy
      BY <1>0, <2>1, <2>3 DEF Pledged, CouponsInv, Co!CouponsTypeOK, Co!Busy
    <3>4. Cardinality(Pledged') <= MaxUses + MaxBusy - 1 + drift'
      <4>1. Pledged' \subseteq UsesIt \cup busy
        BY <3>3
      <4>2. Cardinality(Pledged') \in Nat /\ Cardinality(Pledged') <= Cardinality(UsesIt) + Cardinality(busy)
        BY <1>0, <3>2, <4>1, OrdersAreFew, UnionBound
      <4>3. QED
        BY <1>0, <2>1, <3>1, <3>2, <4>2
    <3>5. ASSUME NEW phone \in Phones
          PROVE  Cardinality(PledgedTo(phone)') <= MaxPerPhone + MaxBusy - 1 + drift'
      <4>1. CASE phone # PhoneOf[o]
        <5>1. PledgedTo(phone)' = PledgedTo(phone)
          BY <1>0, <2>1, <4>1 DEF PledgedTo, Pledged, Co!CouponsTypeOK
        <5>2. QED
          BY <2>1, <5>1 DEF CouponsInv
      <4>2. CASE phone = PhoneOf[o]
        <5> DEFINE uses == Co!UsesOf(phone)
        <5>1. PledgedTo(phone)' \subseteq (uses \cup (UsesIt \ usages)) \cup busy
          BY <1>0, <3>3 DEF PledgedTo, Co!UsesOf
        <5>2. IsFiniteSet(uses) /\ IsFiniteSet(UsesIt \ usages)
          <6>1. uses \subseteq Orders /\ UsesIt \ usages \subseteq Orders
            BY <1>0 DEF Co!UsesOf
          <6>2. QED
            BY <6>1, OrdersAreFew
        <5> HIDE DEF uses, busy
        <5>3. /\ Cardinality(uses \cup (UsesIt \ usages)) <= Cardinality(uses) + Cardinality(UsesIt \ usages)
              /\ Cardinality(uses) \in Nat /\ IsFiniteSet(uses \cup (UsesIt \ usages))
              /\ Cardinality(uses \cup (UsesIt \ usages)) \in Nat
          BY <5>2, UnionBound, FS_Union
        <5>4. /\ Cardinality(PledgedTo(phone)') \in Nat
              /\ Cardinality(PledgedTo(phone)')
                   <= Cardinality(uses \cup (UsesIt \ usages)) + Cardinality(busy)
          BY <3>2, <5>1, <5>3, UnionBound
        <5>5. Cardinality(uses) < MaxPerPhone
          BY <3>1, <4>2 DEF uses
        <5>6. drift' = drift
          BY <2>1
        <5>7. QED
          BY <1>0, <3>2, <5>3, <5>4, <5>5, <5>6
      <4>3. QED
        BY <4>1, <4>2
    <3>6. Phones' = Phones
      BY DEF Phones
    <3>7. QED
      BY <1>0, <2>1, <2>2, <2>3, <3>4, <3>5, <3>6 DEF CouponsInv
  <2>6. QED
    BY <2>4, <2>5
\* What ends a request or an order.
<1>2. ASSUME NEW o \in Orders, NEW end \in {"none", "placed", "refunded"}, NEW d \in BOOLEAN,
             Co!Settle(o, end, d), d => quoted[o] /\ end = "placed", end # "placed" => ~d
      PROVE  /\ priced' = [priced EXCEPT ![o] = end]
             /\ quoted' \in [Orders -> BOOLEAN] /\ granted' \in [Orders -> BOOLEAN]
             /\ priced' \in [Orders -> {"none", "pricing", "placed", "saving", "refunded"}]
             /\ UsesIt' = IF end = "placed" THEN UsesIt \cup {o} ELSE UsesIt \ {o}
             /\ Pledged' \subseteq Pledged
             /\ \A p \in Orders : /\ granted'[p] => p \in UsesIt'
                                  /\ quoted'[p] => priced'[p] \in {"pricing", "saving"}
  <2>1. /\ priced' = [priced EXCEPT ![o] = end] /\ quoted' = [quoted EXCEPT ![o] = FALSE]
        /\ granted' = [granted EXCEPT ![o] = d]
    BY <1>2 DEF Co!Settle
  <2>2. /\ quoted' \in [Orders -> BOOLEAN] /\ granted' \in [Orders -> BOOLEAN]
        /\ priced' \in [Orders -> {"none", "pricing", "placed", "saving", "refunded"}]
    BY <1>0, <2>1 DEF Co!CouponsTypeOK
  <2>3. UsesIt' = IF end = "placed" THEN UsesIt \cup {o} ELSE UsesIt \ {o}
    BY <1>0, <2>1 DEF UsesIt, Co!CouponsTypeOK
  <2>4. Pledged' \subseteq Pledged
    BY <1>0, <1>2, <2>1 DEF Pledged, Co!CouponsTypeOK
  <2>5. \A p \in Orders : /\ granted'[p] => p \in UsesIt'
                          /\ quoted'[p] => priced'[p] \in {"pricing", "saving"}
    BY <1>0, <1>2, <2>1, <2>3 DEF CouponsInv, Co!CouponsTypeOK
  <2>6. QED
    BY <2>1, <2>2, <2>3, <2>4, <2>5
<1>3. ASSUME NEW o \in Orders, Co!Place(o) PROVE CouponsInv'
  <2>1. /\ priced[o] = "pricing" /\ Co!Settle(o, "placed", quoted[o]) /\ usedCount' = usedCount + 1
        /\ usages' = usages \cup {o} /\ drift' = drift /\ active' = active /\ quoted[o] \in BOOLEAN
    BY <1>0, <1>3 DEF Co!Place, Co!Counted, Co!CouponsTypeOK
  <2>2. /\ UsesIt' = UsesIt \cup {o} /\ Pledged' \subseteq Pledged
        /\ \A p \in Orders : /\ granted'[p] => p \in UsesIt'
                             /\ quoted'[p] => priced'[p] \in {"pricing", "saving"}
    BY <1>2, <2>1
  <2>3. Co!CouponsTypeOK'
    BY <1>0, <1>2, <2>1 DEF Co!CouponsTypeOK
  <2>4. Cardinality(UsesIt') <= Cardinality(UsesIt) + 1 /\ Cardinality(UsesIt') \in Nat
    BY <1>0, <2>2, OrdersAreFew, FS_AddElement
  <2>5. UsesIt' \ usages' \subseteq UsesIt \ usages
    BY <2>1, <2>2
  <2>6. Cardinality(UsesIt' \ usages') <= drift'
    <3>1. UsesIt \ usages \subseteq Orders
      BY <1>0
    <3>2. /\ Cardinality(UsesIt' \ usages') \in Nat
          /\ Cardinality(UsesIt' \ usages') <= Cardinality(UsesIt \ usages)
      BY <2>5, <3>1, OrdersAreFew, PartBound
    <3>3. QED
      BY <1>0, <2>1, <3>2
  <2>7. QED
    BY <1>0, <2>1, <2>2, <2>3, <2>4, <2>6, PledgesShrink DEF CouponsInv, Phones
<1>4. ASSUME NEW o \in Orders, Co!PlaceUncounted(o) PROVE CouponsInv'
  <2>1. /\ priced[o] = "pricing" /\ Co!Settle(o, "placed", quoted[o]) /\ drift < MaxDrift
        /\ drift' = drift + 1 /\ usedCount' = usedCount /\ usages' = usages /\ active' = active
        /\ quoted[o] \in BOOLEAN
    BY <1>0, <1>4 DEF Co!PlaceUncounted, Co!CouponsTypeOK
  <2>2. /\ UsesIt' = UsesIt \cup {o} /\ Pledged' \subseteq Pledged
        /\ \A p \in Orders : /\ granted'[p] => p \in UsesIt'
                             /\ quoted'[p] => priced'[p] \in {"pricing", "saving"}
    BY <1>2, <2>1
  <2>3. Co!CouponsTypeOK'
    BY <1>0, <1>2, <2>1 DEF Co!CouponsTypeOK
  <2>4. Cardinality(UsesIt') <= Cardinality(UsesIt) + 1 /\ Cardinality(UsesIt') \in Nat
    BY <1>0, <2>2, OrdersAreFew, FS_AddElement
  <2>5. UsesIt' \ usages' \subseteq (UsesIt \ usages) \cup {o}
    BY <2>1, <2>2
  <2>6. Cardinality(UsesIt' \ usages') <= drift'
    <3>1. UsesIt \ usages \subseteq Orders
      BY <1>0
    <3>2. /\ IsFiniteSet((UsesIt \ usages) \cup {o})
          /\ Cardinality((UsesIt \ usages) \cup {o}) <= Cardinality(UsesIt \ usages) + 1
      <4> DEFINE short == UsesIt \ usages
      <4>1. IsFiniteSet(short) /\ Cardinality(short) \in Nat
        BY <3>1, OrdersAreFew
      <4> HIDE DEF short
      <4>2. /\ IsFiniteSet(short \cup {o})
            /\ Cardinality(short \cup {o}) =
                 IF o \in short THEN Cardinality(short) ELSE Cardinality(short) + 1
        BY <4>1, FS_AddElement
      <4>3. Cardinality(short \cup {o}) <= Cardinality(short) + 1
        BY <4>1, <4>2
      <4>4. QED
        BY <4>2, <4>3 DEF short
    <3>3. /\ Cardinality(UsesIt' \ usages') \in Nat /\ Cardinality((UsesIt \ usages) \cup {o}) \in Nat
          /\ Cardinality(UsesIt' \ usages') <= Cardinality((UsesIt \ usages) \cup {o})
      BY <2>5, <3>2, PartBound, FS_CardinalityType
    <3>4. QED
      BY <1>0, <2>1, <3>2, <3>3
  <2>7. QED
    BY <1>0, <2>1, <2>2, <2>3, <2>4, <2>6, PledgesShrink DEF CouponsInv, Phones
<1>5. ASSUME NEW o \in Orders, Co!PlaceFails(o) PROVE CouponsInv'
  <2>1. /\ priced[o] = "pricing" /\ Co!Settle(o, "none", FALSE)
        /\ UNCHANGED <<usedCount, usages, drift, active>>
    BY <1>5 DEF Co!PlaceFails
  <2>2. /\ UsesIt' = UsesIt \ {o} /\ Pledged' \subseteq Pledged /\ o \notin UsesIt
        /\ \A p \in Orders : /\ granted'[p] => p \in UsesIt'
                             /\ quoted'[p] => priced'[p] \in {"pricing", "saving"}
    BY <1>2, <2>1 DEF UsesIt
  <2>3. Co!CouponsTypeOK'
    BY <1>0, <1>2, <2>1 DEF Co!CouponsTypeOK
  <2>4. UsesIt' = UsesIt
    BY <2>2
  <2>5. QED
    BY <1>0, <2>1, <2>2, <2>3, <2>4, UsesStay
<1>6. ASSUME NEW o \in Orders, Co!Save(o) PROVE CouponsInv'
  <2>1. /\ priced[o] = "saving" /\ Co!Settle(o, "placed", quoted[o]) /\ quoted[o] \in BOOLEAN
        /\ UNCHANGED <<usedCount, usages, drift, active>>
    BY <1>0, <1>6 DEF Co!Save, Co!CouponsTypeOK
  <2>2. /\ UsesIt' = UsesIt \cup {o} /\ Pledged' \subseteq Pledged /\ o \in UsesIt
        /\ \A p \in Orders : /\ granted'[p] => p \in UsesIt'
                             /\ quoted'[p] => priced'[p] \in {"pricing", "saving"}
    BY <1>2, <2>1 DEF UsesIt
  <2>3. Co!CouponsTypeOK'
    BY <1>0, <1>2, <2>1 DEF Co!CouponsTypeOK
  <2>4. UsesIt' = UsesIt
    BY <2>2
  <2>5. QED
    BY <1>0, <2>1, <2>2, <2>3, <2>4, UsesStay
<1>7. ASSUME NEW o \in Orders, Co!Refund(o) PROVE CouponsInv'
  <2>1. /\ priced[o] = "placed" /\ Co!Settle(o, "refunded", FALSE) /\ drift' = drift /\ active' = active
        /\ usages' = usages \ {o} /\ usedCount' = IF usedCount > 0 THEN usedCount - 1 ELSE 0
    BY <1>7 DEF Co!Refund, Co!TakeBack
  <2>2. /\ UsesIt' = UsesIt \ {o} /\ Pledged' \subseteq Pledged /\ o \in UsesIt
        /\ \A p \in Orders : /\ granted'[p] => p \in UsesIt'
                             /\ quoted'[p] => priced'[p] \in {"pricing", "saving"}
    BY <1>2, <2>1 DEF UsesIt
  <2>3. Co!CouponsTypeOK'
    <3>1. usedCount' \in Nat /\ usages' \subseteq Orders /\ active' \in BOOLEAN /\ drift' \in 0..MaxDrift
      BY <1>0, <2>1 DEF Co!CouponsTypeOK
    <3>2. /\ quoted' \in [Orders -> BOOLEAN] /\ granted' \in [Orders -> BOOLEAN]
          /\ priced' \in [Orders -> {"none", "pricing", "placed", "saving", "refunded"}]
      BY <1>2, <2>1
    <3>3. QED
      BY <3>1, <3>2 DEF Co!CouponsTypeOK
  <2>4. Cardinality(UsesIt') = Cardinality(UsesIt) - 1
    BY <1>0, <2>2, OrdersAreFew, FS_RemoveElement
  <2>5. UsesIt' \ usages' \subseteq UsesIt \ usages
    BY <2>1, <2>2
  <2>6. Cardinality(UsesIt' \ usages') <= drift'
    <3>1. UsesIt \ usages \subseteq Orders
      BY <1>0
    <3>2. /\ Cardinality(UsesIt' \ usages') \in Nat
          /\ Cardinality(UsesIt' \ usages') <= Cardinality(UsesIt \ usages)
      BY <2>5, <3>1, OrdersAreFew, PartBound
    <3>3. QED
      BY <1>0, <2>1, <3>2
  <2>7. usages' \subseteq UsesIt'
    BY <1>0, <2>1, <2>2
  <2>8. QED
    BY <1>0, <2>1, <2>2, <2>3, <2>4, <2>6, <2>7, PledgesShrink DEF CouponsInv, Phones
<1>8. ASSUME NEW o \in Orders, Co!RefundAgain(o) PROVE CouponsInv'
  <2>1. /\ priced[o] = "refunded" /\ drift < MaxDrift /\ drift' = drift + 1 /\ active' = active
        /\ usages' = usages \ {o} /\ usedCount' = IF usedCount > 0 THEN usedCount - 1 ELSE 0
        /\ UNCHANGED <<priced, quoted, granted>>
    BY <1>8 DEF Co!RefundAgain, Co!TakeBack
  <2>2. UsesIt' = UsesIt /\ Pledged' = Pledged /\ o \notin UsesIt
    BY <2>1 DEF UsesIt, Pledged
  <2>3. Co!CouponsTypeOK'
    BY <1>0, <2>1 DEF Co!CouponsTypeOK
  <2>4. usages' = usages
    BY <1>0, <2>1, <2>2
  <2>5. \A p \in Orders : /\ granted'[p] => p \in UsesIt'
                          /\ quoted'[p] => priced'[p] \in {"pricing", "saving"}
    BY <2>1, <2>2 DEF CouponsInv
  <2>6. QED
    BY <1>0, <2>1, <2>2, <2>3, <2>4, <2>5, UsesStay
<1>9. CASE Co!Retire \/ UNCHANGED <<active, usedCount, usages, priced, quoted, granted, drift>>
  <2>1. UNCHANGED <<usedCount, usages, priced, quoted, granted, drift>> /\ Co!CouponsTypeOK'
    BY <1>0, <1>9 DEF Co!Retire, Co!CouponsTypeOK
  <2>2. UsesIt' = UsesIt /\ Pledged' = Pledged
    BY <2>1 DEF UsesIt, Pledged
  <2>3. \A p \in Orders : /\ granted'[p] => p \in UsesIt'
                          /\ quoted'[p] => priced'[p] \in {"pricing", "saving"}
    BY <2>1, <2>2 DEF CouponsInv
  <2>4. QED
    BY <1>0, <2>1, <2>2, <2>3, UsesStay
<1>10. QED
  BY <1>1, <1>3, <1>4, <1>5, <1>6, <1>7, <1>8, <1>9 DEF Co!Next

\* However checkouts, saves and refunds overlap, a coupon's limits are overshot, and
\* its counter falls short of the usage rows, by the requests under way at once
\* and by the uses that were lost (doctype/coupon/coupon.py, api/orders.py).
THEOREM CouponLimitsAreKept == Spec => []CouponLimitsHold
<1>1. CouponsInv => CouponLimitsHold
  <2> SUFFICES ASSUME CouponsInv PROVE Co!CouponLimitsHold
    BY DEF CouponLimitsHold
  <2>0. drift \in Nat /\ usedCount \in Nat
    BY CouponsAssumption DEF CouponsInv, Co!CouponsTypeOK
  <2>1. Co!Discounted \subseteq Pledged /\ Pledged \subseteq Orders
    BY DEF Co!Discounted, Pledged
  <2>2. Co!DiscountsWithinLimit
    <3>1. /\ Cardinality(Co!Discounted) <= Cardinality(Pledged)
          /\ Cardinality(Co!Discounted) \in Nat /\ Cardinality(Pledged) \in Nat
      BY <2>1, OrdersAreFew, PartBound
    <3>2. Cardinality(Co!Discounted) <= MaxUses + (MaxBusy - 1) + drift
      BY <2>0, <3>1, CouponsAssumption DEF CouponsInv
    <3>3. QED
      BY <3>2 DEF Co!DiscountsWithinLimit, Co!Cardinality, Cardinality
  <2>3. Co!CustomersWithinLimit
    <3>1. ASSUME NEW phone \in Phones
          PROVE  Cardinality({o \in Co!Discounted : PhoneOf[o] = phone})
                    <= MaxPerPhone + (MaxBusy - 1) + drift
      <4> DEFINE theirs == {o \in Co!Discounted : PhoneOf[o] = phone}
      <4>1. theirs \subseteq PledgedTo(phone) /\ PledgedTo(phone) \subseteq Orders
        BY <2>1 DEF PledgedTo
      <4>2. /\ Cardinality(theirs) <= Cardinality(PledgedTo(phone))
            /\ Cardinality(theirs) \in Nat /\ Cardinality(PledgedTo(phone)) \in Nat
        BY <4>1, OrdersAreFew, PartBound
      <4>3. Cardinality(PledgedTo(phone)) <= MaxPerPhone + MaxBusy - 1 + drift
        BY DEF CouponsInv
      <4>4. QED
        BY <2>0, <4>2, <4>3, CouponsAssumption
    <3>2. QED
      BY <3>1 DEF Co!CustomersWithinLimit, Co!Cardinality, Cardinality, Phones
  <2>4. Co!CounterCoversUsages
    <3>1. UsesIt \subseteq Orders /\ usages \subseteq UsesIt
      BY DEF CouponsInv, UsesIt
    <3>2. /\ Cardinality(usages) <= Cardinality(UsesIt)
          /\ Cardinality(usages) \in Nat /\ Cardinality(UsesIt) \in Nat
      BY <3>1, OrdersAreFew, PartBound
    <3>3. usedCount + drift >= Cardinality(usages)
      BY <2>0, <3>2 DEF CouponsInv
    <3>4. QED
      BY <3>3 DEF Co!CounterCoversUsages, Co!Cardinality, Cardinality
  <2>5. QED
    BY <2>2, <2>3, <2>4 DEF Co!CouponLimitsHold
<1>2. QED
  BY <1>1, CouponsStart, CouponsStep, PTL DEF Spec
-----------------------------------------------------------------------------
(* PriceCaches.                                                            *)

LEMMA CachesMove == [Next]_vars => [Pc!Next]_<<template, entry, shown>>
BY DEF Next, vars, Shows, Pays, Asks, StillShown, StillPrices

\* How old the listing in an entry is when the entry ends: the entry's lifetime and
\* the age at which the listing can come into it.
TemplateAge == IF template THEN Life["base"] - 1 ELSE 0
EndAge(k) ==
    CASE k = "base" -> Life["base"]
      [] k = "resolve" -> Life["resolve"] + Life["base"] - 1
      [] k = "related" -> Life["related"] + Life["base"] - 1 + Life["resolve"] - 1
      [] OTHER -> Life[k] + TemplateAge

Ages(e, k) ==
    e \in [age : Nat, left : 1..Life[k]] /\ e.age + e.left <= EndAge(k)
EntriesAge(es) ==
    /\ es = [k \in Pc!Layers |-> es[k]]
    /\ \A k \in Pc!Layers : es[k] = NotCached \/ Ages(es[k], k)

CachesInv ==
    /\ template \in BOOLEAN
    /\ EntriesAge(entry)
    /\ shown # NotCached => /\ shown \in [at : Pc!Places, age : Nat]
                            /\ shown.age < Pc!StalenessBound(shown.at)

LEMMA KeptAges ==
    ASSUME NEW es, EntriesAge(es), NEW k \in Pc!Layers, NEW age \in Nat, template \in BOOLEAN,
           age + Life[k] <= EndAge(k)
    PROVE  EntriesAge(Pc!Kept(es, k, age)) /\ Ages(Pc!Kept(es, k, age)[k], k)
<1>1. Life[k] \in Nat \ {0}
  BY LifeAssumption DEF Pc!Layers
<1>2. CASE es[k] # NotCached
  BY <1>2 DEF Pc!Kept, EntriesAge
<1>3. CASE es[k] = NotCached
  <2> DEFINE new == [age |-> age, left |-> Life[k]]
  <2>1. Pc!Kept(es, k, age) = [es EXCEPT ![k] = new]
    BY <1>3 DEF Pc!Kept
  <2>2. Ages(new, k)
    BY <1>1 DEF Ages
  <2> HIDE DEF new
  <2>3. /\ [es EXCEPT ![k] = new][k] = new
        /\ \A l \in Pc!Layers \ {k} : [es EXCEPT ![k] = new][l] = es[l]
        /\ [es EXCEPT ![k] = new] = [l \in Pc!Layers |-> [es EXCEPT ![k] = new][l]]
    BY DEF EntriesAge
  <2>4. QED
    BY <2>1, <2>2, <2>3 DEF EntriesAge
<1>4. QED
  BY <1>2, <1>3

LEMMA BaseAges ==
    ASSUME NEW es, EntriesAge(es), template \in BOOLEAN
    PROVE  EntriesAge(Pc!Base(es)) /\ Pc!Base(es)["base"].age \in 0..(Life["base"] - 1)
<1>1. Life["base"] \in Nat /\ EndAge("base") = Life["base"] /\ "base" \in Pc!Layers
  BY LifeAssumption DEF EndAge, Pc!Layers
<1>2. EntriesAge(Pc!Base(es)) /\ Ages(Pc!Base(es)["base"], "base")
  BY <1>1, KeptAges DEF Pc!Base
<1>3. QED
  BY <1>1, <1>2 DEF Ages

LEMMA ResolvedAges ==
    ASSUME NEW es, EntriesAge(es), template \in BOOLEAN
    PROVE  /\ EntriesAge(Pc!Resolved(es))
           /\ Pc!Resolved(es)["resolve"].age \in 0..(Life["base"] - 1 + Life["resolve"] - 1)
<1>1. /\ EndAge("resolve") = Life["resolve"] + Life["base"] - 1 /\ "resolve" \in Pc!Layers
      /\ Life["base"] \in Nat \ {0} /\ Life["resolve"] \in Nat \ {0}
  BY LifeAssumption DEF EndAge, Pc!Layers
<1>2. EntriesAge(Pc!Resolved(es)) /\ Ages(Pc!Resolved(es)["resolve"], "resolve")
  <2>1. CASE es["resolve"] # NotCached
    <3>1. Pc!Resolved(es) = es
      BY <2>1 DEF Pc!Resolved, Pc!Kept
    <3>2. QED
      BY <1>1, <2>1, <3>1 DEF EntriesAge
  <2>2. CASE es["resolve"] = NotCached
    <3> DEFINE base == Pc!Base(es)
    <3>1. EntriesAge(base) /\ base["base"].age \in 0..(Life["base"] - 1)
      BY BaseAges
    <3>2. Pc!Resolved(es) = Pc!Kept(base, "resolve", base["base"].age)
      BY <2>2 DEF Pc!Resolved
    <3> HIDE DEF base
    <3>3. base["base"].age \in Nat /\ base["base"].age + Life["resolve"] <= EndAge("resolve")
      BY <1>1, <3>1
    <3>4. QED
      BY <1>1, <3>1, <3>2, <3>3, KeptAges
  <2>3. QED
    BY <2>1, <2>2
<1>3. QED
  BY <1>1, <1>2 DEF Ages

LEMMA PreloadedAges ==
    ASSUME NEW es, EntriesAge(es), NEW named \in BOOLEAN, template \in BOOLEAN
    PROVE  EntriesAge(Pc!Preloaded(es, named)) /\ Pc!PreloadedAge(es) \in 0..TemplateAge
<1>1. Life["base"] \in Nat \ {0}
  BY LifeAssumption
<1>2. CASE template
  BY <1>1, <1>2, BaseAges DEF Pc!Preloaded, Pc!PreloadedAge, TemplateAge
<1>3. CASE ~template
  <2>1. Pc!PreloadedAge(es) \in 0..TemplateAge
    BY <1>3 DEF Pc!PreloadedAge, TemplateAge
  <2>2. CASE ~named
    BY <1>3, <2>1, <2>2 DEF Pc!Preloaded
  <2>3. CASE named
    <3> DEFINE new == [age |-> 0, left |-> Life["base"]]
    <3>1. Pc!Preloaded(es, named) = [es EXCEPT !["base"] = new]
      BY <1>3, <2>3 DEF Pc!Preloaded
    <3>2. Ages(new, "base") /\ "base" \in Pc!Layers
      BY <1>1 DEF Ages, EndAge, Pc!Layers
    <3> HIDE DEF new
    <3>3. /\ [es EXCEPT !["base"] = new]["base"] = new
          /\ \A l \in Pc!Layers \ {"base"} : [es EXCEPT !["base"] = new][l] = es[l]
          /\ [es EXCEPT !["base"] = new] = [l \in Pc!Layers |-> [es EXCEPT !["base"] = new][l]]
      BY <3>2 DEF EntriesAge
    <3>4. EntriesAge([es EXCEPT !["base"] = new])
      BY <3>2, <3>3 DEF EntriesAge
    <3>5. QED
      BY <2>1, <3>1, <3>4
  <2>4. QED
    BY <2>2, <2>3
<1>4. QED
  BY <1>2, <1>3

LEMMA CachesStart == Init => CachesInv
BY DEF Init, Pc!Init, CachesInv, EntriesAge

\* An answer from an entry.
LEMMA AnswerAges ==
    ASSUME CachesInv, NEW es, NEW k \in Pc!Places, NEW age \in Nat,
           Pc!Answer(k, es, age), template' = template, EntriesAge(es), age < Pc!StalenessBound(k)
    PROVE  CachesInv'
<1>1. entry' = es /\ shown' = [at |-> k, age |-> age]
  BY DEF Pc!Answer
<1>2. EntriesAge(entry)'
  BY <1>1 DEF EntriesAge, Ages, EndAge, TemplateAge
<1>3. shown'.age = age /\ shown'.at = k
  BY <1>1
<1>4. (shown.age < Pc!StalenessBound(shown.at))'
  BY <1>3 DEF Pc!StalenessBound
<1>5. template' \in BOOLEAN /\ shown' \in [at : Pc!Places, age : Nat]
  BY <1>1 DEF CachesInv, Pc!Places
<1>6. QED
  BY <1>2, <1>4, <1>5 DEF CachesInv

LEMMA CachesStep == CachesInv /\ [Next]_vars => CachesInv'
<1> SUFFICES ASSUME CachesInv, [Pc!Next]_<<template, entry, shown>> PROVE CachesInv'
  BY CachesMove
<1>0. /\ template \in BOOLEAN /\ EntriesAge(entry)
      /\ Life["base"] \in Nat \ {0} /\ Life["resolve"] \in Nat \ {0} /\ Life["page"] \in Nat \ {0}
      /\ Life["related"] = Life["page"] /\ Life["list"] \in Nat \ {0}
      /\ {"page", "related", "list"} \subseteq Pc!Layers
      /\ Pc!Places = {"search", "page", "related", "list"}
      /\ TemplateAge \in Nat /\ TemplateAge <= Life["base"] - 1
      /\ EndAge("page") = Life["page"] + TemplateAge
      /\ EndAge("list") = Life["list"] + TemplateAge
      /\ EndAge("related") = Life["related"] + Life["base"] - 1 + Life["resolve"] - 1
      /\ EndAge("page") <= Pc!StalenessBound("page")
      /\ EndAge("list") <= Pc!StalenessBound("list")
      /\ EndAge("related") <= Pc!StalenessBound("related")
      /\ Pc!StalenessBound("search") = Life["base"] + Life["resolve"]
      /\ Pc!StalenessBound("page") \in Nat /\ Pc!StalenessBound("list") \in Nat
      /\ Pc!StalenessBound("related") \in Nat
  BY LifeAssumption DEF CachesInv, Pc!Layers, Pc!Places, TemplateAge, EndAge, Pc!StalenessBound
<1>1. CASE Pc!Search
  <2>1. /\ EntriesAge(Pc!Resolved(entry))
        /\ Pc!Resolved(entry)["resolve"].age \in 0..(Life["base"] - 1 + Life["resolve"] - 1)
    BY <1>0, ResolvedAges
  <2>2. QED
    BY <1>0, <1>1, <2>1, AnswerAges DEF Pc!Search
<1>2. ASSUME NEW named \in BOOLEAN, Pc!GetProduct(named) PROVE CachesInv'
  <2> DEFINE es == IF entry["page"] = NotCached THEN Pc!Preloaded(entry, named) ELSE entry
             kept == Pc!Kept(es, "page", Pc!PreloadedAge(entry))
  <2>1. Pc!Answer("page", kept, kept["page"].age) /\ template' = template
    BY <1>2 DEF Pc!GetProduct
  <2>2. EntriesAge(es) /\ Pc!PreloadedAge(entry) \in 0..TemplateAge
    BY <1>0, PreloadedAges
  <2>3. EntriesAge(kept) /\ Ages(kept["page"], "page")
    <3> HIDE DEF es
    <3>1. Pc!PreloadedAge(entry) \in Nat /\ Pc!PreloadedAge(entry) + Life["page"] <= EndAge("page")
      BY <1>0, <2>2
    <3>2. QED
      BY <1>0, <2>2, <3>1, KeptAges
  <2> HIDE DEF kept
  <2>4. kept["page"].age \in Nat /\ kept["page"].age < Pc!StalenessBound("page")
    BY <1>0, <2>3 DEF Ages
  <2>5. QED
    BY <1>0, <2>1, <2>3, <2>4, AnswerAges
<1>3. CASE Pc!GetRelated
  <2> DEFINE es == IF entry["related"] = NotCached THEN Pc!Resolved(entry) ELSE entry
             age == IF entry["related"] = NotCached THEN es["resolve"].age ELSE 0
             kept == Pc!Kept(es, "related", age)
  <2>1. Pc!Answer("related", kept, kept["related"].age) /\ template' = template
    BY <1>3 DEF Pc!GetRelated
  <2>2. EntriesAge(es) /\ age \in 0..(Life["base"] - 1 + Life["resolve"] - 1)
    <3>1. /\ EntriesAge(Pc!Resolved(entry))
          /\ Pc!Resolved(entry)["resolve"].age \in 0..(Life["base"] - 1 + Life["resolve"] - 1)
      BY <1>0, ResolvedAges
    <3>2. QED
      BY <1>0, <3>1
  <2>3. EntriesAge(kept) /\ Ages(kept["related"], "related")
    <3> HIDE DEF es, age
    <3>1. age \in Nat /\ age + Life["related"] <= EndAge("related")
      BY <1>0, <2>2
    <3>2. QED
      BY <1>0, <2>2, <3>1, KeptAges
  <2> HIDE DEF kept
  <2>4. kept["related"].age \in Nat /\ kept["related"].age < Pc!StalenessBound("related")
    BY <1>0, <2>3 DEF Ages
  <2>5. QED
    BY <1>0, <2>1, <2>3, <2>4, AnswerAges
<1>4. ASSUME NEW named \in BOOLEAN, Pc!ListProducts(named) PROVE CachesInv'
  <2> DEFINE es == IF entry["list"] = NotCached THEN Pc!Preloaded(entry, named) ELSE entry
             kept == Pc!Kept(es, "list", Pc!PreloadedAge(entry))
  <2>1. Pc!Answer("list", kept, kept["list"].age) /\ template' = template
    BY <1>4 DEF Pc!ListProducts
  <2>2. EntriesAge(es) /\ Pc!PreloadedAge(entry) \in 0..TemplateAge
    BY <1>0, PreloadedAges
  <2>3. EntriesAge(kept) /\ Ages(kept["list"], "list")
    <3> HIDE DEF es
    <3>1. Pc!PreloadedAge(entry) \in Nat /\ Pc!PreloadedAge(entry) + Life["list"] <= EndAge("list")
      BY <1>0, <2>2
    <3>2. QED
      BY <1>0, <2>2, <3>1, KeptAges
  <2> HIDE DEF kept
  <2>4. kept["list"].age \in Nat /\ kept["list"].age < Pc!StalenessBound("list")
    BY <1>0, <2>3 DEF Ages
  <2>5. QED
    BY <1>0, <2>1, <2>3, <2>4, AnswerAges
<1>5. ASSUME NEW named \in BOOLEAN, Pc!ListProductsUnlocked(named) PROVE CachesInv'
  <2>1. /\ Pc!Answer("list", Pc!Preloaded(entry, named), Pc!PreloadedAge(entry))
        /\ template' = template
    BY <1>5 DEF Pc!ListProductsUnlocked
  <2>2. EntriesAge(Pc!Preloaded(entry, named)) /\ Pc!PreloadedAge(entry) \in 0..TemplateAge
    BY <1>0, PreloadedAges
  <2>3. Pc!PreloadedAge(entry) \in Nat /\ Pc!PreloadedAge(entry) < Pc!StalenessBound("list")
    BY <1>0, <2>2
  <2>4. QED
    BY <1>0, <2>1, <2>2, <2>3, AnswerAges
<1>6. CASE Pc!SaveBrand
  <2>1. /\ entry' = [entry EXCEPT !["page"] = NotCached, !["related"] = NotCached]
        /\ template' = template /\ shown' = shown
    BY <1>6 DEF Pc!SaveBrand
  <2>2. /\ \A k \in Pc!Layers : entry'[k] = NotCached \/ entry'[k] = entry[k]
        /\ entry' = [k \in Pc!Layers |-> entry'[k]]
    BY <1>0, <2>1 DEF EntriesAge
  <2>3. EntriesAge(entry)'
    BY <1>0, <2>1, <2>2 DEF EntriesAge, Ages, EndAge, TemplateAge
  <2>4. QED
    BY <1>0, <2>1, <2>3 DEF CachesInv, Pc!StalenessBound
<1>7. CASE Pc!Tick
  <2>1. /\ entry' = [k \in Pc!Layers |->
                       IF entry[k] = NotCached \/ entry[k].left = 1 THEN NotCached
                       ELSE [age |-> entry[k].age + 1, left |-> entry[k].left - 1]]
        /\ template' = template /\ shown' = NotCached
    BY <1>7 DEF Pc!Tick
  <2>2. \A k \in Pc!Layers : entry'[k] = NotCached \/ Ages(entry'[k], k)
    <3> SUFFICES ASSUME NEW k \in Pc!Layers, entry'[k] # NotCached PROVE Ages(entry'[k], k)
      OBVIOUS
    <3>1. entry[k] # NotCached /\ entry[k].left # 1
      BY <2>1
    <3>2. Ages(entry[k], k)
      BY <1>0, <3>1 DEF EntriesAge
    <3>3. entry'[k] = [age |-> entry[k].age + 1, left |-> entry[k].left - 1]
      BY <2>1, <3>1
    <3>4. Life[k] \in Nat /\ EndAge(k) \in Int
      BY LifeAssumption, <1>0 DEF Pc!Layers, EndAge
    <3>5. QED
      BY <3>1, <3>2, <3>3, <3>4 DEF Ages
  <2>3. EntriesAge(entry)'
    BY <2>1, <2>2 DEF EntriesAge, Ages, EndAge, TemplateAge
  <2>4. QED
    BY <1>0, <2>1, <2>3 DEF CachesInv
<1>8. CASE UNCHANGED <<template, entry, shown>>
  BY <1>8 DEF CachesInv, EntriesAge, Ages, EndAge, TemplateAge, Pc!StalenessBound
<1>9. QED
  BY <1>1, <1>2, <1>3, <1>4, <1>5, <1>6, <1>7, <1>8 DEF Pc!Next
-----------------------------------------------------------------------------
(* CmsCache.                                                               *)

LEMMA ContentMoves == [Next]_vars => [Cm!Next]_<<kind, rows, cache, saving, reading, behind>>
BY DEF Next, vars, Shows, Pays, Asks, StillShown, StillContent

\* An entry that is not behind shows the documents, and is none that the save under
\* way has deleted; a visitor's request that no save overlaps has read them as
\* they are.
ContentInv ==
    /\ kind \in Cm!Kinds
    /\ rows = [d \in Cm!Docs |-> rows[d]]
    /\ cache = [k \in Cm!AllKeys |-> cache[k]]
    /\ reading = [r \in Readers |-> reading[r]]
    /\ \A r \in Readers :
          reading[r] = [key |-> reading[r].key, view |-> reading[r].view,
                        overlapped |-> reading[r].overlapped]
    /\ saving # Nothing => saving.doc \in Cm!Docs
    /\ \A k \in Cm!Keys \ behind :
         cache[k] # Nothing =>
            /\ cache[k] = Cm!Shown(rows, k)
            /\ saving # Nothing => k \notin Cm!Busted(saving.doc, saving.row)
    /\ \A r \in Readers :
         reading[r].view # Nothing /\ ~reading[r].overlapped =>
            saving = Nothing /\ reading[r].view = Cm!Shown(rows, reading[r].key)

LEMMA KeysAreKeys == kind \in Cm!Kinds => Cm!Keys \subseteq Cm!AllKeys
BY DEF Cm!Keys, Cm!AllKeys

\* What a document is about does not show at a key that it neither had nor gets.
LEMMA PageStays ==
    ASSUME NEW doc \in Cm!Docs, NEW row, NEW key, rows = [d \in Cm!Docs |-> rows[d]],
           key # row.at, key # rows[doc].at
    PROVE  LET after == [rows EXCEPT ![doc] = row]
           IN Cm!View(after, Cm!Live(after) \cap Cm!At(after, key))
                = Cm!View(rows, Cm!Live(rows) \cap Cm!At(rows, key))
<1> DEFINE after == [rows EXCEPT ![doc] = row]
<1>1. after[doc] = row /\ \A d \in Cm!Docs \ {doc} : after[d] = rows[d]
  OBVIOUS
<1> HIDE DEF after
<1>2. Cm!Live(after) \cap Cm!At(after, key) = Cm!Live(rows) \cap Cm!At(rows, key)
  BY <1>1 DEF Cm!Live, Cm!At
<1>3. \A d \in Cm!Live(rows) \cap Cm!At(rows, key) : after[d] = rows[d]
  BY <1>1 DEF Cm!At, Cm!Live
<1>4. QED
  BY <1>2, <1>3 DEF Cm!View, after

\* A save changes what its hooks delete and what no hook reaches, and no other key.
LEMMA ShownStays ==
    ASSUME kind \in Cm!Kinds, NEW doc \in Cm!Docs, NEW row, NEW key \in Cm!Keys,
           rows = [d \in Cm!Docs |-> rows[d]],
           key \notin Cm!Busted(doc, row), key \notin Cm!Unreached(doc, row)
    PROVE  Cm!Shown([rows EXCEPT ![doc] = row], key) = Cm!Shown(rows, key)
<1>1. CASE kind = "page"
  <2>1. key # row.at /\ key # rows[doc].at
    BY <1>1 DEF Cm!Busted, Cm!PageBusted, Cm!Unreached
  <2>2. QED
    BY <1>1, <2>1, PageStays DEF Cm!Shown, Cm!PageShown
<1>2. CASE kind = "offer"
  <2>1. key # row.at /\ key # rows[doc].at /\ key \notin {"all", "Published"}
    BY <1>2 DEF Cm!Busted, Cm!OfferBusted, Cm!Unreached
  <2>2. QED
    BY <1>2, <2>1, PageStays DEF Cm!Shown, Cm!OffersShown, Cm!PageShown
<1>3. CASE kind = "location"
  <2>1. key # row.at /\ key # rows[doc].at /\ key \notin {"all", "cities"}
    BY <1>3 DEF Cm!Busted, Cm!LocationBusted, Cm!Unreached
  <2>2. QED
    BY <1>3, <2>1, PageStays DEF Cm!Shown, Cm!LocationsShown
<1>4. CASE kind = "faq"
  BY <1>4 DEF Cm!Busted, Cm!FaqBusted, Cm!Unreached, Cm!Keys, Cm!KeysOf
<1>5. CASE kind \in {"single", "navigation", "banner", "home"}
  BY <1>5 DEF Cm!Busted
<1>6. QED
  BY <1>1, <1>2, <1>3, <1>4, <1>5 DEF Cm!Kinds

LEMMA ShownIsOfRows ==
    ASSUME kind' = kind, NEW key
    PROVE  Cm!Shown(rows, key)' = Cm!Shown(rows', key)
BY DEF Cm!Shown, Cm!PageShown, Cm!NavigationShown, Cm!BannersShown,
       Cm!FaqShown, Cm!OffersShown, Cm!LocationsShown, Cm!HomeShown, Cm!SingleShown,
       Cm!View, Cm!Live, Cm!At

\* A save overlaps every request that has read.
LEMMA OverlapsAll ==
    ASSUME ContentInv,
           reading' = [r \in Readers |-> [reading[r] EXCEPT !.overlapped = reading[r].view # Nothing]],
           NEW r \in Readers, reading'[r].view # Nothing
    PROVE  reading'[r].overlapped
<1>1. reading[r] = [key |-> reading[r].key, view |-> reading[r].view,
                    overlapped |-> reading[r].overlapped]
  BY DEF ContentInv
<1>2. reading'[r] = [reading[r] EXCEPT !.overlapped = reading[r].view # Nothing]
  OBVIOUS
<1>3. /\ reading'[r].overlapped = (reading[r].view # Nothing)
      /\ reading'[r].view = reading[r].view
  BY <1>1, <1>2
<1>4. QED
  BY <1>3

LEMMA RequestsStay ==
    ASSUME ContentInv,
           reading' = [r \in Readers |-> [reading[r] EXCEPT !.overlapped = reading[r].view # Nothing]],
           NEW r \in Readers
    PROVE  reading'[r] = [key |-> reading'[r].key, view |-> reading'[r].view,
                          overlapped |-> reading'[r].overlapped]
<1>1. reading[r] = [key |-> reading[r].key, view |-> reading[r].view,
                    overlapped |-> reading[r].overlapped]
  BY DEF ContentInv
<1>2. reading'[r] = [reading[r] EXCEPT !.overlapped = reading[r].view # Nothing]
  OBVIOUS
<1>3. QED
  BY <1>1, <1>2

LEMMA ContentStart == Init => ContentInv
<1> SUFFICES ASSUME Init PROVE ContentInv
  OBVIOUS
<1>1. Cm!Init
  BY DEF Init
<1>2. rows = [d \in Cm!Docs |-> rows[d]]
  BY <1>1 DEF Cm!Init, Cm!Docs
<1>3. /\ kind \in Cm!Kinds /\ cache = [k \in Cm!AllKeys |-> Nothing] /\ saving = Nothing
      /\ reading = [r \in Readers |-> Cm!NotReading]
  BY <1>1 DEF Cm!Init
<1>4. QED
  BY <1>2, <1>3, KeysAreKeys DEF ContentInv, Cm!NotReading

LEMMA ContentStep == ContentInv /\ [Next]_vars => ContentInv'
<1> SUFFICES ASSUME ContentInv, [Cm!Next]_<<kind, rows, cache, saving, reading, behind>>
             PROVE  ContentInv'
  BY ContentMoves
<1>0. /\ kind \in Cm!Kinds /\ rows = [d \in Cm!Docs |-> rows[d]]
      /\ cache = [k \in Cm!AllKeys |-> cache[k]] /\ reading = [r \in Readers |-> reading[r]]
      /\ saving # Nothing => saving.doc \in Cm!Docs
      /\ Cm!Keys \subseteq Cm!AllKeys
  BY KeysAreKeys DEF ContentInv
<1>1. ASSUME NEW r \in Readers, NEW key \in Cm!Keys, Cm!Read(r, key) PROVE ContentInv'
  <2>1. /\ reading' = [reading EXCEPT ![r] =
              [key |-> key, view |-> Cm!Shown(rows, key), overlapped |-> saving # Nothing]]
        /\ UNCHANGED <<kind, rows, cache, saving, behind>>
    BY <1>1 DEF Cm!Read
  <2>2. /\ reading'[r].key = key /\ reading'[r].view = Cm!Shown(rows, key)
        /\ reading'[r].overlapped = (saving # Nothing)
        /\ \A q \in Readers \ {r} : reading'[q] = reading[q]
        /\ reading' = [q \in Readers |-> reading'[q]]
    BY <1>0, <2>1
  <2>3. Cm!Keys' = Cm!Keys /\ \A k : Cm!Shown(rows, k)' = Cm!Shown(rows, k)
    BY <2>1, ShownIsOfRows DEF Cm!Keys
  <2>4. QED
    BY <1>0, <2>1, <2>2, <2>3, ZenonT(40) DEF ContentInv, Cm!Busted
<1>2. ASSUME NEW r \in Readers, Cm!Fill(r) PROVE ContentInv'
  <2> DEFINE key == reading[r].key
  <2>1. /\ cache' = [cache EXCEPT ![key] = reading[r].view] /\ reading[r].view # Nothing
        /\ behind' = IF reading[r].overlapped THEN behind \cup {key} ELSE behind \ {key}
        /\ reading' = [reading EXCEPT ![r] = Cm!NotReading]
        /\ UNCHANGED <<kind, rows, saving>>
    BY <1>2 DEF Cm!Fill
  <2>2. /\ reading'[r].view = Nothing /\ \A q \in Readers \ {r} : reading'[q] = reading[q]
        /\ reading' = [q \in Readers |-> reading'[q]]
    BY <1>0, <2>1 DEF Cm!NotReading
  <2>3. /\ \A k \in Cm!AllKeys : cache'[k] = IF k = key THEN reading[r].view ELSE cache[k]
        /\ cache' = [k \in Cm!AllKeys |-> cache'[k]]
    BY <1>0, <2>1
  <2>4. Cm!Keys' = Cm!Keys /\ \A k : Cm!Shown(rows, k)' = Cm!Shown(rows, k)
    BY <2>1, ShownIsOfRows DEF Cm!Keys
  <2>5. ~reading[r].overlapped => saving = Nothing /\ reading[r].view = Cm!Shown(rows, key)
    BY <2>1 DEF ContentInv
  <2>6. \A k \in Cm!Keys' \ behind' :
          cache'[k] # Nothing =>
             /\ cache'[k] = Cm!Shown(rows, k)'
             /\ saving' # Nothing => k \notin Cm!Busted(saving.doc, saving.row)'
    <3> SUFFICES ASSUME NEW k \in Cm!Keys, k \notin behind', cache'[k] # Nothing
                 PROVE  /\ cache'[k] = Cm!Shown(rows, k)
                        /\ saving' # Nothing => k \notin Cm!Busted(saving.doc, saving.row)'
      BY <2>4
    <3>1. CASE k = key
      BY <1>0, <2>1, <2>3, <2>5, <3>1
    <3>2. CASE k # key
      <4>1. k \notin behind /\ cache'[k] = cache[k]
        BY <1>0, <2>1, <2>3, <3>2
      <4>2. QED
        BY <2>1, <4>1 DEF ContentInv, Cm!Busted
    <3>3. QED
      BY <3>1, <3>2
  <2>7. \A q \in Readers :
          reading'[q].view # Nothing /\ ~reading'[q].overlapped =>
             saving' = Nothing /\ reading'[q].view = Cm!Shown(rows, reading[q].key)'
    BY <2>1, <2>2, <2>4 DEF ContentInv
  <2>8. \A q \in Readers :
          reading'[q] = [key |-> reading'[q].key, view |-> reading'[q].view,
                        overlapped |-> reading'[q].overlapped]
    BY <2>1, <2>2, <1>0 DEF ContentInv, Cm!NotReading
  <2>9. QED
    BY <1>0, <2>1, <2>2, <2>3, <2>6, <2>7, <2>8 DEF ContentInv
<1>3. ASSUME NEW key \in Cm!Keys, Cm!Expire(key) PROVE ContentInv'
  <2>1. /\ cache' = [cache EXCEPT ![key] = Nothing] /\ behind' = behind \ {key}
        /\ UNCHANGED <<kind, rows, saving, reading>>
    BY <1>3 DEF Cm!Expire
  <2>2. /\ \A k \in Cm!AllKeys : cache'[k] = IF k = key THEN Nothing ELSE cache[k]
        /\ cache' = [k \in Cm!AllKeys |-> cache'[k]]
    BY <1>0, <2>1
  <2>3. Cm!Keys' = Cm!Keys /\ \A k : Cm!Shown(rows, k)' = Cm!Shown(rows, k)
    BY <2>1, ShownIsOfRows DEF Cm!Keys
  <2>4. QED
    BY <1>0, <2>1, <2>2, <2>3 DEF ContentInv, Cm!Busted
<1>4. ASSUME NEW doc \in Cm!Docs, NEW row \in Cm!Rows, Cm!Save(doc, row) PROVE ContentInv'
  <2> DEFINE gone == Cm!Busted(doc, row)
  <2>1. /\ saving' = [doc |-> doc, row |-> row]
        /\ cache' = [k \in Cm!AllKeys |-> IF k \in gone THEN Nothing ELSE cache[k]]
        /\ behind' = behind \ gone
        /\ reading' = [r \in Readers |-> [reading[r] EXCEPT !.overlapped = reading[r].view # Nothing]]
        /\ UNCHANGED <<kind, rows>>
    BY <1>4 DEF Cm!Save
  <2>2. saving'.doc = doc /\ saving'.row = row
    BY <2>1
  <2>3. Cm!Busted(saving.doc, saving.row)' = gone
    BY <2>1, <2>2 DEF Cm!Busted, Cm!PageBusted, Cm!FaqBusted, Cm!OfferBusted,
       Cm!LocationBusted, Cm!Keys
  <2>4. Cm!Keys' = Cm!Keys /\ \A k : Cm!Shown(rows, k)' = Cm!Shown(rows, k)
    BY <2>1, ShownIsOfRows DEF Cm!Keys
  <2> HIDE DEF gone
  <2>5. \A k \in Cm!Keys \ behind' :
          cache'[k] # Nothing => cache'[k] = Cm!Shown(rows, k) /\ k \notin gone
    <3>1. \A k \in Cm!Keys : cache'[k] # Nothing => k \notin gone /\ cache'[k] = cache[k]
      BY <1>0, <2>1
    <3>2. QED
      BY <2>1, <3>1 DEF ContentInv
  <2>6. \A r \in Readers : reading'[r].view # Nothing => reading'[r].overlapped
    BY <2>1, OverlapsAll
  <2>7. cache' = [k \in Cm!AllKeys |-> cache'[k]] /\ reading' = [r \in Readers |-> reading'[r]]
    BY <2>1
  <2>8. \A q \in Readers :
          reading'[q] = [key |-> reading'[q].key, view |-> reading'[q].view,
                        overlapped |-> reading'[q].overlapped]
    BY <2>1, RequestsStay
  <2>9. /\ kind' \in Cm!Kinds /\ rows' = [d \in Cm!Docs |-> rows'[d]]
        /\ saving' # Nothing => saving'.doc \in Cm!Docs
    BY <1>0, <2>1, <2>2
  <2>10. QED
    BY <2>3, <2>4, <2>5, <2>6, <2>7, <2>8, <2>9, ZenonT(40) DEF ContentInv
<1>5. CASE Cm!Commit
  <2> DEFINE after == [rows EXCEPT ![saving.doc] = saving.row]
  <2>1. /\ saving # Nothing /\ saving' = Nothing /\ rows' = after
        /\ behind' = behind \cup Cm!Unreached(saving.doc, saving.row)
        /\ UNCHANGED <<kind, cache, reading>>
    BY <1>5 DEF Cm!Commit
  <2>2. rows' = [d \in Cm!Docs |-> rows'[d]] /\ Cm!Keys' = Cm!Keys
    BY <1>0, <2>1 DEF Cm!Keys
  <2>3. \A k : Cm!Shown(rows, k)' = Cm!Shown(after, k)
    BY <2>1, ShownIsOfRows
  <2>4. \A k \in Cm!Keys \ behind' : cache'[k] # Nothing => cache'[k] = Cm!Shown(rows, k)'
    <3> SUFFICES ASSUME NEW k \in Cm!Keys, k \notin behind', cache[k] # Nothing
                 PROVE  cache[k] = Cm!Shown(after, k)
      BY <2>1, <2>3
    <3>1. k \notin behind /\ k \notin Cm!Unreached(saving.doc, saving.row)
      BY <2>1
    <3>2. cache[k] = Cm!Shown(rows, k) /\ k \notin Cm!Busted(saving.doc, saving.row)
      BY <2>1, <3>1 DEF ContentInv
    <3>3. QED
      BY <1>0, <2>1, <3>1, <3>2, ShownStays
  <2>5. \A r \in Readers : reading'[r].view # Nothing => reading'[r].overlapped
    BY <2>1 DEF ContentInv
  <2>6. QED
    BY <1>0, <2>1, <2>2, <2>4, <2>5 DEF ContentInv
<1>6. ASSUME NEW doc \in Cm!Docs, NEW row, Cm!Unhooked(doc, row) PROVE ContentInv'
  <2>1. /\ rows' = [rows EXCEPT ![doc] = row] /\ behind' = Cm!Keys /\ saving = Nothing
        /\ reading' = [r \in Readers |-> [reading[r] EXCEPT !.overlapped = reading[r].view # Nothing]]
        /\ UNCHANGED <<kind, cache, saving>>
    BY <1>6 DEF Cm!Unhooked
  <2>2. /\ rows' = [d \in Cm!Docs |-> rows'[d]] /\ Cm!Keys' \ behind' = {}
        /\ reading' = [r \in Readers |-> reading'[r]]
    BY <1>0, <2>1 DEF Cm!Keys
  <2>3. \A r \in Readers : reading'[r].view # Nothing => reading'[r].overlapped
    BY <2>1, OverlapsAll
  <2>4. QED
    BY <1>0, <2>1, <2>2, <2>3, RequestsStay DEF ContentInv
<1>7. CASE UNCHANGED <<kind, rows, cache, saving, reading, behind>>
  <2>1. Cm!Keys' = Cm!Keys /\ \A k : Cm!Shown(rows, k)' = Cm!Shown(rows, k)
    BY <1>7, ShownIsOfRows DEF Cm!Keys
  <2>2. QED
    BY <1>0, <1>7, <2>1 DEF ContentInv, Cm!Busted
<1>8. QED
  BY <1>1, <1>2, <1>3, <1>4, <1>5, <1>6, <1>7 DEF Cm!Next, Cm!Delete, Cm!NewDay

\* What the storefront shows is current, or behind for a reason (api/cms.py's hooks
\* do not reach its key, or a request ran across a save), and a price or a product
\* page for no longer than the lifetimes on its way (utils/price_cache.py).
THEOREM ContentsAndPricesAreRecent == Spec => []ShownIsRecent
<1>1. ContentInv /\ CachesInv => ShownIsRecent
  BY DEF ContentInv, CachesInv, ShownIsRecent, Cm!StaleIsExplained, Pc!AgeIsBounded
<1>2. QED
  BY <1>1, ContentStart, ContentStep, CachesStart, CachesStep, PTL DEF Spec
-----------------------------------------------------------------------------
(* Memberships.                                                            *)

LEMMA MembershipsMove == [Next]_vars => [MembershipsNext]_membershipVars
BY DEF Next, vars, membershipVars, Shows, Pays, Asks, StillPlaces, StillMembers

MembershipShape ==
    /\ today \in Int
    /\ members \in [Sales -> [status : {"none", "Active", "Cancelled", "Expired"}, until : Int]]
    /\ selling \in [Sales -> [under : BOOLEAN, seen : SUBSET Sales]]

\* A sale under way has seen the memberships that are active, but for those
\* that were sold beside it or reopened since.
SalesSeeActive ==
    \A s \in Selling, a \in Active :
        a \in selling[s].seen \/ a \in reopened \/ {a, s} \subseteq beside

SalesAtOnceAreBeside ==
    \A s, t \in Selling : s # t => {s, t} \subseteq beside

MembershipInv == MembershipShape /\ SalesSeeActive /\ SalesAtOnceAreBeside /\ OneMembershipApplies

LEMMA MembershipStep ==
    ASSUME MembershipInv, [MembershipsNext]_membershipVars
    PROVE  MembershipInv'
  <1> USE DEF MembershipInv
  <1>1. ASSUME NEW s \in Sales, StartSale(s) PROVE MembershipInv'
    <2>1. /\ today' = today /\ members' = members /\ reopened' = reopened /\ beside \subseteq beside'
          /\ selling' = [selling EXCEPT ![s] = [under |-> TRUE, seen |-> Active]]
          /\ Selling # {} => Selling \cup {s} \subseteq beside'
      BY <1>1 DEF StartSale, Superseded
    <2>2. Active' = Active /\ Active \subseteq Sales
      BY <2>1 DEF Active
    <2>3. MembershipShape'
      BY <2>1, <2>2 DEF MembershipShape
    <2>4. /\ Selling' = Selling \cup {s} /\ selling'[s].seen = Active
          /\ \A t \in Selling \ {s} : selling'[t].seen = selling[t].seen
      BY <2>1 DEF Selling, MembershipShape
    <2>5. SalesSeeActive' /\ SalesAtOnceAreBeside'
      BY <2>1, <2>2, <2>4 DEF SalesSeeActive, SalesAtOnceAreBeside
    <2> QED BY <2>1, <2>2, <2>3, <2>5 DEF OneMembershipApplies
  <1>2. ASSUME NEW s \in Sales, FinishSale(s) PROVE MembershipInv'
    <2>1. /\ s \in Selling /\ reopened' = reopened /\ beside' = beside
          /\ selling' = [selling EXCEPT ![s] = NotSelling]
      BY <1>2 DEF FinishSale, Selling
    <2>2. MembershipShape'
      <3>1. \A m \in Sales : members'[m] \in
              [status : {"none", "Active", "Cancelled", "Expired"}, until : Int]
        <4> SUFFICES ASSUME NEW m \in Sales
                     PROVE  members'[m] \in
                        [status : {"none", "Active", "Cancelled", "Expired"}, until : Int]
          OBVIOUS
        <4>1. \/ members'[m] = [status |-> "Active", until |-> today + LengthOf[s]]
              \/ members'[m] = [members[m] EXCEPT !.status = "Cancelled"]
              \/ members'[m] = members[m]
          BY <1>2 DEF FinishSale
        <4>2. today + LengthOf[s] \in Int
          BY PlansAssumption DEF MembershipShape
        <4>3. members[m] \in [status : {"none", "Active", "Cancelled", "Expired"}, until : Int]
          BY DEF MembershipShape
        <4> QED BY <4>1, <4>2, <4>3
      <3>2. members' = [m \in Sales |-> members'[m]] /\ today' = today
        BY <1>2 DEF FinishSale
      <3>3. selling' \in [Sales -> [under : BOOLEAN, seen : SUBSET Sales]]
        BY <2>1 DEF MembershipShape, NotSelling
      <3> QED BY <3>1, <3>2, <3>3 DEF MembershipShape
    <2>3. Active' = {s} \cup (Active \ selling[s].seen)
      BY <1>2 DEF FinishSale, Active, MembershipShape
    <2>4. Selling' = Selling \ {s} /\ \A t \in Selling \ {s} : selling'[t] = selling[t]
      BY <2>1 DEF Selling, MembershipShape, NotSelling
    <2>5. SalesSeeActive' /\ SalesAtOnceAreBeside'
      BY <2>1, <2>3, <2>4 DEF SalesSeeActive, SalesAtOnceAreBeside
    <2>6. OneMembershipApplies'
      BY <2>1, <2>3 DEF OneMembershipApplies, SalesSeeActive
    <2> QED BY <2>2, <2>5, <2>6
  <1>3. ASSUME NEW s \in Sales, SetActive(s) PROVE MembershipInv'
    <2>1. /\ selling' = selling /\ beside' = beside /\ reopened' = reopened \cup {s}
          /\ \A m \in Sales \ {s} : members'[m] = members[m]
      BY <1>3 DEF SetActive, MembershipShape
    <2>2. MembershipShape'
      BY <1>3, <2>1 DEF SetActive, MembershipShape
    <2>3. Active' \subseteq Active \cup {s} /\ Selling' = Selling
      BY <2>1 DEF Active, Selling
    <2> QED BY <2>1, <2>2, <2>3 DEF SalesSeeActive, SalesAtOnceAreBeside, OneMembershipApplies
  <1>4. CASE ExpireMemberships
    <2>1. selling' = selling /\ beside' = beside /\ reopened' = reopened
      BY <1>4 DEF ExpireMemberships
    <2>2. MembershipShape'
      BY <1>4, <2>1 DEF ExpireMemberships, MembershipShape
    <2>3. Active' \subseteq Active /\ Selling' = Selling
      BY <1>4, <2>1 DEF ExpireMemberships, Active, Selling, MembershipShape
    <2> QED BY <2>1, <2>2, <2>3 DEF SalesSeeActive, SalesAtOnceAreBeside, OneMembershipApplies
  <1>5. CASE today' \in Int /\ UNCHANGED <<members, selling, beside, reopened>>
    BY <1>5 DEF MembershipShape, SalesSeeActive, SalesAtOnceAreBeside, OneMembershipApplies, Active, Selling
  <1> QED BY <1>1, <1>2, <1>3, <1>4, <1>5 DEF MembershipsNext, membershipVars, NextDay, MembershipShape

\* A sale supersedes what its transaction sees (customer_membership.py:23-39), and
\* nothing else makes a membership active but a desk save: so two apply only
\* where two sales, or a sale and an admin, met.
THEOREM OneAtATime == Spec => []OneMembershipApplies
  <1>1. Init => MembershipInv
    BY DEF Init, MembershipsInit, MembershipInv, MembershipShape, SalesSeeActive,
       SalesAtOnceAreBeside, OneMembershipApplies, Active, Selling, Unsold, NotSelling
  <1>2. MembershipInv /\ [Next]_vars => MembershipInv'
    BY MembershipsMove, MembershipStep
  <1>3. MembershipInv => OneMembershipApplies
    BY DEF MembershipInv
  <1> QED BY <1>1, <1>2, <1>3, PTL DEF Spec
-----------------------------------------------------------------------------
(* Carts.                                                                  *)

LEMMA CartsMove == [Next]_vars => [Ca!Next]_<<carts, open>>
BY DEF Next, vars, Shows, Pays, Asks, StillPlaces, StillCarts

CartRow == [status : {"Unused", "Active", "CheckedOut", "Merged"},
            session : Sessions \cup {"none"}, user : Users \cup {Nobody},
            items : [Lines -> 0..MaxQty]]
CartRequest == [op : {"none", "cart", "checkout", "merge", "adopt"},
                cart : CartIds \cup {NoCart}, other : CartIds \cup {NoCart},
                copy : CartRow, theirs : CartRow, moved : SUBSET CartIds]

\* What a request has read is what the cart still holds, until the cart's stamp
\* moves; and while it has not moved, nobody has checked the cart out.
Current(r) ==
    /\ open[r].op # "none" => open[r].cart \in CartIds
    /\ open[r].op = "merge" => open[r].other \in CartIds
    /\ open[r].cart \in CartIds \ open[r].moved =>
          /\ carts[open[r].cart].status = "Active"
          /\ open[r].copy.items = carts[open[r].cart].items
    /\ open[r].other \in CartIds \ open[r].moved =>
          /\ carts[open[r].other].status = "Active"
          /\ open[r].theirs.items = carts[open[r].other].items

CartsInv ==
    /\ carts \in [CartIds -> CartRow]
    /\ open \in [Requests -> CartRequest]
    /\ Ca!ActiveCartsHaveLines
    /\ \A r \in Requests : Current(r)

LEMMA IdleIsTyped == Ca!Idle \in CartRequest /\ Ca!Unused \in CartRow
<1>1. Ca!NoLines \in [Lines -> 0..MaxQty]
  BY CartsAssumption DEF Ca!NoLines
<1>2. Ca!Unused \in CartRow
  BY <1>1 DEF Ca!Unused, CartRow
<1>3. QED
  BY <1>2 DEF Ca!Idle, CartRequest

LEMMA CartsStart == Init => CartsInv
<1> SUFFICES ASSUME Init PROVE CartsInv
  OBVIOUS
<1>1. carts = [c \in CartIds |-> Ca!Unused] /\ open = [r \in Requests |-> Ca!Idle]
  BY DEF Init, Ca!Init
<1>2. \A r \in Requests : Current(r)
  BY <1>1, CartsAssumption DEF Current, Ca!Idle
<1>3. Ca!ActiveCartsHaveLines
  BY <1>1 DEF Ca!ActiveCartsHaveLines, Ca!Active, Ca!Unused
<1>4. QED
  BY <1>1, <1>2, <1>3, IdleIsTyped DEF CartsInv

\* What a write of the carts cs leaves of a request.
LEMMA Stamped ==
    ASSUME CartsInv, NEW cs \in SUBSET CartIds, NEW q \in Requests
    PROVE  /\ Ca!Stamp(cs)[q] \in CartRequest
           /\ Ca!Stamp(cs)[q].op = open[q].op /\ Ca!Stamp(cs)[q].cart = open[q].cart
           /\ Ca!Stamp(cs)[q].other = open[q].other /\ Ca!Stamp(cs)[q].copy = open[q].copy
           /\ Ca!Stamp(cs)[q].theirs = open[q].theirs
           /\ Ca!Stamp(cs)[q].moved = open[q].moved \cup (cs \cap {open[q].cart, open[q].other})
<1>1. Ca!Stamp(cs)[q] =
        [open[q] EXCEPT !.moved = open[q].moved \cup (cs \cap {open[q].cart, open[q].other})]
  BY DEF Ca!Stamp
<1>2. open[q] \in CartRequest
  BY DEF CartsInv
<1>3. QED
  BY <1>1, <1>2 DEF CartRequest

\* A step that writes the carts cs, moves their stamps and ends the request r.
LEMMA CartsWritten ==
    ASSUME CartsInv, NEW cs \in SUBSET CartIds, carts' \in [CartIds -> CartRow],
           \A c \in CartIds \ cs : carts'[c] = carts[c],
           open' = Ca!Stamp(cs) \/ \E r \in Requests : open' = Ca!Done(r, cs)
    PROVE  open' \in [Requests -> CartRequest] /\ \A q \in Requests : Current(q)'
<1>1. \A q \in Requests : open'[q] = Ca!Stamp(cs)[q] \/ open'[q] = Ca!Idle
  BY DEF Ca!Done, Ca!Stamp
<1>2. open' = [q \in Requests |-> open'[q]]
  BY DEF Ca!Done, Ca!Stamp
<1>3. ASSUME NEW q \in Requests PROVE open'[q] \in CartRequest /\ Current(q)'
  <2>1. CASE open'[q] = Ca!Idle
    BY <2>1, IdleIsTyped, CartsAssumption DEF Current, Ca!Idle
  <2>2. CASE open'[q] = Ca!Stamp(cs)[q]
    <3>1. /\ open'[q] \in CartRequest
          /\ open'[q].op = open[q].op /\ open'[q].cart = open[q].cart
          /\ open'[q].other = open[q].other /\ open'[q].copy = open[q].copy
          /\ open'[q].theirs = open[q].theirs
          /\ open'[q].moved = open[q].moved \cup (cs \cap {open[q].cart, open[q].other})
      BY <2>2, Stamped
    <3>2. Current(q)
      BY DEF CartsInv
    <3>3. open[q].cart \in CartIds \ open'[q].moved =>
            open[q].cart \in CartIds \ open[q].moved /\ carts'[open[q].cart] = carts[open[q].cart]
      BY <3>1
    <3>4. open[q].other \in CartIds \ open'[q].moved =>
            open[q].other \in CartIds \ open[q].moved /\ carts'[open[q].other] = carts[open[q].other]
      BY <3>1
    <3>5. QED
      BY <3>1, <3>2, <3>3, <3>4 DEF Current
  <2>3. QED
    BY <1>1, <2>1, <2>2
<1>4. QED
  BY <1>2, <1>3

\* No other request's merge ends with a step, and none that was not one does.
LEMMA NoMergeEnds ==
    ASSUME CartsInv, NEW cs \in SUBSET CartIds,
           \/ open' = Ca!Stamp(cs)
           \/ \E r \in Requests : open' = Ca!Done(r, cs) /\ open[r].op # "merge"
    PROVE  Ca!MergeKeepsPieces
<1>1. \A q \in Requests : open[q].op = "merge" => open'[q] = Ca!Stamp(cs)[q]
  BY DEF Ca!Done, Ca!Stamp
<1>2. \A q \in Requests : open[q].op = "merge" => open'[q].op = "merge"
  BY <1>1, Stamped
<1>3. QED
  BY <1>2 DEF Ca!MergeKeepsPieces

LEMMA OthersGoOn ==
    ASSUME CartsInv, NEW cs \in SUBSET CartIds, NEW r \in Requests, open' = Ca!Done(r, cs)
    PROVE  \A q \in Requests \ {r} : open'[q].op = open[q].op
<1>1. \A q \in Requests \ {r} : open'[q] = Ca!Stamp(cs)[q]
  BY DEF Ca!Done, Ca!Stamp
<1>2. QED
  BY <1>1, Stamped

Kept == CartsInv' /\ Ca!LinesAreKept

\* A handler that writes nothing.
LEMMA NothingSaved ==
    ASSUME CartsInv, NEW r \in Requests, open[r].op # "merge", carts' = carts,
           open' = Ca!Done(r, {})
    PROVE  Kept
<1>1. open' \in [Requests -> CartRequest] /\ \A q \in Requests : Current(q)'
  BY CartsWritten DEF CartsInv
<1>2. Ca!MergeKeepsPieces
  BY NoMergeEnds
<1>3. Ca!ActiveCartsHaveLines' /\ Ca!EndedCartsStayEnded
  BY DEF CartsInv, Ca!ActiveCartsHaveLines, Ca!Active, Ca!EndedCartsStayEnded
<1>4. QED
  BY <1>1, <1>2, <1>3 DEF Kept, CartsInv, Ca!LinesAreKept

\* Document.save.
LEMMA SaveKeeps ==
    ASSUME CartsInv, NEW r \in Requests, open[r].op \in {"cart", "adopt"},
           NEW copy \in CartRow, Ca!Save(r, copy)
    PROVE  Kept
<1>1. CASE ~Ca!Saves(r, copy)
  BY <1>1, NothingSaved DEF Ca!Save
<1>2. CASE Ca!Saves(r, copy)
  <2> DEFINE c == open[r].cart
  <2>1. /\ carts' = [carts EXCEPT ![c] = copy] /\ open' = Ca!Done(r, {c})
        /\ c \notin open[r].moved /\ copy.items # Ca!NoLines
    BY <1>2 DEF Ca!Save, Ca!Saves, Ca!Empty
  <2>2. c \in CartIds /\ carts[c].status = "Active"
    BY <2>1 DEF CartsInv, Current
  <2> HIDE DEF c
  <2>3. /\ carts' \in [CartIds -> CartRow] /\ carts'[c] = copy
        /\ \A d \in CartIds \ {c} : carts'[d] = carts[d]
    BY <2>1, <2>2 DEF CartsInv
  <2>4. open' \in [Requests -> CartRequest] /\ \A q \in Requests : Current(q)'
    BY <2>1, <2>2, <2>3, CartsWritten
  <2>5. Ca!MergeKeepsPieces
    BY <2>1, <2>2, NoMergeEnds
  <2>6. Ca!ActiveCartsHaveLines'
    BY <2>1, <2>2, <2>3 DEF CartsInv, Ca!ActiveCartsHaveLines, Ca!Active, Ca!Empty, Ca!NoLines
  <2>7. Ca!EndedCartsStayEnded
    BY <2>2, <2>3 DEF Ca!EndedCartsStayEnded
  <2>8. QED
    BY <2>3, <2>4, <2>5, <2>6, <2>7 DEF Kept, CartsInv, Ca!LinesAreKept
<1>3. QED
  BY <1>1, <1>2

LEMMA LeaveKeeps ==
    ASSUME CartsInv, NEW r \in Requests, open[r].op \in {"cart", "adopt"}, Ca!Leave(r)
    PROVE  Kept
<1>1. open[r].copy \in CartRow
  BY DEF CartsInv, CartRequest
<1>2. QED
  BY <1>1, SaveKeeps, NothingSaved DEF Ca!Leave

LEMMA PutIsTyped ==
    ASSUME NEW copy \in CartRow, NEW l \in Lines, NEW q \in 0..MaxQty
    PROVE  Ca!Put(copy, l, q) \in CartRow
<1>1. [copy.items EXCEPT ![l] = q] \in [Lines -> 0..MaxQty]
  BY DEF CartRow
<1>2. Ca!Put(copy, l, q) = [copy EXCEPT !.items = [copy.items EXCEPT ![l] = q]]
  BY DEF Ca!Put, CartRow
<1>3. QED
  BY <1>1, <1>2 DEF CartRow

\* A handler of a request that has opened its cart, a merge apart.
LEMMA HandlersKeep ==
    ASSUME CartsInv, NEW r \in Requests,
           \/ \E l \in Lines, q \in 1..MaxQty : Ca!AddToCart(r, l, q) \/ Ca!SyncCartOffline(r, l, q)
           \/ \E l \in Lines, q \in 0..MaxQty : Ca!UpdateCartItem(r, l, q)
           \/ Ca!GetOrClearCart(r) \/ Ca!SetCustomerLocation(r) \/ Ca!Adopt(r)
    PROVE  Kept
<1>0. open[r].copy \in CartRow /\ open[r].copy.items \in [Lines -> 0..MaxQty]
  BY DEF CartsInv, CartRequest, CartRow
<1>1. ASSUME NEW l \in Lines, NEW q \in 1..MaxQty, Ca!AddToCart(r, l, q) PROVE Kept
  <2>1. open[r].copy.items[l] + q \in 0..MaxQty
    <3>1. open[r].copy.items[l] \in 0..MaxQty /\ open[r].copy.items[l] + q <= MaxQty
      BY <1>0, <1>1 DEF Ca!AddToCart
    <3>2. QED
      BY <3>1, CartsAssumption
  <2>2. Ca!Put(open[r].copy, l, open[r].copy.items[l] + q) \in CartRow
    BY <1>0, <2>1, PutIsTyped
  <2>3. QED
    BY <1>0, <1>1, <2>2, SaveKeeps DEF Ca!AddToCart
<1>2. ASSUME NEW l \in Lines, NEW q \in 1..MaxQty, Ca!SyncCartOffline(r, l, q) PROVE Kept
  <2>1. Ca!Put(open[r].copy, l, q) \in CartRow
    BY <1>0, PutIsTyped, CartsAssumption
  <2>2. QED
    BY <1>0, <1>2, <2>1, SaveKeeps DEF Ca!SyncCartOffline
<1>3. ASSUME NEW l \in Lines, NEW q \in 0..MaxQty, Ca!UpdateCartItem(r, l, q) PROVE Kept
  <2>1. Ca!Put(open[r].copy, l, q) \in CartRow
    BY <1>0, PutIsTyped
  <2>2. QED
    BY <1>3, <2>1, SaveKeeps, LeaveKeeps DEF Ca!UpdateCartItem
<1>4. CASE Ca!GetOrClearCart(r)
  <2>1. [open[r].copy EXCEPT !.items = Ca!NoLines] \in CartRow
    BY <1>0, IdleIsTyped DEF CartRow, Ca!Unused
  <2>2. QED
    BY <1>4, <2>1, SaveKeeps, LeaveKeeps DEF Ca!GetOrClearCart
<1>5. CASE Ca!SetCustomerLocation(r) \/ Ca!Adopt(r)
  BY <1>0, <1>5, SaveKeeps DEF Ca!SetCustomerLocation, Ca!Adopt
<1>6. QED
  BY <1>1, <1>2, <1>3, <1>4, <1>5

\* A request that has just read its carts.
LEMMA ReadsKeep ==
    ASSUME CartsInv, NEW r \in Requests, NEW req \in CartRequest, open[r].op = "none",
           carts' = carts, open' = [open EXCEPT ![r] = req], req.op # "none",
           req.cart \in CartIds, carts[req.cart].status = "Active",
           req.copy.items = carts[req.cart].items,
           \/ req.other = NoCart /\ req.op # "merge"
           \/ /\ req.other \in CartIds /\ carts[req.other].status = "Active"
              /\ req.theirs.items = carts[req.other].items
    PROVE  Kept
<1>1. /\ open' \in [Requests -> CartRequest] /\ open'[r] = req
      /\ \A q \in Requests \ {r} : open'[q] = open[q]
  BY DEF CartsInv
<1>2. Current(r)'
  BY <1>1, CartsAssumption DEF Current
<1>3. \A q \in Requests \ {r} : Current(q)'
  BY <1>1 DEF CartsInv, Current
<1>4. Ca!MergeKeepsPieces
  BY <1>1 DEF Ca!MergeKeepsPieces
<1>5. Ca!ActiveCartsHaveLines' /\ Ca!EndedCartsStayEnded
  BY DEF CartsInv, Ca!ActiveCartsHaveLines, Ca!Active, Ca!EndedCartsStayEnded
<1>6. QED
  BY <1>1, <1>2, <1>3, <1>4, <1>5 DEF Kept, CartsInv, Ca!LinesAreKept

LEMMA MergeKeeps ==
    ASSUME CartsInv, NEW r \in Requests, Ca!Merge(r)
    PROVE  Kept
<1> DEFINE mine == open[r].cart
           theirs == open[r].other
           items == Ca!MergedItems(open[r].copy.items, open[r].theirs.items)
<1>0. /\ open[r].op = "merge" /\ open[r] \in CartRequest /\ Current(r)
      /\ mine \in CartIds /\ theirs \in CartIds
  BY DEF CartsInv, Current, Ca!Merge
<1>1. /\ items \in [Lines -> 0..MaxQty]
      /\ \A l \in Lines : items[l] = open[r].copy.items[l] + open[r].theirs.items[l]
      /\ \A l \in Lines : open[r].copy.items[l] \in Nat /\ open[r].theirs.items[l] \in Nat
  <2>1. open[r].copy.items \in [Lines -> 0..MaxQty] /\ open[r].theirs.items \in [Lines -> 0..MaxQty]
    BY <1>0 DEF CartRequest, CartRow
  <2>2. \A l \in Lines : items[l] <= MaxQty
    BY DEF Ca!Merge
  <2>3. QED
    BY <2>1, <2>2, CartsAssumption DEF Ca!MergedItems
<1> HIDE DEF items
\* Two carts nobody has touched have lines, so their sum is saved.
<1>2. open[r].moved = {} => Ca!Saves(r, [open[r].copy EXCEPT !.items = items])
  <2> SUFFICES ASSUME open[r].moved = {}
               PROVE  Ca!Saves(r, [open[r].copy EXCEPT !.items = items])
    OBVIOUS
  <2>1. carts[mine].status = "Active" /\ open[r].copy.items = carts[mine].items
    BY <1>0 DEF Current
  <2>2. carts[mine].items # Ca!NoLines
    BY <1>0, <2>1 DEF CartsInv, Ca!ActiveCartsHaveLines, Ca!Active, Ca!Empty
  <2>3. open[r].copy.items \in [Lines -> 0..MaxQty]
    BY <1>0 DEF CartRequest, CartRow
  <2>4. PICK l \in Lines : open[r].copy.items[l] # 0
    BY <2>1, <2>2, <2>3 DEF Ca!NoLines
  <2>5. items[l] # 0
    BY <1>1, <2>4
  <2>6. items # Ca!NoLines
    BY <2>5 DEF Ca!NoLines
  <2>7. [open[r].copy EXCEPT !.items = items].items = items
    BY <1>0 DEF CartRequest, CartRow
  <2>8. QED
    BY <2>6, <2>7 DEF Ca!Saves, Ca!Empty
<1>3. CASE ~Ca!Saves(r, [open[r].copy EXCEPT !.items = items])
  <2>1. carts' = carts /\ open' = Ca!Done(r, {}) /\ open[r].moved # {}
    BY <1>2, <1>3 DEF Ca!Merge, items
  <2>2. open' \in [Requests -> CartRequest] /\ \A q \in Requests : Current(q)'
    BY <2>1, CartsWritten DEF CartsInv
  <2>3. Ca!MergeKeepsPieces
    <3>1. \A q \in Requests \ {r} : open'[q].op = open[q].op
      BY <2>1, OthersGoOn
    <3>2. QED
      BY <2>1, <3>1 DEF Ca!MergeKeepsPieces
  <2>4. Ca!ActiveCartsHaveLines' /\ Ca!EndedCartsStayEnded
    BY <2>1 DEF CartsInv, Ca!ActiveCartsHaveLines, Ca!Active, Ca!EndedCartsStayEnded
  <2>5. QED
    BY <2>1, <2>2, <2>3, <2>4 DEF Kept, CartsInv, Ca!LinesAreKept
<1>4. CASE Ca!Saves(r, [open[r].copy EXCEPT !.items = items])
  <2>1. /\ carts' = [c \in CartIds |->
               [carts[c] EXCEPT !.items = IF c = mine THEN items ELSE @,
                                !.status = IF c = theirs THEN "Merged" ELSE @]]
        /\ open' = Ca!Done(r, {mine, theirs})
    BY <1>4 DEF Ca!Merge, items
  <2>2. mine \notin open[r].moved /\ items # Ca!NoLines
    <3>1. [open[r].copy EXCEPT !.items = items].items = items
      BY <1>0 DEF CartRequest, CartRow
    <3>2. QED
      BY <1>4, <3>1 DEF Ca!Saves, Ca!Empty
  <2>3. carts[mine].status = "Active"
    BY <1>0, <2>2 DEF Current
  <2> HIDE DEF mine, theirs
  <2>4. \A c \in CartIds :
          /\ carts'[c] \in CartRow
          /\ carts'[c].items = IF c = mine THEN items ELSE carts[c].items
          /\ carts'[c].status = IF c = theirs THEN "Merged" ELSE carts[c].status
          /\ c \notin {mine, theirs} => carts'[c] = carts[c]
    <3> SUFFICES ASSUME NEW c \in CartIds
                 PROVE  /\ carts'[c] \in CartRow
                        /\ carts'[c].items = IF c = mine THEN items ELSE carts[c].items
                        /\ carts'[c].status = IF c = theirs THEN "Merged" ELSE carts[c].status
                        /\ c \notin {mine, theirs} => carts'[c] = carts[c]
      OBVIOUS
    <3>1. carts[c] \in CartRow
      BY DEF CartsInv
    <3>2. carts'[c] = [carts[c] EXCEPT !.items = IF c = mine THEN items ELSE carts[c].items,
                          !.status = IF c = theirs THEN "Merged" ELSE carts[c].status]
      BY <2>1
    <3>3. QED
      BY <1>1, <3>1, <3>2 DEF CartRow
  <2>5. carts' \in [CartIds -> CartRow]
    BY <2>1, <2>4
  <2>6. open' \in [Requests -> CartRequest] /\ \A q \in Requests : Current(q)'
    <3> DEFINE cs == {mine, theirs}
    <3>1. cs \in SUBSET CartIds
      BY <1>0 DEF mine, theirs
    <3>2. (\A c \in CartIds \ cs : carts'[c] = carts[c]) /\ open' = Ca!Done(r, cs)
      BY <2>1, <2>4
    <3> HIDE DEF cs
    <3>3. QED
      BY <2>5, <3>1, <3>2, CartsWritten
  <2>7. Ca!ActiveCartsHaveLines' /\ Ca!EndedCartsStayEnded
    BY <2>2, <2>3, <2>4 DEF CartsInv, Ca!ActiveCartsHaveLines, Ca!Active, Ca!Empty,
       Ca!NoLines, Ca!EndedCartsStayEnded
  <2>8. Ca!MergeKeepsPieces
    <3>1. {mine, theirs} \in SUBSET CartIds
      BY <1>0 DEF mine, theirs
    <3>2. \A q \in Requests \ {r} : open'[q].op = open[q].op
      BY <2>1, <3>1, OthersGoOn
    <3>3. open[r].moved = {} /\ mine # theirs =>
            \A l \in Lines : carts'[mine].items[l] = carts[mine].items[l] + carts[theirs].items[l]
      BY <1>0, <1>1, <2>4 DEF Current, mine, theirs
    <3>4. QED
      BY <3>2, <3>3 DEF Ca!MergeKeepsPieces, mine, theirs
  <2>9. QED
    BY <2>5, <2>6, <2>7, <2>8 DEF Kept, CartsInv, Ca!LinesAreKept
<1>5. QED
  BY <1>3, <1>4

LEMMA CartsStep == CartsInv /\ [Next]_vars => Kept
<1> SUFFICES ASSUME CartsInv, [Ca!Next]_<<carts, open>> PROVE Kept
  BY CartsMove
<1>1. ASSUME NEW c \in CartIds, NEW s \in Sessions, NEW l \in Lines, Ca!Write(c, s, l) PROVE Kept
  <2> DEFINE row == [status |-> "Active", session |-> s, user |-> Nobody,
                     items |-> [Ca!NoLines EXCEPT ![l] = 1]]
  <2>1. carts[c].status = "Unused" /\ carts' = [carts EXCEPT ![c] = row] /\ open' = open
    BY <1>1 DEF Ca!Write
  <2>2. row \in CartRow /\ row.items # Ca!NoLines /\ row.status = "Active"
    BY CartsAssumption DEF CartRow, Ca!NoLines
  <2> HIDE DEF row
  <2>3. /\ carts' \in [CartIds -> CartRow] /\ carts'[c] = row
        /\ \A d \in CartIds \ {c} : carts'[d] = carts[d]
    BY <2>1, <2>2 DEF CartsInv
  <2>4. \A q \in Requests : Current(q)'
    BY <2>1, <2>3 DEF CartsInv, Current
  <2>5. Ca!ActiveCartsHaveLines' /\ Ca!EndedCartsStayEnded
    BY <2>1, <2>2, <2>3 DEF CartsInv, Ca!ActiveCartsHaveLines, Ca!Active, Ca!Empty,
       Ca!NoLines, Ca!EndedCartsStayEnded
  <2>6. Ca!MergeKeepsPieces
    BY <2>1 DEF Ca!MergeKeepsPieces
  <2>7. QED
    BY <2>1, <2>3, <2>4, <2>5, <2>6 DEF Kept, CartsInv, Ca!LinesAreKept
<1>2. ASSUME NEW u, NEW s \in Sessions, Ca!CreateRefused(u, s) PROVE Kept
  <2>1. PICK c \in CartIds : /\ ~Ca!Active(c) /\ carts' = [carts EXCEPT ![c].session = "none"]
                             /\ open' = Ca!Stamp({c})
    BY <1>2 DEF Ca!CreateRefused
  <2>2. /\ carts' \in [CartIds -> CartRow] /\ \A d \in CartIds \ {c} : carts'[d] = carts[d]
        /\ \A d \in CartIds : carts'[d].status = carts[d].status /\ carts'[d].items = carts[d].items
    BY <2>1 DEF CartsInv, CartRow
  <2>3. open' \in [Requests -> CartRequest] /\ \A q \in Requests : Current(q)'
    <3> DEFINE cs == {c}
    <3>1. cs \in SUBSET CartIds /\ open' = Ca!Stamp(cs) /\ \A d \in CartIds \ cs : carts'[d] = carts[d]
      BY <2>1, <2>2
    <3> HIDE DEF cs
    <3>2. QED
      BY <2>2, <3>1, CartsWritten
  <2>4. Ca!MergeKeepsPieces
    BY <2>1, NoMergeEnds
  <2>5. Ca!ActiveCartsHaveLines' /\ Ca!EndedCartsStayEnded
    BY <2>2 DEF CartsInv, Ca!ActiveCartsHaveLines, Ca!Active, Ca!Empty, Ca!NoLines,
       Ca!EndedCartsStayEnded
  <2>6. QED
    BY <2>2, <2>3, <2>4, <2>5 DEF Kept, CartsInv, Ca!LinesAreKept
<1>3. ASSUME NEW u \in Users \cup {Nobody}, NEW s \in Sessions, NEW r \in Requests,
             NEW op \in {"cart", "checkout"}, Ca!Open(r, u, s, op)
      PROVE  Kept
  <2> DEFINE owner(c) == IF op = "checkout" \/ u = Nobody THEN carts[c].user ELSE u
             req(c) == [Ca!Idle EXCEPT !.op = op, !.cart = c,
                                       !.copy = [carts[c] EXCEPT !.user = owner(c)]]
  <2>1. PICK c \in CartIds : /\ Ca!Active(c) /\ open[r].op = "none" /\ carts' = carts
                             /\ open' = [open EXCEPT ![r] = req(c)]
    BY <1>3 DEF Ca!Open, Ca!Mine, Ca!Found, Ca!OfUser, Ca!OfSession
  <2>2. carts[c] \in CartRow
    BY DEF CartsInv
  <2>3. /\ [carts[c] EXCEPT !.user = owner(c)] \in CartRow
        /\ [carts[c] EXCEPT !.user = owner(c)].items = carts[c].items
    BY <2>2 DEF CartRow
  <2>4. /\ req(c) \in CartRequest /\ req(c).op = op /\ req(c).cart = c /\ req(c).other = NoCart
        /\ req(c).copy.items = carts[c].items
    BY <2>3, IdleIsTyped DEF CartRequest, Ca!Idle
  <2> HIDE DEF req
  <2>5. QED
    BY <2>1, <2>4, ReadsKeep DEF Ca!Active
<1>4. ASSUME NEW r \in Requests, NEW u \in Users, NEW s \in Sessions, Ca!LoginRead(r, u, s)
      PROVE  Kept
  <2>1. open[r].op = "none" /\ carts' = carts
    BY <1>4 DEF Ca!LoginRead
  <2>2. ASSUME NEW g \in CartIds, Ca!Active(g),
               open' = [open EXCEPT ![r] = [Ca!Idle EXCEPT !.op = "adopt", !.cart = g,
                                                !.copy = [carts[g] EXCEPT !.user = u]]]
        PROVE  Kept
    <3> DEFINE req == [Ca!Idle EXCEPT !.op = "adopt", !.cart = g,
                                      !.copy = [carts[g] EXCEPT !.user = u]]
    <3>1. carts[g] \in CartRow
      BY DEF CartsInv
    <3>2. /\ [carts[g] EXCEPT !.user = u] \in CartRow
          /\ [carts[g] EXCEPT !.user = u].items = carts[g].items
      BY <3>1 DEF CartRow
    <3>3. /\ req \in CartRequest /\ req.op = "adopt" /\ req.cart = g /\ req.other = NoCart
          /\ req.copy.items = carts[g].items
      BY <3>2, IdleIsTyped DEF CartRequest, Ca!Idle
    <3>4. open' = [open EXCEPT ![r] = req]
      BY <2>2
    <3> HIDE DEF req
    <3>5. QED
      BY <2>1, <2>2, <3>3, <3>4, ReadsKeep DEF Ca!Active
  <2>3. ASSUME NEW g \in CartIds, NEW c \in CartIds, Ca!Active(g), Ca!Active(c),
               open' = [open EXCEPT ![r] = [Ca!Idle EXCEPT !.op = "merge", !.cart = c, !.other = g,
                                                !.copy = carts[c], !.theirs = carts[g]]]
        PROVE  Kept
    <3> DEFINE req == [Ca!Idle EXCEPT !.op = "merge", !.cart = c, !.other = g,
                                      !.copy = carts[c], !.theirs = carts[g]]
    <3>1. carts[g] \in CartRow /\ carts[c] \in CartRow
      BY DEF CartsInv
    <3>2. /\ req \in CartRequest /\ req.op = "merge" /\ req.cart = c /\ req.other = g
          /\ req.copy = carts[c] /\ req.theirs = carts[g]
      BY <3>1, IdleIsTyped DEF CartRequest, Ca!Idle
    <3>3. open' = [open EXCEPT ![r] = req]
      BY <2>3
    <3> HIDE DEF req
    <3>4. QED
      BY <2>1, <2>3, <3>2, <3>3, ReadsKeep DEF Ca!Active
  <2>4. QED
    BY <1>4, <2>2, <2>3 DEF Ca!LoginRead, Ca!OfUser, Ca!OfSession
<1>5. ASSUME NEW r \in Requests, Ca!Checkout(r) PROVE Kept
  <2> DEFINE c == open[r].cart
  <2>1. /\ carts' = [carts EXCEPT ![c].status = "CheckedOut"] /\ open' = Ca!Done(r, {c})
        /\ open[r].op = "checkout" /\ c \in CartIds
    BY <1>5 DEF Ca!Checkout, Ca!MarkCheckedOut, CartsInv, Current
  <2> HIDE DEF c
  <2>2. /\ carts' \in [CartIds -> CartRow] /\ \A d \in CartIds \ {c} : carts'[d] = carts[d]
        /\ \A d \in CartIds : carts'[d].items = carts[d].items
        /\ carts'[c].status = "CheckedOut"
    BY <2>1 DEF CartsInv, CartRow
  <2>3. open' \in [Requests -> CartRequest] /\ \A q \in Requests : Current(q)'
    <3> DEFINE cs == {c}
    <3>1. cs \in SUBSET CartIds /\ open' = Ca!Done(r, cs) /\ \A d \in CartIds \ cs : carts'[d] = carts[d]
      BY <2>1, <2>2
    <3> HIDE DEF cs
    <3>2. QED
      BY <2>2, <3>1, CartsWritten
  <2>4. Ca!MergeKeepsPieces
    BY <2>1, NoMergeEnds
  <2>5. Ca!ActiveCartsHaveLines' /\ Ca!EndedCartsStayEnded
    BY <2>2 DEF CartsInv, Ca!ActiveCartsHaveLines, Ca!Active, Ca!Empty, Ca!NoLines,
       Ca!EndedCartsStayEnded
  <2>6. QED
    BY <2>2, <2>3, <2>4, <2>5 DEF Kept, CartsInv, Ca!LinesAreKept
<1>6. CASE UNCHANGED <<carts, open>>
  BY <1>6 DEF Kept, CartsInv, Current, Ca!LinesAreKept, Ca!MergeKeepsPieces,
     Ca!EndedCartsStayEnded, Ca!ActiveCartsHaveLines, Ca!Active
<1>7. QED
  BY <1>1, <1>2, <1>3, <1>4, <1>5, <1>6, HandlersKeep, MergeKeeps DEF Ca!Next

\* Requests read a cart and save it later: Document.save's stamp, and its refusal of
\* a cart without lines, keep what the shopper put there until checkout and as it
\* was afterwards, and a merge keeps both carts' units (api/cart.py).
THEOREM LinesAreAlwaysKept == Spec => CartsKeepTheirLines
<1>1. CartsInv /\ [Next]_vars => CartsInv' /\ [Ca!LinesAreKept]_vars
  BY CartsStep DEF Kept
<1>2. QED
  BY <1>1, CartsStart, PTL DEF Spec, CartsKeepTheirLines
-----------------------------------------------------------------------------
(* Variants.                                                               *)

LEMMA VariantsMove ==
    [Next]_vars => [Va!Next]_<<parent, variants, requests, starts, made, refused, victims>>
BY DEF Next, vars, Shows, Pays, Asks, StillShown, StillVariants

\* Of one number more than there are rows, a row has not taken one.
LEMMA SomeNumberIsFree ==
    ASSUME NEW R, IsFiniteSet(R), NEW slug
    PROVE  \E n \in 1..(Cardinality(R) + 1) : ~\E v \in R : v.slug = <<slug, n>>
<1> DEFINE N == 1..(Cardinality(R) + 1)
           row == [n \in N |-> CHOOSE v \in R : v.slug = <<slug, n>>]
<1>1. SUFFICES ASSUME \A n \in N : \E v \in R : v.slug = <<slug, n>> PROVE FALSE
  OBVIOUS
<1>2. Cardinality(R) \in Nat
  BY FS_CardinalityType
<1>3. IsFiniteSet(N) /\ Cardinality(N) = Cardinality(R) + 1
  BY <1>2, FS_Interval
<1>4. \A n \in N : row[n] \in R /\ row[n].slug = <<slug, n>>
  BY <1>1
<1>5. row \in [N -> R]
  BY <1>4
<1> HIDE DEF row, N
<1>6. \E m, n \in N : m # n /\ row[m] = row[n]
  BY <1>2, <1>3, <1>5, FS_PigeonHole
<1>7. QED
  BY <1>4, <1>6

VariantRequest ==
    [todo : Seq(Va!Combinations), known : SUBSET {SigOf[c] : c \in Va!Combinations},
     seen : SUBSET Va!Variants, rows : SUBSET Va!Variants,
     failed : SUBSET (Va!Combinations \X BOOLEAN), open : BOOLEAN]

Alike(v, w) == NameOf[v.combo] = NameOf[w.combo]

\* The primary key: no two rows, committed or not, have one name.
NamesAreKeys ==
    /\ \A v, w \in variants : Alike(v, w) => v = w
    /\ \A r \in Requests : \A v \in requests[r].rows :
          /\ \A w \in variants : ~Alike(v, w)
          /\ \A w \in requests[r].rows : Alike(v, w) => v = w
          /\ \A s \in Requests \ {r} : \A w \in requests[s].rows : ~Alike(v, w)

\* A refusal is explained, one that is not yet reported by the rows its own
\* transaction will commit or lose.
Explained(f, R, lost) ==
    \/ f[2]
    \/ \E v \in R : NameOf[v.combo] = NameOf[f[1]]
    \/ \E c \in lost : NameOf[c] = NameOf[f[1]]

VariantsInv ==
    /\ variants \subseteq Va!Variants /\ IsFiniteSet(variants)
    /\ requests \in [Requests -> VariantRequest]
    /\ \A r \in Requests : IsFiniteSet(requests[r].seen) /\ IsFiniteSet(requests[r].rows)
    /\ NamesAreKeys
    /\ Va!CreatedIsKept
    /\ \A f \in refused : Explained(f, variants, victims)
    /\ \A r \in Requests : \A f \in requests[r].failed :
          Explained(f, variants \cup requests[r].rows, victims)

\* The slug that create_variants counts up to is none the transaction sees.
LEMMA FreeSlugIsFree ==
    ASSUME VariantsInv, NEW r \in Requests, NEW c
    PROVE  /\ \A v \in requests[r].seen \cup requests[r].rows : v.slug # Va!FreeSlug(r, c)
           /\ Va!FreeSlug(r, c) \in {SlugOf[c]} \X Nat
<1> DEFINE R == requests[r].seen \cup requests[r].rows
           free == {n \in 1..(Cardinality(R) + 1) : ~\E v \in R : v.slug = <<SlugOf[c], n>>}
<1>1. IsFiniteSet(R)
  BY FS_Union DEF VariantsInv
<1>2. free # {}
  <2>1. \E n \in 1..(Cardinality(R) + 1) : ~\E v \in R : v.slug = <<SlugOf[c], n>>
    <3> HIDE DEF R
    <3>1. QED
      BY <1>1, SomeNumberIsFree
  <2>2. QED
    BY <2>1
<1>3. Cardinality(R) \in Nat
  BY <1>1, FS_CardinalityType
<1>4. free \in SUBSET Nat
  BY <1>3
<1>5. Va!FreeSlug(r, c) = <<SlugOf[c], Va!Min(free)>>
  BY DEF Va!FreeSlug, Va!Cardinality, Cardinality
<1>6. \A n \in free : ~\E v \in R : v.slug = <<SlugOf[c], n>>
  OBVIOUS
<1> HIDE DEF free, R
<1>7. Va!Min(free) \in free
  BY <1>2, <1>4, LeastExists DEF Va!Min
<1>8. \A v \in R : v.slug # Va!FreeSlug(r, c)
  BY <1>5, <1>6, <1>7
<1>9. Va!FreeSlug(r, c) \in {SlugOf[c]} \X Nat
  <2>1. Va!Min(free) \in Nat
    BY <1>4, <1>7
  <2>2. QED
    BY <1>5, <2>1
<1>10. QED
  BY <1>8, <1>9 DEF R

LEMMA VariantsStart == Init => VariantsInv
<1> SUFFICES ASSUME Init PROVE VariantsInv
  OBVIOUS
<1>1. /\ variants = {} /\ requests = [r \in Requests |-> Va!Idle] /\ made = {} /\ refused = {}
      /\ IsFiniteSet({})
  BY FS_EmptySet DEF Init, Va!Init
<1>2. Va!Idle \in VariantRequest
  BY DEF Va!Idle, VariantRequest
<1>3. requests \in [Requests -> VariantRequest]
  BY <1>1, <1>2
<1>4. \A r \in Requests : requests[r].seen = {} /\ requests[r].rows = {} /\ requests[r].failed = {}
  BY <1>1 DEF Va!Idle
<1>5. QED
  BY <1>1, <1>3, <1>4 DEF VariantsInv, NamesAreKeys, Va!CreatedIsKept

\* A step of one request that commits nothing.
LEMMA RequestMoves ==
    ASSUME VariantsInv, NEW r \in Requests, NEW q \in VariantRequest,
           requests' = [requests EXCEPT ![r] = q], variants' = variants, refused' = refused,
           victims \subseteq victims', made' \ victims' \subseteq made \ victims,
           IsFiniteSet(q.seen), IsFiniteSet(q.rows),
           \A v \in q.rows :
              /\ \A w \in variants : ~Alike(v, w)
              /\ \A w \in q.rows : Alike(v, w) => v = w
              /\ \A s \in Requests \ {r} : \A w \in requests[s].rows : ~Alike(v, w),
           \A f \in q.failed : Explained(f, variants \cup q.rows, victims')
    PROVE  VariantsInv'
<1>1. /\ requests' \in [Requests -> VariantRequest] /\ requests'[r] = q
      /\ \A s \in Requests \ {r} : requests'[s] = requests[s]
  BY DEF VariantsInv
<1>2. \A s \in Requests : IsFiniteSet(requests'[s].seen) /\ IsFiniteSet(requests'[s].rows)
  BY <1>1 DEF VariantsInv
<1>3. NamesAreKeys'
  BY <1>1 DEF VariantsInv, NamesAreKeys, Alike
<1>4. Va!CreatedIsKept'
  BY DEF VariantsInv, Va!CreatedIsKept
<1>5. \A f, R : Explained(f, R, victims) => Explained(f, R, victims')
  BY DEF Explained
<1>6. \A f \in refused' : Explained(f, variants, victims)'
  BY <1>5 DEF VariantsInv, Explained
<1>7. \A s \in Requests : \A f \in requests'[s].failed :
         Explained(f, variants \cup requests[s].rows, victims)'
  <2> SUFFICES ASSUME NEW s \in Requests, NEW f \in requests'[s].failed
               PROVE  Explained(f, variants \cup requests[s].rows, victims)'
    OBVIOUS
  <2>1. CASE s = r
    BY <1>1, <2>1 DEF Explained
  <2>2. CASE s # r
    BY <1>1, <1>5, <2>2 DEF VariantsInv, Explained
  <2>3. QED
    BY <2>1, <2>2
<1>8. QED
  BY <1>1, <1>2, <1>3, <1>4, <1>6, <1>7 DEF VariantsInv

LEMMA CreateVariantKeeps ==
    ASSUME VariantsInv, NEW r \in Requests, NEW c \in Va!Combinations, Va!CreateVariant(r, c)
    PROVE  VariantsInv'
<1> DEFINE old == requests[r]
           new == [combo |-> c, slug |-> Va!FreeSlug(r, c), status |-> "Active"]
           q == [old EXCEPT !.todo = Tail(old.todo), !.known = old.known \cup {SigOf[c]},
                            !.rows = old.rows \cup {new}]
<1>0. old \in VariantRequest
  BY DEF VariantsInv
<1>1. /\ old.todo # <<>> /\ c = Head(old.todo) /\ SigOf[c] \notin old.known
      /\ \A v \in variants \cup old.rows : ~Va!Collides(v, r, c)
      /\ \A s \in Requests \ {r} : \A v \in requests[s].rows : ~Va!Collides(v, r, c)
      /\ UNCHANGED <<variants, made, refused, victims>>
  BY DEF Va!CreateVariant, Va!WaitsFor
<1>2. requests' = [requests EXCEPT ![r] = q]
  BY <1>0 DEF Va!CreateVariant, VariantsInv, VariantRequest
<1>3. new \in Va!Variants /\ new.combo = c
  BY FreeSlugIsFree DEF Va!Variants
<1>4. Tail(old.todo) \in Seq(Va!Combinations)
  BY <1>0, <1>1 DEF VariantRequest
<1> HIDE DEF new
<1>5. q \in VariantRequest
  BY <1>0, <1>3, <1>4 DEF VariantRequest
<1>6. IsFiniteSet(old.seen) /\ IsFiniteSet(old.rows \cup {new})
  BY FS_AddElement DEF VariantsInv
<1>7. \A v : (v \in variants \cup old.rows \/ \E s \in Requests \ {r} : v \in requests[s].rows) =>
               ~Alike(v, new)
  BY <1>1, <1>3 DEF Va!Collides, Va!SameName, Alike
<1>8. \A v \in old.rows \cup {new} :
         /\ \A w \in variants : ~Alike(v, w)
         /\ \A w \in old.rows \cup {new} : Alike(v, w) => v = w
         /\ \A s \in Requests \ {r} : \A w \in requests[s].rows : ~Alike(v, w)
  BY <1>7 DEF VariantsInv, NamesAreKeys, Alike
<1>9. \A f \in old.failed : Explained(f, variants \cup (old.rows \cup {new}), victims)
  BY DEF VariantsInv, Explained
<1>10. q.seen = old.seen /\ q.rows = old.rows \cup {new} /\ q.failed = old.failed
  BY <1>0 DEF VariantRequest
<1> HIDE DEF q
<1>11. \A f \in q.failed : Explained(f, variants \cup q.rows, victims')
  BY <1>1, <1>9, <1>10
<1>12. /\ IsFiniteSet(q.seen) /\ IsFiniteSet(q.rows)
       /\ \A v \in q.rows :
             /\ \A w \in variants : ~Alike(v, w)
             /\ \A w \in q.rows : Alike(v, w) => v = w
             /\ \A s \in Requests \ {r} : \A w \in requests[s].rows : ~Alike(v, w)
  BY <1>6, <1>8, <1>10
<1>13. QED
  BY <1>1, <1>2, <1>5, <1>11, <1>12, RequestMoves

LEMMA FailCombinationKeeps ==
    ASSUME VariantsInv, NEW r \in Requests, NEW c \in Va!Combinations, Va!FailCombination(r, c)
    PROVE  VariantsInv'
<1> DEFINE old == requests[r]
<1>0. old \in VariantRequest
  BY DEF VariantsInv
<1>1. PICK v \in variants \cup old.rows :
        /\ Va!Collides(v, r, c)
        /\ requests' = [requests EXCEPT ![r].todo = Tail(@),
                ![r].failed = @ \cup {<<c, v \notin requests[r].seen \cup requests[r].rows>>}]
  BY DEF Va!FailCombination
<1>2. old.todo # <<>> /\ UNCHANGED <<variants, made, refused, victims>>
  BY DEF Va!FailCombination
<1> DEFINE f == <<c, v \notin old.seen \cup old.rows>>
           q == [old EXCEPT !.todo = Tail(old.todo), !.failed = old.failed \cup {f}]
<1>3. requests' = [requests EXCEPT ![r] = q]
  BY <1>0, <1>1 DEF VariantsInv, VariantRequest
<1>4. f \in Va!Combinations \X BOOLEAN
  OBVIOUS
<1>5. Tail(old.todo) \in Seq(Va!Combinations)
  BY <1>0, <1>2 DEF VariantRequest
\* Where the row was seen it is not the slug that is taken.
<1>6. Explained(f, variants \cup old.rows, victims)
  <2>1. CASE v \notin old.seen \cup old.rows
    BY <2>1 DEF Explained
  <2>2. CASE v \in old.seen \cup old.rows
    <3>1. v.slug # Va!FreeSlug(r, c)
      BY <2>2, FreeSlugIsFree
    <3>2. NameOf[v.combo] = NameOf[f[1]]
      BY <1>1, <3>1 DEF Va!Collides, Va!SameName
    <3>3. QED
      BY <3>2 DEF Explained
  <2>3. QED
    BY <2>1, <2>2
<1> HIDE DEF f
<1>7. q \in VariantRequest
  BY <1>0, <1>4, <1>5 DEF VariantRequest
<1>8. q.seen = old.seen /\ q.rows = old.rows /\ q.failed = old.failed \cup {f}
  BY <1>0 DEF VariantRequest
<1> HIDE DEF q
<1>9. \A g \in q.failed : Explained(g, variants \cup q.rows, victims)
  BY <1>6, <1>8 DEF VariantsInv
<1>10. \A g \in q.failed : Explained(g, variants \cup q.rows, victims')
  BY <1>2, <1>9
<1>11. IsFiniteSet(q.seen) /\ IsFiniteSet(q.rows)
  BY <1>8 DEF VariantsInv
<1>12. \A w \in q.rows :
         /\ \A x \in variants : ~Alike(w, x)
         /\ \A x \in q.rows : Alike(w, x) => w = x
         /\ \A s \in Requests \ {r} : \A x \in requests[s].rows : ~Alike(w, x)
  BY <1>8 DEF VariantsInv, NamesAreKeys
<1>13. QED
  BY <1>2, <1>3, <1>7, <1>10, <1>11, <1>12, RequestMoves

LEMMA StartCreatingKeeps ==
    ASSUME VariantsInv, NEW r \in Requests, NEW m \in Matrices, Va!StartCreating(r, m)
    PROVE  VariantsInv'
<1> DEFINE q == [todo |-> m, known |-> Va!KnownSigs(variants), seen |-> variants, rows |-> {},
                 failed |-> {}, open |-> TRUE]
<1>1. requests' = [requests EXCEPT ![r] = q] /\ UNCHANGED <<variants, made, refused, victims>>
  BY DEF Va!StartCreating
<1>2. Va!KnownSigs(variants) \subseteq {SigOf[c] : c \in Va!Combinations}
  BY DEF Va!KnownSigs, VariantsInv, Va!Variants
<1>3. q \in VariantRequest
  BY <1>2, NamesAssumption DEF VariantRequest, VariantsInv, Va!Combinations
<1>4. q.seen = variants /\ q.rows = {} /\ q.failed = {} /\ IsFiniteSet({})
  BY FS_EmptySet
<1> HIDE DEF q
<1>5. /\ IsFiniteSet(q.seen) /\ IsFiniteSet(q.rows)
      /\ made' \ victims' \subseteq made \ victims /\ victims \subseteq victims'
  BY <1>1, <1>4 DEF VariantsInv
<1>6. QED
  BY <1>1, <1>3, <1>4, <1>5, RequestMoves

\* A combination that is known, and one whose request loses a deadlock.
LEMMA SkippingKeeps ==
    ASSUME VariantsInv, NEW r \in Requests, Va!SkipCombination(r)
    PROVE  VariantsInv'
<1> DEFINE old == requests[r]
           q == [old EXCEPT !.todo = Tail(old.todo)]
<1>0. old \in VariantRequest
  BY DEF VariantsInv
<1>1. /\ old.todo # <<>> /\ requests' = [requests EXCEPT ![r] = q]
      /\ UNCHANGED <<variants, made, refused, victims>>
  BY <1>0 DEF Va!SkipCombination, VariantsInv, VariantRequest
<1>2. Tail(old.todo) \in Seq(Va!Combinations)
  BY <1>0, <1>1 DEF VariantRequest
<1>3. /\ q \in VariantRequest
      /\ q.seen = old.seen /\ q.rows = old.rows /\ q.failed = old.failed
  BY <1>0, <1>2 DEF VariantRequest
<1> HIDE DEF q
<1>4. \A g \in q.failed : Explained(g, variants \cup q.rows, victims')
  BY <1>1, <1>3 DEF VariantsInv
<1>5. IsFiniteSet(q.seen) /\ IsFiniteSet(q.rows)
  BY <1>3 DEF VariantsInv
<1>6. \A w \in q.rows :
         /\ \A x \in variants : ~Alike(w, x)
         /\ \A x \in q.rows : Alike(w, x) => w = x
         /\ \A s \in Requests \ {r} : \A x \in requests[s].rows : ~Alike(w, x)
  BY <1>3 DEF VariantsInv, NamesAreKeys
<1>7. QED
  BY <1>1, <1>3, <1>4, <1>5, <1>6, RequestMoves

LEMMA DeadlockKeeps ==
    ASSUME VariantsInv, NEW r \in Requests, Va!Deadlock(r)
    PROVE  VariantsInv'
<1> DEFINE old == requests[r]
           lost == {v.combo : v \in old.rows}
           q == [old EXCEPT !.todo = Tail(old.todo), !.rows = {}, !.seen = variants]
<1>0. old \in VariantRequest
  BY DEF VariantsInv
<1>1. /\ requests' = [requests EXCEPT ![r] = q] /\ old.todo # <<>>
      /\ victims' = victims \cup lost /\ made' = made \cup lost
      /\ UNCHANGED <<variants, refused>>
  BY <1>0 DEF Va!Deadlock, Va!WaitsFor, VariantsInv, VariantRequest
<1>2. Tail(old.todo) \in Seq(Va!Combinations)
  BY <1>0, <1>1 DEF VariantRequest
<1>3. /\ q \in VariantRequest
      /\ q.seen = variants /\ q.rows = {} /\ q.failed = old.failed
  BY <1>0, <1>2 DEF VariantRequest, VariantsInv
<1> HIDE DEF q
<1>4. \A g \in q.failed : Explained(g, variants \cup q.rows, victims')
  <2> SUFFICES ASSUME NEW g \in old.failed PROVE Explained(g, variants, victims')
    BY <1>3
  <2>1. Explained(g, variants \cup old.rows, victims)
    BY DEF VariantsInv
  <2>2. \A v \in old.rows : v.combo \in victims'
    BY <1>1
  <2>3. QED
    BY <1>1, <2>1, <2>2 DEF Explained
<1>5. IsFiniteSet(q.seen) /\ IsFiniteSet(q.rows)
  BY <1>3, FS_EmptySet DEF VariantsInv
<1>6. made' \ victims' \subseteq made \ victims /\ victims \subseteq victims'
  BY <1>1
<1>7. QED
  BY <1>1, <1>3, <1>4, <1>5, <1>6, RequestMoves

LEMMA FinishCreatingKeeps ==
    ASSUME VariantsInv, NEW r \in Requests, Va!FinishCreating(r)
    PROVE  VariantsInv'
<1> DEFINE old == requests[r]
<1>1. /\ variants' = variants \cup old.rows /\ made' = made \cup {v.combo : v \in old.rows}
      /\ refused' = refused \cup old.failed /\ requests' = [requests EXCEPT ![r] = Va!Idle]
      /\ victims' = victims
  BY DEF Va!FinishCreating
<1>2. /\ Va!Idle \in VariantRequest /\ Va!Idle.rows = {} /\ Va!Idle.seen = {} /\ Va!Idle.failed = {}
  BY DEF Va!Idle, VariantRequest
<1>3. /\ requests' \in [Requests -> VariantRequest] /\ requests'[r] = Va!Idle
      /\ \A s \in Requests \ {r} : requests'[s] = requests[s]
  BY <1>1, <1>2 DEF VariantsInv
<1>4. old.rows \subseteq Va!Variants /\ IsFiniteSet(old.rows)
  BY DEF VariantsInv, VariantRequest
<1>5. variants' \subseteq Va!Variants /\ IsFiniteSet(variants')
  BY <1>1, <1>4, FS_Union DEF VariantsInv
<1>6. \A s \in Requests : IsFiniteSet(requests'[s].seen) /\ IsFiniteSet(requests'[s].rows)
  BY <1>2, <1>3, FS_EmptySet DEF VariantsInv
<1>7. NamesAreKeys'
  <2>1. \A v, w \in variants' : Alike(v, w)' => v = w
    BY <1>1 DEF VariantsInv, NamesAreKeys, Alike
  <2>2. \A s \in Requests : \A v \in requests'[s].rows : s # r /\ v \in requests[s].rows
    BY <1>2, <1>3
  <2>3. \A s \in Requests : \A v \in requests'[s].rows :
          /\ \A w \in variants' : ~Alike(v, w)
          /\ \A w \in requests'[s].rows : Alike(v, w) => v = w
          /\ \A t \in Requests \ {s} : \A w \in requests'[t].rows : ~Alike(v, w)
    BY <1>1, <2>2 DEF VariantsInv, NamesAreKeys, Alike
  <2>4. QED
    BY <2>1, <2>3 DEF NamesAreKeys, Alike
<1>8. Va!CreatedIsKept'
  BY <1>1 DEF VariantsInv, Va!CreatedIsKept
<1>9. \A f \in refused' : Explained(f, variants, victims)'
  BY <1>1 DEF VariantsInv, Explained
<1>10. \A s \in Requests : \A f \in requests'[s].failed :
          Explained(f, variants \cup requests[s].rows, victims)'
  <2> SUFFICES ASSUME NEW s \in Requests, NEW f \in requests'[s].failed
               PROVE  Explained(f, variants \cup requests[s].rows, victims)'
    OBVIOUS
  <2>1. s # r /\ requests'[s] = requests[s]
    BY <1>2, <1>3
  <2>2. Explained(f, variants \cup requests[s].rows, victims)
    BY <2>1 DEF VariantsInv
  <2>3. QED
    BY <1>1, <2>1, <2>2 DEF Explained
<1>11. QED
  BY <1>3, <1>5, <1>6, <1>7, <1>8, <1>9, <1>10 DEF VariantsInv

LEMMA DeleteVariantKeeps ==
    ASSUME VariantsInv, NEW d \in variants, Va!DeleteVariant(d)
    PROVE  VariantsInv'
<1> DEFINE gone == [d EXCEPT !.status = "Inactive"]
<1>1. /\ variants' = (variants \ {d}) \cup {gone}
      /\ UNCHANGED <<requests, made, refused, victims>>
  BY DEF Va!DeleteVariant, Va!Removed
<1>2. d \in Va!Variants
  BY DEF VariantsInv
<1>3. gone \in Va!Variants /\ gone.combo = d.combo
  BY <1>2 DEF Va!Variants
<1> HIDE DEF gone
<1>4. variants' \subseteq Va!Variants /\ IsFiniteSet(variants')
  <2>1. IsFiniteSet(variants \ {d})
    BY FS_RemoveElement DEF VariantsInv
  <2>2. IsFiniteSet((variants \ {d}) \cup {gone})
    BY <2>1, FS_AddElement
  <2>3. QED
    BY <1>1, <1>3, <2>2 DEF VariantsInv
<1>5. /\ \A v \in variants' : \E w \in variants : v.combo = w.combo
      /\ \A w \in variants : \E v \in variants' : v.combo = w.combo
  BY <1>1, <1>3
<1>6. NamesAreKeys'
  <2>1. \A v, w \in variants' : Alike(v, w) => v = w
    BY <1>1, <1>3 DEF VariantsInv, NamesAreKeys, Alike
  <2>2. \A r \in Requests : \A v \in requests[r].rows : \A w \in variants' : ~Alike(v, w)
    BY <1>5 DEF VariantsInv, NamesAreKeys, Alike
  <2>3. QED
    BY <1>1, <2>1, <2>2 DEF VariantsInv, NamesAreKeys, Alike
<1>7. Va!CreatedIsKept'
  BY <1>1, <1>5 DEF VariantsInv, Va!CreatedIsKept
<1>8. \A f \in refused' : Explained(f, variants, victims)'
  BY <1>1, <1>5 DEF VariantsInv, Explained
<1>9. \A s \in Requests : \A f \in requests'[s].failed :
         Explained(f, variants \cup requests[s].rows, victims)'
  <2> SUFFICES ASSUME NEW s \in Requests, NEW f \in requests[s].failed
               PROVE  Explained(f, variants' \cup requests[s].rows, victims)
    BY <1>1 DEF Explained
  <2>1. Explained(f, variants \cup requests[s].rows, victims)
    BY DEF VariantsInv
  <2>2. QED
    BY <1>5, <2>1 DEF Explained
<1>10. QED
  BY <1>1, <1>4, <1>6, <1>7, <1>8, <1>9 DEF VariantsInv

LEMMA VariantsStep == VariantsInv /\ [Next]_vars => VariantsInv'
<1> SUFFICES ASSUME VariantsInv,
                    [Va!Next]_<<parent, variants, requests, starts, made, refused, victims>>
             PROVE  VariantsInv'
  BY VariantsMove
<1>1. CASE UNCHANGED <<variants, requests, made, refused, victims>>
  BY <1>1 DEF VariantsInv, NamesAreKeys, Alike, Explained, Va!CreatedIsKept
<1>2. QED
  BY <1>1, CreateVariantKeeps, FailCombinationKeeps, StartCreatingKeeps, SkippingKeeps,
     DeadlockKeeps, FinishCreatingKeeps, DeleteVariantKeeps
     DEF Va!Next, Va!CreateTemplate, Va!UpdateTemplate

\* create_variants reads what there is once, counts slugs up in its own snapshot and
\* inserts row after row: however such requests overlap, wait for each other and are
\* rolled back, a combination is made once, what is reported as created stays, and
\* a refusal has a reason (api/admin_products.py).
THEOREM MatrixIsAlwaysReported == Spec => []MatrixIsReported
<1>1. VariantsInv => MatrixIsReported
  <2> SUFFICES ASSUME VariantsInv PROVE Va!MatrixIsReported
    BY DEF MatrixIsReported
  <2>1. Va!OneVariantPerCombination
    BY NamesAssumption DEF VariantsInv, NamesAreKeys, Alike, Va!Variants, Va!Combinations,
       Va!OneVariantPerCombination
  <2>2. Va!FailedIsTaken
    BY DEF VariantsInv, Explained, Va!FailedIsTaken, Va!SameName
  <2>3. QED
    BY <2>1, <2>2 DEF VariantsInv, Va!MatrixIsReported
<1>2. QED
  BY <1>1, VariantsStart, VariantsStep, PTL DEF Spec
-----------------------------------------------------------------------------
(* VendorChoice.                                                           *)

ChoiceInv == part = "choice" => shop \in Vc!Shops /\ (ask = NoAsk \/ ask \in Vc!Asks)

LEMMA ChoiceStart == Init => ChoiceInv
BY DEF Init, Vc!Init, ChoiceInv

LEMMA ChoiceStep == ChoiceInv /\ [Next]_vars => ChoiceInv'
<1>1. [Next]_vars => part' = part /\ [part = "choice" /\ Vc!Next]_<<shop, ask>>
  BY DEF Next, vars, Shows, Pays, Asks, StillShown, StillChoice
<1>2. Vc!Next => shop' = shop /\ ask' \in Vc!Asks
  BY DEF Vc!Next, Vc!Ask
<1>3. Vc!Shops' = Vc!Shops /\ Vc!Asks' = Vc!Asks
  BY DEF Vc!Shops, Vc!Asks, Vc!Vendors, Vc!ZoneNames, Vc!StockRows
<1>4. QED
  BY <1>1, <1>2, <1>3 DEF ChoiceInv

LEMMA LeastByIsLeast ==
    ASSUME NEW S \in SUBSET Listings, S # {}, NEW key, \A l \in S : key[l] \in Nat
    PROVE  /\ Vc!LeastBy(S, key) \in S
           /\ \A m \in S : key[Vc!LeastBy(S, key)] <= key[m]
<1> DEFINE K == {key[l] : l \in S}
           T == {l \in S : \A m \in S : key[l] <= key[m]}
<1>1. K \in SUBSET Nat /\ K # {}
  OBVIOUS
<1>2. \E x \in K : \A y \in K : x <= y
  <2> HIDE DEF K
  <2>1. QED
    BY <1>1, LeastExists
<1>3. T # {}
  BY <1>2
<1>4. T \in SUBSET Nat
  BY ListingsAssumption
<1>5. \A l \in T : l \in S /\ \A m \in S : key[l] <= key[m]
  OBVIOUS
<1>6. Vc!LeastBy(S, key) = Vc!Min(T)
  BY DEF Vc!LeastBy
<1> HIDE DEF T
<1>7. Vc!Min(T) \in T
  BY <1>3, <1>4, LeastExists DEF Vc!Min
<1>8. QED
  BY <1>5, <1>6, <1>7

LEMMA MinIsLeast ==
    ASSUME NEW S \in SUBSET Listings, S # {}
    PROVE  Vc!Min(S) \in S /\ \A m \in S : Vc!Min(S) <= m
<1>1. S \in SUBSET Nat
  BY ListingsAssumption
<1>2. QED
  BY <1>1, LeastExists DEF Vc!Min

\* What a shop's listings are like.
LEMMA ShopFacts ==
    ASSUME shop \in Vc!Shops
    PROVE  /\ shop.active \subseteq Listings
           /\ \A l \in Listings : shop.zone[l] \in Vc!ZoneNames /\ shop.zone[l] \in Zones[l]
           /\ \A q, l : l \in Listings /\ Vc!Located(q, l) => Vc!Away(l) \in Nat
           /\ \A p : Vc!Active(p) \subseteq Listings
<1>1. /\ shop.active \in ActiveSets /\ shop.away \in [Vc!Vendors -> Distances]
      /\ shop.zone \in [Listings -> Vc!ZoneNames] /\ \A l \in Listings : shop.zone[l] \in Zones[l]
  BY DEF Vc!Shops
<1>2. \A l \in Listings : VendorOf[l] \in Vc!Vendors
  BY DEF Vc!Vendors
<1>3. QED
  BY <1>1, <1>2, ListingsAssumption DEF Vc!Located, Vc!Away, Vc!Active

\* The nearest of listings that have a place.
LEMMA NearestIsNear ==
    ASSUME shop \in Vc!Shops, NEW q, NEW S \in SUBSET Listings, S # {},
           \A l \in S : Vc!Located(q, l)
    PROVE  Vc!Nearest(S) \in S /\ \A m \in S : Vc!Away(Vc!Nearest(S)) <= Vc!Away(m)
<1> DEFINE key == [l \in S |-> Vc!Away(l)]
<1>1. \A l \in S : key[l] = Vc!Away(l) /\ key[l] \in Nat
  BY ShopFacts
<1>2. Vc!Nearest(S) = Vc!LeastBy(S, key)
  BY DEF Vc!Nearest
<1> HIDE DEF key
<1>3. Vc!LeastBy(S, key) \in S /\ \A m \in S : key[Vc!LeastBy(S, key)] <= key[m]
  BY <1>1, LeastByIsLeast
<1>4. QED
  BY <1>1, <1>2, <1>3

LEMMA PlacesAreOf ==
    ASSUME NEW q, NEW S
    PROVE  Vc!ByPlace(q, S) \subseteq {l \in S : Vc!Located(q, l)}
BY DEF Vc!ByPlace, Vc!Prefer, Vc!Stocked

\* One of the listings is resolved, where there is any.
LEMMA BestIsOf ==
    ASSUME shop \in Vc!Shops, NEW q, NEW S \in SUBSET Listings
    PROVE  /\ S = {} => Vc!BestOf(q, S) = NoListing
           /\ S # {} => Vc!BestOf(q, S) \in S
<1>1. CASE S = {}
  <2>1. Vc!OfVendor(q, S) = {} /\ Vc!OfZone(q, S) = {}
    BY <1>1 DEF Vc!OfVendor, Vc!OfZone, Vc!Prefer, Vc!Stocked
  <2>2. QED
    BY <1>1, <2>1 DEF Vc!BestOf
<1>2. CASE S # {} /\ q.vendor # Anyone /\ Vc!OfVendor(q, S) # {}
  <2>1. Vc!OfVendor(q, S) \subseteq S
    BY DEF Vc!OfVendor, Vc!Prefer
  <2>2. Vc!BestOf(q, S) = Vc!Min(Vc!OfVendor(q, S))
    BY <1>2 DEF Vc!BestOf
  <2>3. QED
    BY <1>2, <2>1, <2>2, MinIsLeast
<1>3. CASE S # {} /\ (q.vendor = Anyone \/ Vc!OfVendor(q, S) = {}) /\ Vc!OfZone(q, S) # {}
  <2>1. Vc!OfZone(q, S) \subseteq S
    BY DEF Vc!OfZone, Vc!Prefer, Vc!Stocked
  <2>2. Vc!BestOf(q, S) = Vc!Min(Vc!OfZone(q, S))
    BY <1>3 DEF Vc!BestOf
  <2>3. QED
    BY <1>3, <2>1, <2>2, MinIsLeast
<1>4. CASE S # {} /\ (q.vendor = Anyone \/ Vc!OfVendor(q, S) = {}) /\ Vc!OfZone(q, S) = {}
  <2>1. Vc!BestOf(q, S) = IF Vc!ByPlace(q, S) # {} THEN Vc!Nearest(Vc!ByPlace(q, S))
                          ELSE Vc!ByMode(S)
    BY <1>4 DEF Vc!BestOf
  <2>2. Vc!ByPlace(q, S) # {} => Vc!Nearest(Vc!ByPlace(q, S)) \in S
    BY PlacesAreOf, NearestIsNear
  <2>3. Vc!ByMode(S) \in S
    <3>1. Vc!LeastBy(S, PriceOf) \in S /\ Vc!LeastBy(S, MinutesOf) \in S
      BY <1>4, LeastByIsLeast, ListingsAssumption
    <3>2. Vc!Min(S) \in S
      BY <1>4, MinIsLeast
    <3>3. QED
      BY <3>1, <3>2 DEF Vc!ByMode
  <2>4. QED
    BY <1>4, <2>1, <2>2, <2>3
<1>5. QED
  BY <1>1, <1>2, <1>3, <1>4

\* Without a vendor or a zone, a customer with a place gets a listing that has stock
\* where one has, and within its vendor's radius where one is.
LEMMA BestByPlace ==
    ASSUME shop \in Vc!Shops, NEW q, NEW S \in SUBSET Listings, q.vendor = Anyone, q.zone = Anyone,
           NEW l \in S, Vc!Located(q, l), Vc!InStock(l)
    PROVE  /\ Vc!BestOf(q, S) \in S /\ Vc!InStock(Vc!BestOf(q, S))
           /\ Vc!Within(l) =>
                 /\ Vc!Located(q, Vc!BestOf(q, S)) /\ Vc!Within(Vc!BestOf(q, S))
                 /\ Vc!Away(Vc!BestOf(q, S)) <= Vc!Away(l)
<1> DEFINE placed == {m \in S : Vc!Located(q, m)}
           inside == {m \in placed : Vc!Within(m)}
           best == Vc!BestOf(q, S)
<1>1. Vc!OfZone(q, S) = {}
  <2>1. \A m \in S : shop.zone[m] # Anyone
    <3>1. \A m \in S : shop.zone[m] \in Vc!ZoneNames
      BY ShopFacts
    <3>2. \A z \in Vc!ZoneNames : z # Anyone
      BY ListingsAssumption DEF Vc!ZoneNames
    <3>3. QED
      BY <3>1, <3>2
  <2>2. QED
    BY <2>1 DEF Vc!OfZone, Vc!Prefer, Vc!Stocked
<1>2. l \in Vc!Stocked(placed) /\ (Vc!Within(l) => l \in Vc!Stocked(inside))
  BY DEF Vc!Stocked
<1>3. Vc!ByPlace(q, S) = IF Vc!Stocked(inside) # {} THEN Vc!Stocked(inside) ELSE Vc!Stocked(placed)
  BY <1>2 DEF Vc!ByPlace, Vc!Prefer
<1>4. Vc!ByPlace(q, S) # {}
  BY <1>2, <1>3
<1>5. best = Vc!Nearest(Vc!ByPlace(q, S))
  BY <1>1, <1>4 DEF Vc!BestOf
<1>6. /\ best \in Vc!ByPlace(q, S)
      /\ \A m \in Vc!ByPlace(q, S) : Vc!Away(best) <= Vc!Away(m)
  BY <1>4, <1>5, PlacesAreOf, NearestIsNear
<1>7. QED
  BY <1>2, <1>3, <1>6 DEF Vc!Stocked

LEMMA ListedIsServedHere == ASSUME shop \in Vc!Shops PROVE Vc!ListedIsServed
<1> SUFFICES ASSUME NEW p \in Vc!Variants, Vc!Listed(ask, Vc!Best(ask, p))
             PROVE  /\ ~Vc!PageOutside(ask, p)
                    /\ ask.located => VendorOf[Vc!Best(ask, p)] \in Vc!NearbyVendors(ask, p)
                    /\ Vc!Found(ask, p)
  BY DEF Vc!ListedIsServed
<1> DEFINE best == Vc!Best(ask, p)
<1>1. best # NoListing /\ ~Vc!Outside(ask, best)
  BY DEF Vc!Listed
<1>2. best \in Vc!Active(p)
  <2>1. Vc!Active(p) \in SUBSET Listings
    BY ShopFacts
  <2>2. QED
    BY <1>1, <2>1, BestIsOf DEF Vc!Best
<1>3. ~Vc!PageOutside(ask, p)
  BY <1>1 DEF Vc!PageOutside, Vc!Outside
<1>4. ask.located => Vc!Located(ask, best) /\ Vc!Within(best)
  BY <1>1 DEF Vc!Outside
<1> HIDE DEF best
<1>5. ask.located => VendorOf[best] \in Vc!NearbyVendors(ask, p)
  BY <1>2, <1>4 DEF Vc!NearbyVendors
<1>6. QED
  BY <1>3, <1>5 DEF Vc!Found, best

LEMMA DeliverableIsListedHere ==
    ASSUME shop \in Vc!Shops, ask = NoAsk \/ ask \in Vc!Asks
    PROVE  Vc!DeliverableIsListed
<1> SUFFICES ASSUME ask \in Vc!Asks, ask.vendor = Anyone, ask.zone = Anyone, ask.located,
                    NEW p \in Vc!Variants, NEW l \in Vc!Active(p), Vc!Located(ask, l),
                    Vc!InStock(l), Vc!Within(l), Vc!Away(l) <= ask.limit
             PROVE  /\ Vc!Listed(ask, Vc!Best(ask, p)) /\ Vc!InStock(Vc!Best(ask, p))
                    /\ Vc!OnHome(ask, p)
  BY DEF Vc!DeliverableIsListed, Vc!Asked
<1> DEFINE best == Vc!Best(ask, p)
<1>1. Vc!Active(p) \in SUBSET Listings
  BY ShopFacts
<1>2. /\ best \in Vc!Active(p) /\ Vc!InStock(best) /\ Vc!Located(ask, best) /\ Vc!Within(best)
      /\ Vc!Away(best) <= Vc!Away(l)
  BY <1>1, BestByPlace DEF Vc!Best
<1>3. Vc!Away(best) \in Nat /\ Vc!Away(l) \in Nat /\ ask.limit \in Nat
  <2>1. ask.limit \in Nat
    BY ListingsAssumption DEF Vc!Asks
  <2>2. QED
    BY <1>1, <1>2, <2>1, ShopFacts
<1>4. Vc!Away(best) <= ask.limit
  BY <1>2, <1>3
<1>5. best # NoListing
  BY <1>1, <1>2, ListingsAssumption
<1>6. [ask EXCEPT !.vendor = Anyone, !.zone = Anyone] = ask
  BY DEF Vc!Asks
<1> HIDE DEF best
<1>7. Vc!Listed(ask, best)
  BY <1>2, <1>3, <1>4, <1>5 DEF Vc!Listed, Vc!Outside
<1>8. Vc!OnHome(ask, p)
  BY <1>2, <1>4, <1>5, <1>6 DEF Vc!OnHome, best
<1>9. QED
  BY <1>2, <1>7, <1>8 DEF best

LEMMA TemplateIsAVariantHere == ASSUME shop \in Vc!Shops PROVE Vc!TemplateIsAVariant
<1> DEFINE card == Vc!TemplateBest(ask)
           found == {Vc!Best(ask, p) : p \in Vc!Variants} \ {NoListing}
<1> SUFFICES ASSUME card # NoListing
             PROVE  \E p \in Vc!Variants :
                       /\ card = Vc!Best(ask, p)
                       /\ Vc!Listed(ask, card) => ~Vc!PageOutside(ask, p)
  BY DEF Vc!TemplateIsAVariant
<1>1. \A p \in Vc!Variants : Vc!Best(ask, p) = NoListing \/ Vc!Best(ask, p) \in Listings
  <2> SUFFICES ASSUME NEW p \in Vc!Variants
               PROVE  Vc!Best(ask, p) = NoListing \/ Vc!Best(ask, p) \in Listings
    OBVIOUS
  <2>1. Vc!Active(p) \in SUBSET Listings
    BY ShopFacts
  <2>2. QED
    BY <2>1, BestIsOf DEF Vc!Best
<1>2. found \in SUBSET Listings
  BY <1>1
<1>3. found # {} /\ card = Vc!LeastBy(Vc!Prefer(Vc!Stocked(found), found), PriceOf)
  BY DEF Vc!TemplateBest
<1>4. card \in found
  <2> HIDE DEF found, card
  <2>1. /\ Vc!Prefer(Vc!Stocked(found), found) \in SUBSET found
        /\ Vc!Prefer(Vc!Stocked(found), found) # {}
    BY <1>3 DEF Vc!Prefer, Vc!Stocked
  <2>2. Vc!LeastBy(Vc!Prefer(Vc!Stocked(found), found), PriceOf)
          \in Vc!Prefer(Vc!Stocked(found), found)
    BY <1>2, <2>1, LeastByIsLeast, ListingsAssumption
  <2>3. QED
    BY <1>3, <2>1, <2>2
<1>5. PICK p \in Vc!Variants : card = Vc!Best(ask, p)
  BY <1>4
<1>6. Vc!Listed(ask, card) => ~Vc!PageOutside(ask, p)
  BY <1>5 DEF Vc!Listed, Vc!PageOutside, Vc!Outside
<1>7. QED
  BY <1>5, <1>6

LEMMA ShownCanBeBoughtHere == ASSUME shop \in Vc!Shops, ask \in Vc!Asks PROVE Vc!ShownCanBeBought
<1> SUFFICES ASSUME NEW p \in Vc!Variants
             PROVE  LET picked == Vc!SelectBest(ask, p) IN
                    /\ Vc!Listed(ask, Vc!Best(ask, p)) =>
                          \/ picked # NoListing
                          \/ ~ask.located /\ \A l \in Vc!Active(p) : VendorOf[l] \in Vc!Untracked
                    /\ (ask.located /\ ask.zone = Anyone /\ picked # NoListing
                        /\ \E l \in Vc!Active(p) : Vc!Located(ask, l) /\ Vc!InStock(l))
                          => Vc!InStock(picked)
  BY DEF Vc!ShownCanBeBought
<1> DEFINE picked == Vc!SelectBest(ask, p)
           S == Vc!Active(p)
           q == [ask EXCEPT !.vendor = Anyone]
           tracked == {l \in S : VendorOf[l] \notin Vc!Untracked}
           pool == Vc!Prefer({l \in tracked : shop.zone[l] = ask.zone}, tracked)
<1>1. S \in SUBSET Listings
  BY ShopFacts
<1>2. q.vendor = Anyone /\ q.zone = ask.zone /\ q.located = ask.located
  BY DEF Vc!Asks
<1>3. picked = IF ask.located /\ Vc!Best(q, p) # NoListing THEN Vc!Best(q, p)
               ELSE IF tracked = {} THEN NoListing ELSE Vc!Min(Vc!Prefer(Vc!Stocked(pool), pool))
  BY DEF Vc!SelectBest
<1>4. tracked # {} => Vc!Min(Vc!Prefer(Vc!Stocked(pool), pool)) \in Listings
  <2> SUFFICES ASSUME tracked # {}
               PROVE  Vc!Min(Vc!Prefer(Vc!Stocked(pool), pool)) \in Listings
    OBVIOUS
  <2>1. pool \subseteq S /\ pool # {}
    BY DEF Vc!Prefer
  <2> HIDE DEF pool
  <2>2. /\ Vc!Prefer(Vc!Stocked(pool), pool) \in SUBSET Listings
        /\ Vc!Prefer(Vc!Stocked(pool), pool) # {}
    BY <1>1, <2>1 DEF Vc!Prefer, Vc!Stocked
  <2>3. QED
    BY <2>2, MinIsLeast
<1>5. /\ S = {} => Vc!Best(ask, p) = NoListing /\ Vc!Best(q, p) = NoListing
      /\ S # {} => Vc!Best(ask, p) \in S /\ Vc!Best(q, p) \in S
  BY <1>1, BestIsOf DEF Vc!Best
<1> HIDE DEF q, pool
<1>6. Vc!Listed(ask, Vc!Best(ask, p)) =>
         picked # NoListing \/ (~ask.located /\ \A l \in S : VendorOf[l] \in Vc!Untracked)
  <2> SUFFICES ASSUME Vc!Best(ask, p) # NoListing, picked = NoListing
               PROVE  ~ask.located /\ \A l \in S : VendorOf[l] \in Vc!Untracked
    BY DEF Vc!Listed
  <2>1. Vc!Best(q, p) \in S /\ Vc!Best(q, p) # NoListing
    BY <1>1, <1>5, ListingsAssumption
  <2>2. ~ask.located
    BY <1>3, <2>1
  <2>3. tracked = {}
    BY <1>3, <1>4, <2>2, ListingsAssumption
  <2>4. QED
    BY <2>2, <2>3
<1>7. ASSUME ask.located, ask.zone = Anyone, NEW l \in S, Vc!Located(ask, l), Vc!InStock(l)
      PROVE  Vc!InStock(picked)
  <2>1. Vc!Located(q, l)
    BY <1>2, <1>7 DEF Vc!Located
  <2>2. Vc!Best(q, p) \in S /\ Vc!InStock(Vc!Best(q, p))
    BY <1>1, <1>2, <1>7, <2>1, BestByPlace DEF Vc!Best
  <2>3. picked = Vc!Best(q, p)
    BY <1>1, <1>3, <1>7, <2>2, ListingsAssumption
  <2>4. QED
    BY <2>2, <2>3
<1>8. QED
  BY <1>6, <1>7

\* No zone comes before "".
LEMMA RanksOfZones ==
    ASSUME shop \in Vc!Shops, NEW l \in Listings
    PROVE  /\ Vc!ZoneRank(l) \in Nat /\ Vc!ZoneRank(l) >= 1
           /\ shop.zone[l] = "" => Vc!ZoneRank(l) = 1
           /\ shop.zone[l] # "" => Vc!ZoneRank(l) # 1
<1>1. \E i \in DOMAIN ZoneOrder : ZoneOrder[i] = shop.zone[l]
  BY ShopFacts DEF Vc!ZoneNames
<1>2. Vc!ZoneRank(l) \in DOMAIN ZoneOrder /\ ZoneOrder[Vc!ZoneRank(l)] = shop.zone[l]
  BY <1>1 DEF Vc!ZoneRank
<1>3. Vc!ZoneRank(l) \in Nat /\ Vc!ZoneRank(l) # 0
  BY <1>2, ListingsAssumption
<1>4. shop.zone[l] = "" => Vc!ZoneRank(l) = 1
  BY <1>2, ListingsAssumption
<1>5. shop.zone[l] # "" => Vc!ZoneRank(l) # 1
  BY <1>2, ListingsAssumption
<1>6. \A n \in Nat : n # 0 => n >= 1
  OBVIOUS
<1>7. Vc!ZoneRank(l) >= 1
  BY <1>3, <1>6, Zenon
<1>8. QED
  BY <1>3, <1>4, <1>5, <1>7, Zenon

LEMMA AboveOne == \A n \in Nat : n >= 1 /\ n # 1 => ~ (n <= 1)
OBVIOUS

\* What lies in a cart costs the least of the listings without a zone, if there are any.
LEMMA UnzonedFirst ==
    ASSUME shop \in Vc!Shops, NEW S \in SUBSET Listings,
           NEW base, base = {l \in S : shop.zone[l] = ""}, base # {}
    PROVE  Vc!ByZone(S) = Vc!LeastBy(base, PriceOf)
<1>1. \A l \in S : /\ Vc!ZoneRank(l) \in Nat /\ Vc!ZoneRank(l) >= 1
                   /\ shop.zone[l] = "" => Vc!ZoneRank(l) = 1
                   /\ shop.zone[l] # "" => Vc!ZoneRank(l) # 1
  BY RanksOfZones
<1>2. {l \in S : \A m \in S : Vc!ZoneRank(l) <= Vc!ZoneRank(m)} = base
  <2>1. PICK k \in S : Vc!ZoneRank(k) = 1
    BY <1>1
  <2>2. \A l \in S : (\A m \in S : Vc!ZoneRank(l) <= Vc!ZoneRank(m)) <=> Vc!ZoneRank(l) = 1
    <3> SUFFICES ASSUME NEW l \in S
                 PROVE  (\A m \in S : Vc!ZoneRank(l) <= Vc!ZoneRank(m)) <=> Vc!ZoneRank(l) = 1
      OBVIOUS
    <3>1. CASE Vc!ZoneRank(l) = 1
      BY <1>1, <3>1
    <3>2. CASE Vc!ZoneRank(l) # 1
      <4>1. ~ (Vc!ZoneRank(l) <= Vc!ZoneRank(k))
        <5>1. \A n \in Nat : n >= 1 /\ n # 1 => ~ (n <= 1)
          BY AboveOne
        <5>2. ~ (Vc!ZoneRank(l) <= 1)
          BY <1>1, <3>2, <5>1, Zenon
        <5>3. QED
          BY <2>1, <5>2, Zenon
      <4>2. QED
        BY <3>2, <4>1
    <3>3. QED
      BY <3>1, <3>2
  <2>3. \A l \in S : Vc!ZoneRank(l) = 1 <=> shop.zone[l] = ""
    BY <1>1
  <2>4. QED
    BY <2>2, <2>3
<1>3. QED
  BY <1>2 DEF Vc!ByZone

LEMMA OnePricePerVendorHere ==
    ASSUME shop \in Vc!Shops, ask \in Vc!Asks
    PROVE  Vc!OnePricePerVendor
<1> SUFFICES ASSUME ask.vendor # Anyone, NEW p \in Vc!Variants, Vc!OfSeller(ask.vendor, p) # {}
             PROVE  /\ Vc!EffectivePrice(ask.vendor, p) = Vc!CartPrice(ask.vendor, p)
                    /\ (ask.zone = Anyone
                        /\ \E l \in Vc!OfSeller(ask.vendor, p) : shop.zone[l] = "") =>
                           PriceOf[Vc!Best(ask, p)] = Vc!CartPrice(ask.vendor, p)
  BY DEF Vc!OnePricePerVendor
<1> DEFINE mine == Vc!OfSeller(ask.vendor, p)
           base == {l \in mine : shop.zone[l] = ""}
           least == Vc!LeastBy(base, PriceOf)
<1>1. mine \in SUBSET Listings /\ base \in SUBSET Listings
  BY ShopFacts DEF Vc!OfSeller
<1>2. Vc!EffectivePrice(ask.vendor, p) = PriceOf[Vc!ByZone(Vc!Prefer(base, mine))]
      /\ Vc!CartPrice(ask.vendor, p) = PriceOf[Vc!ByZone(mine)]
  BY DEF Vc!EffectivePrice, Vc!CartPrice
<1>3. base = {} => Vc!Prefer(base, mine) = mine
  BY DEF Vc!Prefer
<1>4. base # {} => Vc!Prefer(base, mine) = base
  BY DEF Vc!Prefer
<1>5. base # {} => Vc!ByZone(mine) = least /\ Vc!ByZone(base) = least
  <2> SUFFICES ASSUME base # {} PROVE Vc!ByZone(mine) = least /\ Vc!ByZone(base) = least
    OBVIOUS
  <2>1. base = {l \in base : shop.zone[l] = ""}
    OBVIOUS
  <2>2. Vc!ByZone(mine) = least
    BY <1>1, UnzonedFirst
  <2> HIDE DEF base
  <2>3. Vc!ByZone(base) = Vc!LeastBy(base, PriceOf)
    BY <1>1, <2>1, UnzonedFirst
  <2>4. QED
    BY <2>2, <2>3
<1>6. Vc!EffectivePrice(ask.vendor, p) = Vc!CartPrice(ask.vendor, p)
  BY <1>2, <1>3, <1>4, <1>5
<1>7. ASSUME ask.zone = Anyone, base # {}
      PROVE  PriceOf[Vc!Best(ask, p)] = Vc!CartPrice(ask.vendor, p)
  <2>1. Vc!OfVendor(ask, Vc!Active(p)) = base
    <3>1. \A l \in mine : ask.zone # shop.zone[l]
      <4>1. \A z \in Vc!ZoneNames : z # Anyone
        BY ListingsAssumption DEF Vc!ZoneNames
      <4>2. QED
        BY <1>1, <1>7, <4>1, ShopFacts
    <3>2. mine = {l \in Vc!Active(p) : VendorOf[l] = ask.vendor}
      BY DEF Vc!OfSeller
    <3>3. QED
      BY <1>7, <3>1, <3>2 DEF Vc!OfVendor, Vc!Prefer
  <2>2. Vc!Active(p) # {}
    BY <1>7 DEF Vc!OfSeller
  <2>3. Vc!Best(ask, p) = Vc!Min(base)
    <3> HIDE DEF base
    <3>1. QED
      BY <1>7, <2>1, <2>2 DEF Vc!Best, Vc!BestOf
  <2>4. /\ \A l, m \in base : VendorOf[l] = VendorOf[m] /\ ProductOf[l] = ProductOf[m]
        /\ \A l \in base : "" \in Zones[l]
    BY <1>1, ShopFacts DEF Vc!OfSeller, Vc!Active
  <2> HIDE DEF base
  <2>5. Vc!Min(base) \in base /\ \A m \in base : Vc!Min(base) <= m
    BY <1>1, <1>7, MinIsLeast
  <2>6. least \in base /\ \A m \in base : PriceOf[least] <= PriceOf[m]
    BY <1>1, <1>7, LeastByIsLeast, ListingsAssumption
  <2>7. PriceOf[Vc!Min(base)] <= PriceOf[least]
    <3>1. CASE Vc!Min(base) = least
      <4>1. PriceOf[least] \in Nat
        BY <1>1, <2>6, ListingsAssumption
      <4>2. QED
        BY <3>1, <4>1
    <3>2. CASE Vc!Min(base) # least
      <4>1. Vc!Min(base) \in Nat /\ least \in Nat /\ Vc!Min(base) <= least
        BY <1>1, <2>5, <2>6, ListingsAssumption
      <4>2. Vc!Min(base) < least
        BY <3>2, <4>1
      <4>3. Vc!Min(base) \in Listings /\ least \in Listings
        BY <1>1, <2>5, <2>6
      <4>4. QED
        BY <2>4, <2>5, <2>6, <4>2, <4>3, ListingsAssumption
    <3>3. QED
      BY <3>1, <3>2
  <2>8. PriceOf[Vc!Min(base)] = PriceOf[least]
    <3>1. PriceOf[Vc!Min(base)] \in Nat /\ PriceOf[least] \in Nat
      BY <1>1, <2>5, <2>6, ListingsAssumption
    <3>2. PriceOf[least] <= PriceOf[Vc!Min(base)]
      BY <2>5, <2>6
    <3>3. QED
      BY <2>7, <3>1, <3>2
  <2>9. QED
    BY <1>2, <1>5, <1>7, <2>3, <2>8
<1>8. QED
  BY <1>6, <1>7

\* Five endpoints resolve a vendor for the same customer with code of their own, and
\* they agree: what is listed is served, what can be delivered is listed, a template
\* shows one of its variants, a vendor has one price, and what is shown can be put in
\* a cart (api/products.py, api/home.py, api/location.py).
THEOREM SurfacesAlwaysAgree == Spec => []SurfacesAgree
<1>1. ChoiceInv => SurfacesAgree
  <2> SUFFICES ASSUME shop \in Vc!Shops, ask = NoAsk \/ ask \in Vc!Asks PROVE Vc!SurfacesAgree
    BY DEF ChoiceInv, SurfacesAgree
  <2>1. CASE ask = NoAsk
    BY <2>1 DEF Vc!SurfacesAgree, Vc!ListedIsServed, Vc!DeliverableIsListed, Vc!TemplateIsAVariant,
       Vc!OnePricePerVendor, Vc!ShownCanBeBought, Vc!Asked
  <2>2. CASE ask \in Vc!Asks
    BY <2>2, ListedIsServedHere, DeliverableIsListedHere, TemplateIsAVariantHere,
       OnePricePerVendorHere, ShownCanBeBoughtHere DEF Vc!SurfacesAgree
  <2>3. QED
    BY <2>1, <2>2
<1>2. QED
  BY <1>1, ChoiceStart, ChoiceStep, PTL DEF Spec

-----------------------------------------------------------------------------
(* Loyalty.                                                                *)

LEMMA LoyaltyMoves == [Next]_vars => [Lo!Next]_<<entries, stage, points, saves, year>>
BY DEF Next, vars, Shows, Pays, Asks, StillOrders, StillLoyalty

Earnings == {e \in entries : e.kind # "Redeemed"}
Debits == {e \in entries : e.kind = "Redeemed"}
Entry == [kind : Lo!Kinds, source : Lo!Sources, nth : Nat, points : Nat, expired : BOOLEAN]

LoyaltyShape ==
    /\ IsFiniteSet(entries) /\ entries \subseteq Entry
    /\ stage \in [Purchases -> {"none", "pricing", "placed", "stranded", "delivered"}]
    /\ points \in [Purchases -> Int]
    /\ saves \in [Purchases -> Nat] /\ year \in 0..Years

\* What is earned is told apart by its source and the save that earned it.
EarnedOnce ==
    /\ \A d, e \in Earnings : d.source = e.source /\ d.nth = e.nth => d = e
    /\ \A e \in Earnings, o \in Purchases : e.source = Lo!FromOrder(o) => e.nth <= saves[o]

\* An order is debited once, and for no more than there was.
DebitedOnce ==
    /\ \A e \in Debits : \E o \in Purchases :
          e.source = Lo!FromOrder(o) /\ stage[o] \in {"placed", "delivered"}
    /\ \A d, e \in Debits : d.source = e.source => d = e
    /\ \A e \in Debits : e.points <= Lo!Points(Earnings)
    /\ \A o \in Purchases : stage[o] = "pricing" => points[o] <= Lo!Points(Earnings)

DiscountsArePaid ==
    \A o \in Purchases : stage[o] \in {"placed", "delivered"} =>
        points[o] <= 0 \/ \E e \in Debits : e.source = Lo!FromOrder(o) /\ points[o] <= e.points

PointsInv == LoyaltyShape /\ EarnedOnce /\ DebitedOnce /\ DiscountsArePaid

\* Points, as a sum over any table of them.
LEMMA PointsAre ==
    ASSUME NEW S, IsFiniteSet(S), NEW w, \A e \in S : w[e] = e.points
    PROVE  Lo!Points(S) = SumFunctionOnSet(w, S)
<1> DEFINE P(g) == [s \in SUBSET S |-> IF s = {} THEN 0
                                       ELSE Any(s).points + g[s \ {Any(s)}]]
           F == CHOOSE g : g = P(g)
<1>1. Lo!Points(S) = F[S]
  BY DEF Lo!Points, Lo!MapThenSumSet, Lo!MapThenFoldSet, Any
<1>2. \A g : P(g) = Step(w, S, g)
  BY AnyIs DEF Step
<1>3. Sums(w, S) = P(Sums(w, S))
  BY <1>2, SumsExist
<1>4. F = P(F)
  <2> HIDE DEF P
  <2> QED BY <1>3
<1> HIDE DEF F
<1> QED
  BY <1>1, <1>2, <1>4, SumIsUnique

\* The points of a finite set of entries and of its parts.
LEMMA PointsOfPart ==
    ASSUME NEW S, IsFiniteSet(S), \A e \in S : e.points \in Nat, NEW T \in SUBSET S
    PROVE  /\ Lo!Points(S) \in Nat /\ Lo!Points(T) \in Nat
           /\ Lo!Points(T) <= Lo!Points(S)
<1> DEFINE w == [e \in S |-> e.points]
<1>1. \A e \in S : w[e] = e.points /\ w[e] \in Nat
  OBVIOUS
<1>2. IsFiniteSet(T) /\ \A e \in T : w[e] = e.points
  BY FS_Subset
<1> HIDE DEF w
<1>3. Lo!Points(S) = SumFunctionOnSet(w, S) /\ Lo!Points(T) = SumFunctionOnSet(w, T)
  BY <1>1, <1>2, PointsAre
<1>4. SumFunctionOnSet(w, S) \in Nat
  BY <1>1, SumOfNaturals
<1>5. SumFunctionOnSet(w, T) \in Nat /\ SumFunctionOnSet(w, T) <= SumFunctionOnSet(w, S)
  BY <1>1, SumOfPart
<1> QED
  BY <1>3, <1>4, <1>5

LEMMA PointsOfOne == \A e : e.points \in Nat => Lo!Points({e}) = e.points
<1> SUFFICES ASSUME NEW e, e.points \in Nat PROVE Lo!Points({e}) = e.points
  OBVIOUS
<1> DEFINE S == {e}
           w == [d \in S |-> d.points]
<1>1. IsFiniteSet(S) /\ \A d \in S : w[d] = d.points
  BY FS_Singleton
<1>2. w[e] = e.points /\ w[e] \in Int
  OBVIOUS
<1> HIDE DEF w
<1>3. Lo!Points(S) = SumFunctionOnSet(w, S)
  BY <1>1, PointsAre
<1>4. SumFunctionOnSet(w, {} \cup {e}) = w[e] + SumFunctionOnSet(w, {})
  BY <1>2, FS_EmptySet, SumWith
<1>5. {} \cup {e} = S /\ SumFunctionOnSet(w, {}) = 0
  BY SumOfNone
<1> QED
  BY <1>2, <1>3, <1>4, <1>5

LEMMA PointsRenamed ==
    ASSUME NEW S, IsFiniteSet(S), \A e \in S : e.points \in Nat, NEW f,
           \A d, e \in S : f[d] = f[e] => d = e,
           \A e \in S : f[e].points = e.points
    PROVE  Lo!Points({f[e] : e \in S}) = Lo!Points(S)
<1> DEFINE T == {f[e] : e \in S}
           w == [e \in S |-> e.points]
           v == [e \in T |-> e.points]
<1>1. \A e \in S : w[e] = e.points /\ w[e] \in Int /\ v[f[e]] = w[e]
  OBVIOUS
<1>2. IsFiniteSet(T)
  BY ImageOfFinite
<1>3. \A e \in T : v[e] = e.points
  OBVIOUS
<1> HIDE DEF v, w
<1>4. Lo!Points(S) = SumFunctionOnSet(w, S)
  BY <1>1, PointsAre
<1>5. SumFunctionOnSet(v, {f[e] : e \in S}) = SumFunctionOnSet(w, S)
  BY <1>1, SumRenamed
<1> HIDE DEF T
<1>6. Lo!Points(T) = SumFunctionOnSet(v, T)
  BY <1>2, <1>3, PointsAre
<1> QED
  BY <1>4, <1>5, <1>6 DEF T

LEMMA PointsAtMost ==
    ASSUME NEW S, IsFiniteSet(S), NEW m \in Nat, \A e \in S : e.points \in Nat /\ e.points <= m
    PROVE  Lo!Points(S) <= m * Cardinality(S)
<1> DEFINE w == [e \in S |-> e.points]
           v == [e \in S |-> m]
<1>1. \A e \in S : w[e] = e.points /\ v[e] = m /\ w[e] \in Int /\ v[e] \in Int /\ w[e] <= v[e]
  OBVIOUS
<1> HIDE DEF v, w
<1>2. Lo!Points(S) = SumFunctionOnSet(w, S)
  BY <1>1, PointsAre
<1>3. SumFunctionOnSet(w, S) <= SumFunctionOnSet(v, S)
  BY <1>1, SumOrder
<1>4. SumFunctionOnSet(v, S) = m * Cardinality(S)
  BY <1>1, SumOfEqual
<1> QED
  BY <1>2, <1>3, <1>4

LEMMA PointsCompared ==
    ASSUME LoyaltyShape
    PROVE  /\ IsFiniteSet(Earnings) /\ IsFiniteSet(Debits)
           /\ Lo!Points(Earnings) \in Nat /\ Lo!Points(Debits) \in Nat
           /\ Lo!Balance \in Int /\ Lo!Balance <= Lo!Points(Earnings)
           /\ \A n \in Int : /\ Lo!Redeemable(n, Lo!Balance) \in Int
                             /\ Lo!Redeemable(n, Lo!Balance) <= Lo!Points(Earnings)
<1>1. IsFiniteSet(Earnings) /\ IsFiniteSet(Debits)
  BY FS_Subset DEF LoyaltyShape, Earnings, Debits
<1>2. (\A e \in Earnings : e.points \in Nat) /\ (\A e \in Debits : e.points \in Nat)
  BY DEF LoyaltyShape, Earnings, Debits, Entry
<1> DEFINE live == {e \in Lo!OfKind("Earned") : ~e.expired}
<1>3. live \in SUBSET Earnings /\ Lo!OfKind("Redeemed") = Debits
  BY DEF Lo!OfKind, Earnings, Debits
<1>4. Lo!Balance = Lo!Points(live) - Lo!Points(Debits)
  BY <1>3 DEF Lo!Balance
<1> HIDE DEF live
<1>5. /\ Lo!Points(Earnings) \in Nat /\ Lo!Points(live) \in Nat
      /\ Lo!Points(live) <= Lo!Points(Earnings)
  BY <1>1, <1>2, <1>3, PointsOfPart
<1>6. Lo!Points(Debits) \in Nat
  BY <1>1, <1>2, PointsOfPart
<1>7. Lo!Balance \in Int /\ Lo!Balance <= Lo!Points(Earnings)
  BY <1>4, <1>5, <1>6
<1>8. \A n \in Int : /\ Lo!Redeemable(n, Lo!Balance) \in Int
                     /\ Lo!Redeemable(n, Lo!Balance) <= Lo!Points(Earnings)
  <2> DEFINE b == Lo!Balance
             p == Lo!Points(Earnings)
  <2>1. b \in Int /\ p \in Nat /\ b <= p
    BY <1>5, <1>7
  <2> HIDE DEF b, p
  <2>2. \A n \in Int : Lo!Redeemable(n, b) \in Int /\ Lo!Redeemable(n, b) <= p
    BY <2>1, LoyaltyAssumption DEF Lo!Redeemable, Lo!Least
  <2> QED BY <2>2 DEF b, p
<1> QED
  BY <1>1, <1>5, <1>6, <1>7, <1>8

LEMMA PointsInit == Lo!Init => PointsInv
<1> SUFFICES ASSUME Lo!Init PROVE PointsInv
  OBVIOUS
<1> DEFINE first == [kind |-> "Earned", source |-> Lo!Opened, nth |-> 0, points |-> Opening,
                     expired |-> FALSE]
<1>1. entries = {first}
  BY DEF Lo!Init
<1>2. first \in Entry
  BY LoyaltyAssumption DEF Entry, Lo!Kinds, Lo!Sources
<1>3. LoyaltyShape
  <2>1. IsFiniteSet(entries) /\ entries \subseteq Entry
    BY <1>1, <1>2, FS_Singleton
  <2>2. year \in 0..Years
    BY LoyaltyAssumption DEF Lo!Init
  <2> QED BY <2>1, <2>2 DEF LoyaltyShape, Lo!Init
<1>4. Earnings = {first} /\ Debits = {}
  BY <1>1 DEF Earnings, Debits
<1>5. EarnedOnce
  BY <1>4 DEF EarnedOnce, Lo!Opened, Lo!FromOrder
<1>6. DebitedOnce /\ DiscountsArePaid
  BY <1>4 DEF DebitedOnce, DiscountsArePaid, Lo!Init
<1> QED
  BY <1>3, <1>5, <1>6 DEF PointsInv

LEMMA PointsPrice ==
    ASSUME PointsInv, NEW o \in Purchases, Lo!Price(o)
    PROVE  PointsInv'
<1>1. Earnings' = Earnings /\ Debits' = Debits
  BY DEF Lo!Price, Earnings, Debits
<1> DEFINE n == Lo!Redeemable(PointsFor[o], Lo!Balance)
<1>2. n \in Int /\ n <= Lo!Points(Earnings)
  BY PointsCompared, LoyaltyAssumption DEF PointsInv
<1>3. /\ stage' = [stage EXCEPT ![o] = "pricing"] /\ points' = [points EXCEPT ![o] = n]
      /\ stage[o] = "none" /\ UNCHANGED <<entries, saves, year>>
  BY DEF Lo!Price
<1> HIDE DEF n
<1>4. LoyaltyShape'
  BY <1>2, <1>3 DEF PointsInv, LoyaltyShape
<1>5. EarnedOnce'
  BY <1>1, <1>3 DEF PointsInv, EarnedOnce
<1>6. DebitedOnce'
  <2>1. \A q \in Purchases : stage'[q] = "pricing" => points'[q] <= Lo!Points(Earnings)
    BY <1>2, <1>3 DEF PointsInv, DebitedOnce, LoyaltyShape
  <2>2. \A e \in Debits : \E q \in Purchases :
           e.source = Lo!FromOrder(q) /\ stage'[q] \in {"placed", "delivered"}
    BY <1>3 DEF PointsInv, DebitedOnce, LoyaltyShape
  <2> QED BY <1>1, <2>1, <2>2 DEF PointsInv, DebitedOnce
<1>7. DiscountsArePaid'
  BY <1>1, <1>3 DEF PointsInv, DiscountsArePaid, LoyaltyShape
<1> QED
  BY <1>4, <1>5, <1>6, <1>7 DEF PointsInv

LEMMA PointsPlace ==
    ASSUME PointsInv, NEW o \in Purchases, Lo!Place(o)
    PROVE  PointsInv'
<1> DEFINE d == [kind |-> "Redeemed", source |-> Lo!FromOrder(o), nth |-> 0, points |-> points[o],
                 expired |-> FALSE]
           new == IF points[o] = 0 THEN {} ELSE {d}
<1>1. /\ stage[o] = "pricing" /\ points[o] >= 0 /\ entries' = entries \cup new
      /\ stage' = [stage EXCEPT ![o] = "placed"] /\ UNCHANGED <<points, saves, year>>
  BY DEF Lo!Place
<1>2. points[o] \in Nat /\ points[o] <= Lo!Points(Earnings)
  BY <1>1 DEF PointsInv, LoyaltyShape, DebitedOnce
<1>3. d \in Entry /\ d.kind = "Redeemed" /\ d.source = Lo!FromOrder(o) /\ d.points = points[o]
  BY <1>2 DEF Entry, Lo!Kinds, Lo!Sources
<1> HIDE DEF d
<1>4. Earnings' = Earnings /\ Debits' = Debits \cup new
  BY <1>1, <1>3 DEF Earnings, Debits
<1>5. LoyaltyShape'
  <2>1. IsFiniteSet(entries \cup {d})
    BY FS_AddElement DEF PointsInv, LoyaltyShape
  <2>2. IsFiniteSet(entries')
    BY <1>1, <2>1 DEF PointsInv, LoyaltyShape
  <2> QED BY <1>1, <1>3, <2>2 DEF PointsInv, LoyaltyShape
<1>6. EarnedOnce'
  BY <1>1, <1>4 DEF PointsInv, EarnedOnce
<1>7. \A e \in Debits : e.source # Lo!FromOrder(o)
  BY <1>1 DEF PointsInv, DebitedOnce, Lo!FromOrder
<1>8. DebitedOnce'
  <2>1. \A e \in Debits' : \E q \in Purchases :
           e.source = Lo!FromOrder(q) /\ stage'[q] \in {"placed", "delivered"}
    BY <1>1, <1>3, <1>4 DEF PointsInv, DebitedOnce, LoyaltyShape
  <2>2. \A c, e \in Debits' : c.source = e.source => c = e
    BY <1>3, <1>4, <1>7 DEF PointsInv, DebitedOnce
  <2>3. \A e \in Debits' : e.points <= Lo!Points(Earnings)
    BY <1>2, <1>3, <1>4 DEF PointsInv, DebitedOnce
  <2>4. \A q \in Purchases : stage'[q] = "pricing" => points'[q] <= Lo!Points(Earnings)
    BY <1>1 DEF PointsInv, DebitedOnce, LoyaltyShape
  <2> QED BY <1>4, <2>1, <2>2, <2>3, <2>4 DEF DebitedOnce
<1>9. DiscountsArePaid'
  <2> SUFFICES ASSUME NEW q \in Purchases, stage'[q] \in {"placed", "delivered"}
               PROVE  points'[q] <= 0
                        \/ \E e \in Debits' : e.source = Lo!FromOrder(q) /\ points'[q] <= e.points
    BY DEF DiscountsArePaid
  <2>1. CASE q # o
    BY <1>1, <1>4, <2>1 DEF PointsInv, DiscountsArePaid, LoyaltyShape
  <2>2. CASE q = o
    BY <1>1, <1>2, <1>3, <1>4, <2>2
  <2> QED BY <2>1, <2>2
<1> QED
  BY <1>5, <1>6, <1>8, <1>9 DEF PointsInv

LEMMA PointsPlaceRefused ==
    ASSUME PointsInv, NEW o \in Purchases, Lo!PlaceRefused(o)
    PROVE  PointsInv'
<1>1. Earnings' = Earnings /\ Debits' = Debits
  BY DEF Lo!PlaceRefused, Earnings, Debits
<1>2. /\ stage' = [stage EXCEPT ![o] = "stranded"] /\ stage[o] = "pricing"
      /\ UNCHANGED <<entries, points, saves, year>>
  BY DEF Lo!PlaceRefused
<1>3. LoyaltyShape'
  BY <1>2 DEF PointsInv, LoyaltyShape
<1>4. EarnedOnce'
  BY <1>1, <1>2 DEF PointsInv, EarnedOnce
<1>5. DebitedOnce'
  <2>1. \A e \in Debits : \E q \in Purchases :
           e.source = Lo!FromOrder(q) /\ stage'[q] \in {"placed", "delivered"}
    BY <1>2 DEF PointsInv, DebitedOnce, LoyaltyShape
  <2>2. \A q \in Purchases : stage'[q] = "pricing" => points'[q] <= Lo!Points(Earnings)
    BY <1>2 DEF PointsInv, DebitedOnce, LoyaltyShape
  <2> QED BY <1>1, <2>1, <2>2 DEF PointsInv, DebitedOnce
<1>6. DiscountsArePaid'
  BY <1>1, <1>2 DEF PointsInv, DiscountsArePaid, LoyaltyShape
<1> QED
  BY <1>3, <1>4, <1>5, <1>6 DEF PointsInv

LEMMA PointsResave ==
    ASSUME PointsInv, NEW o \in Purchases, Lo!Resave(o)
    PROVE  PointsInv'
<1>1. Earnings' = Earnings /\ Debits' = Debits
  BY DEF Lo!Resave, Earnings, Debits
<1> DEFINE n == Lo!Repriced(o)
<1>2. /\ points' = [points EXCEPT ![o] = n] /\ stage[o] = "placed"
      /\ UNCHANGED <<entries, stage, saves, year>>
  BY DEF Lo!Resave
<1>3. n \in Int /\ (n <= 0 \/ n <= points[o])
  <2> DEFINE b == Lo!Balance
  <2>1. b \in Int /\ points[o] \in Int
    BY PointsCompared DEF PointsInv, LoyaltyShape
  <2>2. n = IF points[o] > 0 THEN Lo!Redeemable(points[o], b) ELSE 0
    BY DEF Lo!Repriced
  <2> HIDE DEF b, n
  <2> QED BY <2>1, <2>2, LoyaltyAssumption DEF Lo!Redeemable, Lo!Least
<1> HIDE DEF n
<1>4. LoyaltyShape'
  BY <1>2, <1>3 DEF PointsInv, LoyaltyShape
<1>5. EarnedOnce'
  BY <1>1, <1>2 DEF PointsInv, EarnedOnce
<1>6. DebitedOnce'
  BY <1>1, <1>2 DEF PointsInv, DebitedOnce, LoyaltyShape
<1>7. DiscountsArePaid'
  <2> SUFFICES ASSUME NEW q \in Purchases, stage'[q] \in {"placed", "delivered"}
               PROVE  points'[q] <= 0
                        \/ \E e \in Debits' : e.source = Lo!FromOrder(q) /\ points'[q] <= e.points
    BY DEF DiscountsArePaid
  <2>1. points[q] <= 0 \/ \E e \in Debits : e.source = Lo!FromOrder(q) /\ points[q] <= e.points
    BY <1>2 DEF PointsInv, DiscountsArePaid
  <2>2. CASE q # o
    BY <1>1, <1>2, <2>1, <2>2 DEF PointsInv, LoyaltyShape
  <2>3. CASE q = o
    <3>1. points'[q] = n
      BY <1>2, <2>3 DEF PointsInv, LoyaltyShape
    <3>2. \A e \in Debits : e.points \in Nat
      BY DEF PointsInv, LoyaltyShape, Debits, Entry
    <3>3. points[o] \in Int
      BY DEF PointsInv, LoyaltyShape
    <3>4. CASE n <= 0
      BY <3>1, <3>4
    <3>5. CASE n <= points[o]
      BY <1>1, <1>3, <2>1, <2>3, <3>1, <3>2, <3>3, <3>5
    <3> QED BY <1>3, <3>4, <3>5
  <2> QED BY <2>2, <2>3
<1> QED
  BY <1>4, <1>5, <1>6, <1>7 DEF PointsInv

\* Earnings that do not become less keep the debits covered.
LEMMA PointsMore ==
    ASSUME PointsInv, Debits' = Debits, points' = points,
           Lo!Points(Earnings) <= Lo!Points(Earnings'), Lo!Points(Earnings') \in Nat,
           \A q \in Purchases : /\ stage'[q] = "pricing" => stage[q] = "pricing"
                                /\ stage[q] \in {"placed", "delivered"}
                                      <=> stage'[q] \in {"placed", "delivered"}
    PROVE  DebitedOnce' /\ DiscountsArePaid'
<1> DEFINE p == Lo!Points(Earnings)
           q == Lo!Points(Earnings')
<1>1. p \in Nat /\ q \in Nat /\ p <= q
  BY PointsCompared DEF PointsInv
<1> HIDE DEF p, q
<1>2. \A e \in Debits : e.points \in Nat /\ e.points <= p
  BY DEF PointsInv, LoyaltyShape, Debits, Entry, DebitedOnce, p
<1>3. \A e \in Debits : e.points <= q
  BY <1>1, <1>2
<1>4. \A o \in Purchases : stage'[o] = "pricing" => points'[o] \in Int /\ points'[o] <= p
  BY DEF PointsInv, LoyaltyShape, DebitedOnce, p
<1>5. \A o \in Purchases : stage'[o] = "pricing" => points'[o] <= q
  BY <1>1, <1>4
<1>6. DebitedOnce'
  BY <1>3, <1>5 DEF PointsInv, DebitedOnce, q
<1>7. DiscountsArePaid'
  BY DEF PointsInv, DiscountsArePaid
<1> QED
  BY <1>6, <1>7

\* One more earning.
LEMMA PointsEarn ==
    ASSUME PointsInv, NEW e \in Entry, e.kind = "Earned", entries' = entries \cup {e}
    PROVE  /\ Earnings' = Earnings \cup {e} /\ Debits' = Debits /\ IsFiniteSet(entries')
           /\ entries' \subseteq Entry
           /\ Lo!Points(Earnings) <= Lo!Points(Earnings') /\ Lo!Points(Earnings') \in Nat
<1>1. Earnings' = Earnings \cup {e} /\ Debits' = Debits
  BY DEF Earnings, Debits
<1>2. IsFiniteSet(entries') /\ entries' \subseteq Entry
  BY FS_AddElement DEF PointsInv, LoyaltyShape
<1> DEFINE S == Earnings \cup {e}
<1>3. IsFiniteSet(S) /\ \A d \in S : d.points \in Nat
  <2>1. IsFiniteSet(Earnings)
    BY PointsCompared DEF PointsInv
  <2> QED BY <2>1, FS_AddElement DEF PointsInv, LoyaltyShape, Earnings, Entry
<1>4. Earnings \in SUBSET S
  OBVIOUS
<1> HIDE DEF S
<1>5. Lo!Points(S) \in Nat /\ Lo!Points(Earnings) <= Lo!Points(S)
  BY <1>3, <1>4, PointsOfPart
<1> QED
  BY <1>1, <1>2, <1>5 DEF S

LEMMA PointsDeliver ==
    ASSUME PointsInv, NEW o \in Purchases, Lo!Deliver(o)
    PROVE  PointsInv'
<1> DEFINE e == Lo!EarnedBy(o)
<1>1. /\ stage[o] \in {"placed", "delivered"} /\ stage' = [stage EXCEPT ![o] = "delivered"]
      /\ saves' = [saves EXCEPT ![o] = @ + 1] /\ entries' = entries \cup {e}
      /\ UNCHANGED <<points, year>>
  BY DEF Lo!Deliver
<1>2. saves'[o] = saves[o] + 1 /\ saves[o] \in Nat
  BY <1>1 DEF PointsInv, LoyaltyShape
<1>3. /\ e \in Entry /\ e.kind = "Earned" /\ e.source = Lo!FromOrder(o)
      /\ e.nth = saves[o] + 1
  <2>1. OrderEarns * Lo!Multiplier(Lo!Balance) \in Nat
    BY LoyaltyAssumption DEF Lo!Multiplier
  <2> QED BY <1>2, <2>1 DEF Lo!EarnedBy, Entry, Lo!Kinds, Lo!Sources
<1> HIDE DEF e
<1>4. /\ Earnings' = Earnings \cup {e} /\ Debits' = Debits /\ IsFiniteSet(entries')
      /\ entries' \subseteq Entry
      /\ Lo!Points(Earnings) <= Lo!Points(Earnings') /\ Lo!Points(Earnings') \in Nat
  BY <1>1, <1>3, PointsEarn
<1>5. LoyaltyShape'
  BY <1>1, <1>2, <1>4 DEF PointsInv, LoyaltyShape
<1>6. EarnedOnce'
  <2>1. \A d \in Earnings : d.source = Lo!FromOrder(o) => d.nth \in Nat /\ d.nth <= saves[o]
    BY DEF PointsInv, EarnedOnce, LoyaltyShape, Earnings, Entry
  <2>2. \A c, d \in Earnings' : c.source = d.source /\ c.nth = d.nth => c = d
    <3>1. \A d \in Earnings : ~ (d.source = e.source /\ d.nth = e.nth)
      BY <1>2, <1>3, <2>1
    <3> QED BY <1>4, <3>1 DEF PointsInv, EarnedOnce
  <2>3. \A d \in Earnings', q \in Purchases : d.source = Lo!FromOrder(q) => d.nth <= saves'[q]
    <3> SUFFICES ASSUME NEW d \in Earnings', NEW q \in Purchases, d.source = Lo!FromOrder(q)
                 PROVE  d.nth <= saves'[q]
      OBVIOUS
    <3>1. CASE d \in Earnings /\ q # o
      BY <1>1, <3>1 DEF PointsInv, EarnedOnce, LoyaltyShape
    <3>2. CASE d \in Earnings /\ q = o
      BY <1>2, <2>1, <3>2
    <3>3. CASE d = e
      <4>1. q = o
        BY <1>3, <3>3 DEF Lo!FromOrder
      <4> QED BY <1>2, <1>3, <3>3, <4>1
    <3> QED BY <1>4, <3>1, <3>2, <3>3
  <2> QED BY <2>2, <2>3 DEF EarnedOnce
<1>7. DebitedOnce' /\ DiscountsArePaid'
  <2>1. \A q \in Purchases : /\ stage'[q] = "pricing" => stage[q] = "pricing"
                             /\ stage[q] \in {"placed", "delivered"}
                                   <=> stage'[q] \in {"placed", "delivered"}
    BY <1>1 DEF PointsInv, LoyaltyShape
  <2> QED BY <1>1, <1>4, <2>1, PointsMore
<1> QED
  BY <1>5, <1>6, <1>7 DEF PointsInv

LEMMA PointsBirthday ==
    ASSUME PointsInv, Lo!CheckBirthdayRewards
    PROVE  PointsInv'
<1> DEFINE e == [kind |-> "Earned", source |-> Lo!Birthday(year), nth |-> 0,
                 points |-> BirthdayPoints, expired |-> FALSE]
<1>1. /\ \A d \in entries : d.source # Lo!Birthday(year)
      /\ entries' = entries \cup {e} /\ UNCHANGED <<stage, points, saves, year>>
  BY DEF Lo!CheckBirthdayRewards, Lo!Rewarded
<1>2. e \in Entry /\ e.kind = "Earned" /\ e.source = Lo!Birthday(year)
  BY LoyaltyAssumption DEF Entry, Lo!Kinds, Lo!Sources, PointsInv, LoyaltyShape
<1> HIDE DEF e
<1>3. /\ Earnings' = Earnings \cup {e} /\ Debits' = Debits /\ IsFiniteSet(entries')
      /\ entries' \subseteq Entry
      /\ Lo!Points(Earnings) <= Lo!Points(Earnings') /\ Lo!Points(Earnings') \in Nat
  BY <1>1, <1>2, PointsEarn
<1>4. LoyaltyShape'
  BY <1>1, <1>3 DEF PointsInv, LoyaltyShape
<1>5. EarnedOnce'
  <2>1. \A d \in Earnings : d.source # e.source
    BY <1>1, <1>2 DEF Earnings
  <2>2. \A q \in Purchases : e.source # Lo!FromOrder(q)
    BY <1>2 DEF Lo!FromOrder, Lo!Birthday
  <2> QED BY <1>1, <1>3, <2>1, <2>2 DEF PointsInv, EarnedOnce
<1>6. DebitedOnce' /\ DiscountsArePaid'
  BY <1>1, <1>3, PointsMore
<1> QED
  BY <1>4, <1>5, <1>6 DEF PointsInv

LEMMA PointsExpire ==
    ASSUME PointsInv, NEW s \in Lo!Sources, Lo!ExpireOldPoints(s)
    PROVE  PointsInv'
<1> DEFINE old == Lo!ExpiresOf(s)
           f == [e \in entries |-> IF e \in old THEN [e EXCEPT !.kind = "Expired", !.expired = TRUE]
                                   ELSE e]
<1>1. /\ entries' = (entries \ old) \cup {[e EXCEPT !.kind = "Expired", !.expired = TRUE] : e \in old}
      /\ UNCHANGED <<stage, points, saves, year>>
  BY DEF Lo!ExpireOldPoints
<1>2. old \subseteq entries /\ \A e \in old : e.kind = "Earned"
  BY DEF Lo!ExpiresOf
<1>3. \A e \in entries : /\ f[e] \in Entry /\ f[e].source = e.source /\ f[e].nth = e.nth
                         /\ f[e].points = e.points
                         /\ f[e].kind = "Redeemed" <=> e.kind = "Redeemed"
                         /\ e.kind = "Redeemed" => f[e] = e
  <2>1. \A e \in Entry : LET x == [e EXCEPT !.kind = "Expired", !.expired = TRUE]
                         IN /\ x \in Entry /\ x.source = e.source /\ x.nth = e.nth
                            /\ x.points = e.points /\ x.kind = "Expired"
    BY DEF Entry, Lo!Kinds
  <2> QED BY <1>2, <2>1 DEF PointsInv, LoyaltyShape
<1>4. entries' = {f[e] : e \in entries}
  BY <1>1, <1>2
<1> HIDE DEF f, old
<1>5. Earnings' = {f[e] : e \in Earnings} /\ Debits' = Debits
  BY <1>3, <1>4 DEF Earnings, Debits
<1>6. IsFiniteSet(entries') /\ entries' \subseteq Entry
  <2>1. IsFiniteSet({f[e] : e \in entries})
    BY ImageOfFinite DEF PointsInv, LoyaltyShape
  <2> QED BY <1>3, <1>4, <2>1
<1>7. LoyaltyShape'
  BY <1>1, <1>6 DEF PointsInv, LoyaltyShape
<1>8. \A d, e \in Earnings : f[d].source = f[e].source /\ f[d].nth = f[e].nth => d = e
  BY <1>3 DEF PointsInv, EarnedOnce, Earnings
<1>9. EarnedOnce'
  <2>1. \A d, e \in Earnings' : d.source = e.source /\ d.nth = e.nth => d = e
    BY <1>5, <1>8
  <2>2. \A e \in Earnings', q \in Purchases : e.source = Lo!FromOrder(q) => e.nth <= saves'[q]
    <3> SUFFICES ASSUME NEW e \in Earnings', NEW q \in Purchases, e.source = Lo!FromOrder(q)
                 PROVE  e.nth <= saves'[q]
      OBVIOUS
    <3>1. PICK d \in Earnings : e = f[d]
      BY <1>5
    <3>2. e.source = d.source /\ e.nth = d.nth
      BY <1>3, <3>1 DEF Earnings
    <3>3. d.nth <= saves[q]
      BY <3>2 DEF PointsInv, EarnedOnce
    <3> QED BY <1>1, <3>2, <3>3
  <2> QED BY <2>1, <2>2 DEF EarnedOnce
<1>10. Lo!Points(Earnings') = Lo!Points(Earnings)
  <2>1. IsFiniteSet(Earnings) /\ \A e \in Earnings : e.points \in Nat
    BY PointsCompared DEF PointsInv, LoyaltyShape, Earnings, Entry
  <2>2. (\A d, e \in Earnings : f[d] = f[e] => d = e) /\ \A e \in Earnings : f[e].points = e.points
    BY <1>3, <1>8 DEF Earnings
  <2>3. Lo!Points({f[e] : e \in Earnings}) = Lo!Points(Earnings)
    BY <2>1, <2>2, PointsRenamed
  <2> QED BY <1>5, <2>3
<1>11. Lo!Points(Earnings) \in Nat /\ Lo!Points(Earnings) <= Lo!Points(Earnings')
  <2>1. Lo!Points(Earnings) \in Nat
    BY PointsCompared DEF PointsInv
  <2>2. \A n \in Nat : n <= n
    OBVIOUS
  <2> QED BY <1>10, <2>1, <2>2
<1>12. DebitedOnce' /\ DiscountsArePaid'
  BY <1>1, <1>5, <1>10, <1>11, PointsMore
<1> QED
  BY <1>7, <1>9, <1>12 DEF PointsInv

LEMMA PointsStep ==
    PointsInv /\ [Lo!Next]_<<entries, stage, points, saves, year>> => PointsInv'
<1> SUFFICES ASSUME PointsInv, [Lo!Next]_<<entries, stage, points, saves, year>> PROVE PointsInv'
  OBVIOUS
<1>1. CASE UNCHANGED <<entries, stage, points, saves, year>>
  <2>1. Earnings' = Earnings /\ Debits' = Debits
    BY <1>1 DEF Earnings, Debits
  <2> QED BY <1>1, <2>1 DEF PointsInv, LoyaltyShape, EarnedOnce, DebitedOnce, DiscountsArePaid
<1>2. CASE Lo!NewYear
  <2>1. Earnings' = Earnings /\ Debits' = Debits
    BY <1>2 DEF Earnings, Debits, Lo!NewYear
  <2>2. LoyaltyShape'
    BY <1>2, LoyaltyAssumption DEF PointsInv, LoyaltyShape, Lo!NewYear
  <2> QED BY <1>2, <2>1, <2>2 DEF PointsInv, EarnedOnce, DebitedOnce, DiscountsArePaid, Lo!NewYear
<1> QED
  BY <1>1, <1>2, PointsPrice, PointsPlace, PointsPlaceRefused, PointsResave, PointsDeliver,
     PointsExpire, PointsBirthday
  DEF Lo!Next

\* What the invariant says of the debits together, and of one order's.
LEMMA PointsCovered == PointsInv => Lo!PointsAreCovered
<1> SUFFICES ASSUME PointsInv PROVE Lo!SpentWasEarned /\ Lo!DebitsCoverDiscounts
  BY DEF Lo!PointsAreCovered
<1>0. /\ Lo!OfKind("Redeemed") = Debits
      /\ {e \in entries : e.kind # "Redeemed"} = Earnings
  BY DEF Lo!OfKind, Debits, Earnings
<1>1. /\ IsFiniteSet(Debits) /\ Lo!Points(Earnings) \in Nat
      /\ \A e \in Debits : e.points \in Nat /\ e.points <= Lo!Points(Earnings)
  BY PointsCompared DEF PointsInv, LoyaltyShape, DebitedOnce, Debits, Entry
<1>2. Lo!SpentWasEarned
  <2> DEFINE m == Lo!Points(Earnings)
             of == [o \in Purchases |-> Lo!FromOrder(o)]
             by == [e \in Debits |-> e.source]
  <2>1. Lo!Points(Debits) <= m * Cardinality(Debits)
    <3> HIDE DEF m
    <3>1. m \in Nat /\ \A e \in Debits : e.points \in Nat /\ e.points <= m
      BY <1>1 DEF m
    <3> QED BY <1>1, <3>1, PointsAtMost
  <2>2. Cardinality(Debits) <= Cardinality(Purchases) /\ Cardinality(Debits) \in Nat
                                                      /\ Cardinality(Purchases) \in Nat
    <3> DEFINE whose == [e \in Debits |-> CHOOSE o \in Purchases : e.source = Lo!FromOrder(o)]
    <3>1. \A e \in Debits : whose[e] \in Purchases /\ e.source = Lo!FromOrder(whose[e])
      BY DEF PointsInv, DebitedOnce
    <3>2. \A d, e \in Debits : whose[d] = whose[e] => d = e
      BY <3>1 DEF PointsInv, DebitedOnce
    <3>3. whose \in Injection(Debits, Purchases)
      <4>1. whose \in [Debits -> Purchases]
        BY <3>1
      <4> HIDE DEF whose
      <4> QED BY <3>2, <4>1 DEF Injection, IsInjective
    <3>4. Cardinality(Debits) <= Cardinality(Purchases)
      BY <3>3, LoyaltyAssumption, FS_Injection
    <3> QED BY <1>1, <3>4, LoyaltyAssumption, FS_CardinalityType
  <2> DEFINE k == Cardinality(Debits)
             n == Cardinality(Purchases)
             spent == Lo!Points(Debits)
  <2>3. m \in Nat /\ k \in Nat /\ n \in Nat /\ k <= n /\ spent <= m * k /\ spent \in Nat
    BY <1>1, <2>1, <2>2, PointsCompared DEF PointsInv
  <2> HIDE DEF m, k, n, spent
  <2>4. spent <= n * m
    <3>1. \A a, b, c \in Nat : a <= b => a * c <= b * c
      OBVIOUS
    <3>2. k * m <= n * m
      BY <2>3, <3>1
    <3>3. m * k = k * m
      BY <2>3
    <3> QED BY <2>3, <3>2, <3>3
  <2>5. Lo!Cardinality(Purchases) = n
    BY DEF Lo!Cardinality, Cardinality, n
  <2> QED BY <1>0, <2>4, <2>5 DEF Lo!SpentWasEarned, m, spent
<1>3. Lo!DebitsCoverDiscounts
  <2> SUFFICES ASSUME NEW o \in Purchases, stage[o] \in {"placed", "delivered"}
               PROVE  points[o] <= Lo!Points({e \in Debits : e.source = Lo!FromOrder(o)})
    BY <1>0 DEF Lo!DebitsCoverDiscounts
  <2> DEFINE mine == {e \in Debits : e.source = Lo!FromOrder(o)}
  <2>1. IsFiniteSet(mine) /\ \A e \in mine : e.points \in Nat
    BY <1>1, FS_Subset
  <2> HIDE DEF mine
  <2>2. mine \in SUBSET mine
    OBVIOUS
  <2>3. Lo!Points(mine) \in Nat /\ points[o] \in Int
    BY <2>1, <2>2, PointsOfPart DEF PointsInv, LoyaltyShape
  <2>4. CASE points[o] <= 0
    BY <2>3, <2>4 DEF mine
  <2>5. ASSUME NEW e \in Debits, e.source = Lo!FromOrder(o), points[o] <= e.points
        PROVE  points[o] <= Lo!Points(mine)
    <3> DEFINE one == {e}
    <3>1. one \in SUBSET mine
      BY <2>5 DEF mine
    <3>2. Lo!Points(one) = e.points /\ e.points \in Nat
      BY <1>1, PointsOfOne
    <3> HIDE DEF one
    <3>3. Lo!Points(one) <= Lo!Points(mine)
      BY <2>1, <3>1, PointsOfPart
    <3> QED BY <2>3, <2>5, <3>2, <3>3
  <2> QED BY <2>4, <2>5 DEF mine, PointsInv, DiscountsArePaid
<1> QED
  BY <1>2, <1>3

\* Whatever checkouts, saves, deliveries, expiries and birthdays do at once, a customer
\* has spent no more than was ever earned, once over for each order, and every
\* discount is paid for with points (api/loyalty.py).
THEOREM PointsAreAlwaysCovered == Spec => []PointsAreCovered
<1>1. Init => PointsInv
  BY PointsInit DEF Init
<1>2. PointsInv /\ [Next]_vars => PointsInv'
  BY LoyaltyMoves, PointsStep
<1>3. PointsInv => PointsAreCovered
  BY PointsCovered DEF PointsAreCovered
<1> QED
  BY <1>1, <1>2, <1>3, PTL DEF Spec

-----------------------------------------------------------------------------
(* OrderTotals.                                                            *)

LEMMA TotalsMove == [Next]_vars => [To!Next]_order
BY DEF Next, vars, Shows, Pays, Asks, StillOrders, StillTotals

\* Percentages of a whole leave some of it.
LEMMA PercentType == \A x, p \in Int : To!Percent(x, p) \in Int
<1> SUFFICES ASSUME NEW x \in Int, NEW p \in Int PROVE To!Percent(x, p) \in Int
  OBVIOUS
<1> DEFINE y == x * p
<1>1. y \in Int
  OBVIOUS
<1> HIDE DEF y
<1>2. (y + 50) \div 100 \in Int
  BY <1>1
<1> QED
  BY <1>2 DEF To!Percent, y

LEMMA PercentWithin ==
    \A x \in Nat, p \in 0..100 : To!Percent(x, p) \in Nat /\ To!Percent(x, p) <= x
<1> SUFFICES ASSUME NEW x \in Nat, NEW p \in 0..100
             PROVE  To!Percent(x, p) \in Nat /\ To!Percent(x, p) <= x
  OBVIOUS
<1> DEFINE y == x * p
<1>1. y \in Nat /\ y <= 100 * x
  <2>1. p \in Nat /\ 100 - p \in Nat
    OBVIOUS
  <2>2. \A a, b \in Nat : a * b \in Nat
    OBVIOUS
  <2>3. x * p \in Nat /\ x * (100 - p) \in Nat
    BY <2>1, <2>2
  <2>4. x * (100 - p) = 100 * x - x * p
    OBVIOUS
  <2> QED BY <2>3, <2>4
<1> HIDE DEF y
<1>2. (y + 50) \div 100 \in Nat /\ (y + 50) \div 100 <= x
  BY <1>1
<1> QED
  BY <1>2 DEF To!Percent, y

LEMMA LeastType == \A m, n \in Int : /\ To!Least(m, n) \in {m, n}
                                     /\ To!Least(m, n) <= m /\ To!Least(m, n) <= n
BY DEF To!Least

LEMMA AtLeastZeroType ==
    \A n \in Int : To!AtLeastZero(n) \in Nat /\ (n \in Nat => To!AtLeastZero(n) = n)
BY DEF To!AtLeastZero

\* A table of amounts, summed by name or by the operator that reads it.
LEMMA SumOfTable == \A f, S : To!SumFunctionOnSet(f, S) = SumFunctionOnSet(f, S)
BY DEF To!SumFunctionOnSet, To!FoldFunctionOnSet, To!MapThenFoldSet,
       SumFunctionOnSet, FoldFunctionOnSet, MapThenFoldSet

LEMMA NetIs ==
    ASSUME NEW o, IsFiniteSet(DOMAIN o.lines), NEW w, \A i \in DOMAIN o.lines : w[i] = o.lines[i].amount
    PROVE  To!NetTotal(o) = SumFunctionOnSet(w, DOMAIN o.lines)
<1> DEFINE S == DOMAIN o.lines
           P(g) == [s \in SUBSET S |-> IF s = {} THEN 0
                                       ELSE o.lines[Any(s)].amount + g[s \ {Any(s)}]]
           F == CHOOSE g : g = P(g)
<1>1. To!NetTotal(o) = F[S]
  BY DEF To!NetTotal, To!SumOf, To!MapThenSumSet, To!MapThenFoldSet, Any
<1>2. \A g : P(g) = Step(w, S, g)
  BY AnyIs DEF Step
<1> HIDE DEF S
<1>3. Sums(w, S) = P(Sums(w, S))
  BY <1>2, SumsExist DEF S
<1>4. F = P(F)
  <2> HIDE DEF P
  <2> QED BY <1>3
<1> HIDE DEF F
<1> QED
  BY <1>1, <1>2, <1>4, SumIsUnique DEF S

LEMMA TotalsAreTyped == Spec => []To!OrderTotalsTypeOK
<1>1. Init => To!OrderTotalsTypeOK
  BY TotalsAssumption DEF Init, To!Init, To!OrderTotalsTypeOK
<1>2. To!OrderTotalsTypeOK /\ [Next]_vars => To!OrderTotalsTypeOK'
  BY TotalsMove DEF To!Next, To!OrderTotalsTypeOK
<1> QED
  BY <1>1, <1>2, PTL DEF Spec

LEMMA NetType == To!OrderTotalsTypeOK => To!NetTotal(order) \in Nat
<1> SUFFICES ASSUME To!OrderTotalsTypeOK PROVE To!NetTotal(order) \in Nat
  OBVIOUS
<1> DEFINE S == DOMAIN order.lines
           w == [i \in S |-> order.lines[i].amount]
<1>1. S = 1..Len(order.lines) /\ Len(order.lines) \in Nat /\ \A i \in S : order.lines[i].amount \in Nat
  BY TotalsAssumption DEF To!OrderTotalsTypeOK
<1>2. IsFiniteSet(S)
  BY <1>1, FS_Interval
<1>3. To!NetTotal(order) = SumFunctionOnSet(w, S)
  BY <1>2, NetIs
<1>4. \A i \in S : w[i] \in Nat
  BY <1>1
<1> HIDE DEF w, S
<1> QED
  BY <1>2, <1>3, <1>4, SumOfNaturals

\* Every tax is an amount, whatever it is taken of.
LEMMA TaxesType == To!OrderTotalsTypeOK => To!TotalTaxes(order) \in Int
<1> SUFFICES ASSUME To!OrderTotalsTypeOK PROVE To!TotalTaxes(order) \in Int
  OBVIOUS
<1> DEFINE t == order.taxes
           N == Len(t)
           net == To!NetTotal(order)
           State == [running : Int, last : Int]
           Tax(i, s) == CASE t[i].type = "Actual" -> t[i].amount
                          [] t[i].type = "On Previous Row Total" -> To!Percent(s.last, t[i].rate)
                          [] OTHER -> To!Percent(s.running, t[i].rate)
           After(i, s) == [running |-> s.running + Tax(i, s), last |-> Tax(i, s)]
           first == [running |-> net, last |-> 0]
           Upto(n, g) == [i \in 0..n |-> IF i = 0 THEN first ELSE After(i, g[i - 1])]
           F == CHOOSE g : g = Upto(N, g)
           good == {n \in Nat : n <= N => \E g : g = Upto(n, g)}
           typed == {n \in Nat : n <= N => F[n] \in State}
<1>1. /\ N \in Nat /\ \A i \in 1..N : t[i].rate \in Int /\ t[i].amount \in Int
      /\ first \in State
  BY NetType, TotalsAssumption DEF To!OrderTotalsTypeOK
<1>2. To!TaxRows(order) = F[N]
  BY DEF To!TaxRows
<1>3. \A i \in 1..N : \A s \in State : After(i, s) \in State
  <2> SUFFICES ASSUME NEW i \in 1..N, NEW s \in State PROVE After(i, s) \in State
    OBVIOUS
  <2>0. s.last \in Int /\ s.running \in Int
    OBVIOUS
  <2>1. /\ To!Percent(s.last, t[i].rate) \in Int /\ To!Percent(s.running, t[i].rate) \in Int
        /\ t[i].amount \in Int
    BY <1>1, <2>0, PercentType
  <2>2. Tax(i, s) \in Int
    BY <2>1
  <2> HIDE DEF Tax
  <2> QED BY <2>0, <2>2
<1> HIDE DEF After, first, t, N, State
<1>4. \E g : g = Upto(N, g)
  <2>1. 0 \in good
    <3>1. [i \in 0..0 |-> first] = Upto(0, [i \in 0..0 |-> first])
      OBVIOUS
    <3> QED BY <3>1
  <2>2. ASSUME NEW n \in good PROVE n + 1 \in good
    <3> SUFFICES ASSUME n + 1 <= N PROVE \E g : g = Upto(n + 1, g)
      OBVIOUS
    <3>0. n \in Nat /\ n <= N
      BY <1>1
    <3>1. PICK g : g = Upto(n, g)
      BY <3>0
    <3> DEFINE h == [i \in 0..(n + 1) |-> IF i = n + 1 THEN After(n + 1, g[n]) ELSE g[i]]
    <3>2. n \in Nat /\ 0 # n + 1
      OBVIOUS
    <3>3. \A i \in 0..(n + 1) : h[i] = IF i = 0 THEN first ELSE After(i, h[i - 1])
      <4> SUFFICES ASSUME NEW i \in 0..(n + 1)
                   PROVE  h[i] = IF i = 0 THEN first ELSE After(i, h[i - 1])
        OBVIOUS
      <4>1. CASE i = 0
        <5>1. h[0] = g[0] /\ g[0] = first
          BY <3>1, <3>2
        <5> QED BY <4>1, <5>1
      <4>2. CASE i = n + 1
        <5>1. n \in 0..(n + 1) /\ n # n + 1 /\ i - 1 = n
          BY <3>2, <4>2
        <5>2. h[n] = g[n]
          BY <5>1
        <5> QED BY <3>2, <4>2, <5>1, <5>2
      <4>3. CASE i # 0 /\ i # n + 1
        <5>1. i \in 0..n /\ i - 1 \in 0..(n + 1) /\ i - 1 # n + 1
          BY <3>2, <4>3
        <5>2. h[i] = g[i] /\ h[i - 1] = g[i - 1] /\ g[i] = After(i, g[i - 1])
          BY <3>1, <4>3, <5>1
        <5> QED BY <4>3, <5>2
      <4> QED BY <4>1, <4>2, <4>3
    <3>4. h = [i \in 0..(n + 1) |-> h[i]]
      OBVIOUS
    <3> HIDE DEF h
    <3>5. h = Upto(n + 1, h)
      BY <3>3, <3>4
    <3> QED BY <3>5
  <2>3. good \in SUBSET Nat
    OBVIOUS
  <2> HIDE DEF good
  <2>4. good = Nat
    BY <2>1, <2>2, <2>3, NatInd
  <2>5. N \in good /\ N <= N
    BY <1>1, <2>4
  <2> HIDE DEF Upto
  <2> QED BY <2>5 DEF good
<1>5. F = Upto(N, F)
  <2> HIDE DEF Upto
  <2> QED BY <1>4
<1> HIDE DEF F, good
<1>6. F[N] \in State
  <2>1. 0 \in typed
    BY <1>1, <1>5
  <2>2. ASSUME NEW n \in typed PROVE n + 1 \in typed
    <3> SUFFICES ASSUME n + 1 <= N PROVE F[n + 1] \in State
      OBVIOUS
    <3>1. n + 1 \in 0..N /\ n + 1 # 0 /\ n + 1 - 1 = n /\ n + 1 \in 1..N /\ F[n] \in State
      BY <1>1
    <3>2. \A i \in 0..N : F[i] = IF i = 0 THEN first ELSE After(i, F[i - 1])
      BY <1>5
    <3>3. F[n + 1] = After(n + 1, F[n])
      BY <3>1, <3>2
    <3> QED BY <1>3, <3>1, <3>3
  <2>3. typed \in SUBSET Nat
    OBVIOUS
  <2> HIDE DEF typed
  <2>4. typed = Nat
    BY <2>1, <2>2, <2>3, NatInd
  <2> QED BY <1>1, <2>4 DEF typed
<1>7. To!TaxRows(order).running \in Int
  BY <1>2, <1>6 DEF State
<1> QED
  BY <1>7, NetType DEF To!TotalTaxes

LEMMA CouponWithin ==
    To!OrderTotalsTypeOK => /\ To!CouponDiscount(order) \in Nat
                            /\ To!CouponDiscount(order) <= To!NetTotal(order)
<1> SUFFICES ASSUME To!OrderTotalsTypeOK
             PROVE  /\ To!CouponDiscount(order) \in Nat
                    /\ To!CouponDiscount(order) <= To!NetTotal(order)
  OBVIOUS
<1> DEFINE c == order.coupon
           net == To!NetTotal(order)
<1>1. net \in Nat
  BY NetType
<1>2. CASE c = NoCoupon \/ net < c.minOrder
  <2>1. To!CouponDiscount(order) = 0
    BY <1>2 DEF To!CouponDiscount
  <2> HIDE DEF net
  <2> QED BY <1>1, <2>1 DEF net
<1>3. CASE ~(c = NoCoupon \/ net < c.minOrder)
  <2>1. /\ c.value \in Nat /\ c.max \in Nat
        /\ c.type = "Percentage" => c.value \in 0..100
    <3>1. c \in Coupons \ {NoCoupon}
      BY <1>3 DEF To!OrderTotalsTypeOK
    <3>2. \A k \in Coupons \ {NoCoupon} :
              k.value \in Nat /\ k.max \in Nat /\ (k.type = "Percentage" => k.value <= 100)
      BY TotalsAssumption
    <3> HIDE DEF c
    <3> QED BY <3>1, <3>2
  <2>2. c.type = "Percentage" =>
            To!Percent(net, c.value) \in Nat /\ To!Percent(net, c.value) <= net
    BY <1>1, <2>1, PercentWithin
  <2> DEFINE d == To!CouponDiscount(order)
             share == To!Percent(net, c.value)
  <2>3. d = CASE c.type = "Percentage" -> (IF c.max > 0 THEN To!Least(share, c.max) ELSE share)
              [] c.type = "Fixed Amount" -> To!Least(c.value, net)
              [] OTHER -> 0
    BY <1>3 DEF To!CouponDiscount
  <2> HIDE DEF d, share, net, c
  <2>4. CASE c.type = "Percentage"
    <3>1. share \in Nat /\ share <= net
      BY <2>2, <2>4 DEF share
    <3>2. d = IF c.max > 0 THEN To!Least(share, c.max) ELSE share
      BY <2>3, <2>4
    <3> QED BY <1>1, <2>1, <3>1, <3>2 DEF To!Least, d, net
  <2>5. CASE c.type = "Fixed Amount"
    <3>1. d = To!Least(c.value, net)
      BY <2>3, <2>5
    <3> QED BY <1>1, <2>1, <3>1 DEF To!Least, d, net
  <2>6. CASE c.type # "Percentage" /\ c.type # "Fixed Amount"
    <3>1. d = 0
      BY <2>3, <2>6
    <3> QED BY <1>1, <3>1 DEF d, net
  <2> QED BY <2>4, <2>5, <2>6
<1> QED
  BY <1>2, <1>3

LEMMA OnboardingWithin ==
    To!OrderTotalsTypeOK => /\ To!OnboardingDiscount(order) \in Nat
                            /\ To!OwedAfterOnboarding(order) \in Nat
<1> SUFFICES ASSUME To!OrderTotalsTypeOK
             PROVE  /\ To!OnboardingDiscount(order) \in Nat
                    /\ To!OwedAfterOnboarding(order) \in Nat
  OBVIOUS
<1> DEFINE net == To!NetTotal(order)
           coupon == To!CouponDiscount(order)
           pct == IF order.sequence \in {1, 2} THEN OnboardPct[order.sequence] ELSE 0
           share == To!Percent(net - coupon, pct)
           d == To!OnboardingDiscount(order)
<1>1. net \in Nat /\ coupon \in Nat /\ coupon <= net
  BY NetType, CouponWithin
<1>2. pct \in 0..100 /\ OnboardMax \in Nat
  <2>1. OnboardPct \in [1..2 -> 0..100] /\ OnboardMax \in Nat
    BY TotalsAssumption
  <2> QED BY <2>1
<1>3. d = To!AtLeastZero(IF OnboardMax > 0 THEN To!Least(share, OnboardMax) ELSE share)
  BY DEF To!OnboardingDiscount
<1>4. To!OwedAfterOnboarding(order) = net - coupon - d
  BY DEF To!OwedAfterOnboarding
<1> HIDE DEF net, coupon, pct, d
<1>5. net - coupon \in Nat
  BY <1>1
<1>6. share \in Nat /\ share <= net - coupon
  BY <1>2, <1>5, PercentWithin
<1> HIDE DEF share
<1>7. d \in Nat /\ d <= net - coupon
  BY <1>2, <1>3, <1>5, <1>6 DEF To!AtLeastZero, To!Least
<1>8. net - coupon - d \in Nat
  BY <1>1, <1>7
<1> QED
  BY <1>4, <1>7, <1>8 DEF d

-----------------------------------------------------------------------------
\* The rule of a line: there is at most one, and the least specificity decides.
LEMMA LeastIsMin ==
    ASSUME NEW S \in SUBSET Nat, S # {}
    PROVE  To!Min(S) \in S /\ \A n \in S : To!Min(S) <= n
<1>1. \E x \in S : \A y \in S : x <= y
  BY LeastExists
<1> QED
  BY <1>1 DEF To!Min

LEMMA SpecificitiesType == \A r, p : To!Specificities(r, p) \in SUBSET Nat
<1> SUFFICES ASSUME NEW r, NEW p PROVE To!Specificities(r, p) \in SUBSET Nat
  OBVIOUS
<1> DEFINE up == To!Ancestry(CategoryOf[p])
<1>1. To!Specificities(r, p) =
        CASE r.scope = "All Products" -> {1000}
          [] r.scope = "Brand" -> IF BrandOf[p] = r.target THEN {0} ELSE {}
          [] OTHER -> {n \in 0..3 : up[n] = r.target}
  BY DEF To!Specificities
<1> HIDE DEF up
<1>2. CASE r.scope = "All Products"
  <2>1. To!Specificities(r, p) = {1000}
    BY <1>1, <1>2
  <2> QED BY <2>1
<1>3. CASE r.scope = "Brand"
  <2>1. To!Specificities(r, p) = IF BrandOf[p] = r.target THEN {0} ELSE {}
    BY <1>1, <1>3
  <2> QED BY <2>1
<1>4. CASE r.scope # "All Products" /\ r.scope # "Brand"
  <2>1. To!Specificities(r, p) = {n \in 0..3 : up[n] = r.target}
    BY <1>1, <1>4
  <2>2. {n \in 0..3 : up[n] = r.target} \subseteq Nat
    OBVIOUS
  <2> QED BY <2>1, <2>2
<1> QED
  BY <1>2, <1>3, <1>4

LEMMA PickedIsOne ==
    ASSUME To!OrderTotalsTypeOK, order.plan # NoPlan, NEW i, NEW owed
    PROVE  /\ To!Picked(order, i, owed) \in SUBSET order.plan.rules
           /\ \A r, q \in To!Picked(order, i, owed) : r = q
<1> DEFINE R == To!RulesFor(order, i, owed)
           p == order.lines[i].product
           least(r) == To!Min(To!Specificities(r, p))
<1>1. R \in SUBSET order.plan.rules /\ \A r \in R : To!Specificities(r, p) # {}
  BY DEF To!RulesFor
<1>2. \A r \in R : least(r) \in Nat
  BY <1>1, SpecificitiesType, LeastIsMin
<1>3. /\ \A r \in order.plan.rules : r.priority \in Int /\ r.row \in Int
      /\ \A r, q \in order.plan.rules : r.row = q.row => r = q
  BY TotalsAssumption DEF To!OrderTotalsTypeOK
<1>4. /\ To!Picked(order, i, owed) \in SUBSET R
      /\ \A r \in To!Picked(order, i, owed) : \A q \in R : To!Precedes(r, q, p)
  BY DEF To!Picked
<1> HIDE DEF R, p
<1>5. \A r, q \in R : To!Precedes(r, q, p) /\ To!Precedes(q, r, p) => r = q
  <2> SUFFICES ASSUME NEW r \in R, NEW q \in R, To!Precedes(r, q, p), To!Precedes(q, r, p)
               PROVE  r.row = q.row
    BY <1>1, <1>3
  <2>1. /\ \/ least(r) < least(q)
           \/ least(r) = least(q) /\ r.priority < q.priority
           \/ least(r) = least(q) /\ r.priority = q.priority /\ r.row <= q.row
        /\ \/ least(q) < least(r)
           \/ least(q) = least(r) /\ q.priority < r.priority
           \/ least(q) = least(r) /\ q.priority = r.priority /\ q.row <= r.row
    BY DEF To!Precedes
  <2>2. least(r) \in Nat /\ least(q) \in Nat /\ r.priority \in Int /\ q.priority \in Int
        /\ r.row \in Int /\ q.row \in Int
    BY <1>1, <1>2, <1>3
  <2> HIDE DEF least
  <2> QED BY <2>1, <2>2
<1> QED
  BY <1>1, <1>4, <1>5

LEMMA SpecificWins == To!OrderTotalsTypeOK => To!SpecificRuleWins
<1> SUFFICES ASSUME To!OrderTotalsTypeOK, order.plan # NoPlan, NEW i \in DOMAIN order.lines,
                    NEW owed, NEW p, p = order.lines[i].product,
                    NEW r \in To!Picked(order, i, owed), NEW q \in To!RulesFor(order, i, owed),
                    0 \in To!Specificities(q, p)
             PROVE  0 \in To!Specificities(r, p)
  BY DEF To!SpecificRuleWins
<1> DEFINE a == To!Min(To!Specificities(r, p))
           b == To!Min(To!Specificities(q, p))
<1>1. r \in To!RulesFor(order, i, owed) /\ To!Precedes(r, q, p)
  BY DEF To!Picked
<1>2. a < b \/ a = b
  BY <1>1 DEF To!Precedes
<1>3. /\ To!Specificities(r, p) \in SUBSET Nat /\ To!Specificities(r, p) # {}
      /\ To!Specificities(q, p) \in SUBSET Nat /\ To!Specificities(q, p) # {}
  BY <1>1, SpecificitiesType DEF To!RulesFor
<1>4. a \in To!Specificities(r, p) /\ a \in Nat /\ b \in Nat /\ b <= 0
  BY <1>3, LeastIsMin
<1> HIDE DEF a, b
<1>5. a = 0
  BY <1>2, <1>4
<1> QED
  BY <1>4, <1>5

-----------------------------------------------------------------------------
(* What a membership charges, and what its ledger says of it.              *)

\* A rule's share of the first n lines: lines it is not picked for add nothing.
LEMMA RuleTotalSteps ==
    ASSUME NEW o, NEW r, r.cap \in Int, NEW picks
    PROVE  /\ To!RuleTotal(o, r, 0, picks) = 0
           /\ \A n \in Nat : r \notin picks[n + 1] =>
                 To!RuleTotal(o, r, n + 1, picks) = To!RuleTotal(o, r, n, picks)
<1>1. To!RuleTotal(o, r, 0, picks) = 0
  <2> DEFINE S == {i \in 1..0 : r \in picks[i]}
             P(g) == [s \in SUBSET S |-> IF s = {} THEN 0
                        ELSE To!Saved(r, o.lines[Any(s)].amount) + g[s \ {Any(s)}]]
             F == CHOOSE g : g = P(g)
  <2>1. To!RuleTotal(o, r, 0, picks) = IF r.cap > 0 THEN To!Least(F[S], r.cap) ELSE F[S]
    BY DEF To!RuleTotal, To!SumOf, To!MapThenSumSet, To!MapThenFoldSet, Any
  <2>2. S = {}
    OBVIOUS
  <2> HIDE DEF S
  <2>3. \E g : g = P(g)
    <3>1. [s \in SUBSET S |-> 0] = P([s \in SUBSET S |-> 0])
      BY <2>2
    <3> QED BY <3>1
  <2>4. F = P(F)
    <3> HIDE DEF P
    <3> QED BY <2>3
  <2> HIDE DEF F
  <2>5. F[S] = 0
    BY <2>2, <2>4
  <2> QED BY <2>1, <2>5 DEF To!Least
<1>2. ASSUME NEW n \in Nat, r \notin picks[n + 1]
      PROVE  To!RuleTotal(o, r, n + 1, picks) = To!RuleTotal(o, r, n, picks)
  <2>1. {i \in 1..(n + 1) : r \in picks[i]} = {i \in 1..n : r \in picks[i]}
    <3>1. \A i : i \in 1..(n + 1) <=> i \in 1..n \/ i = n + 1
      OBVIOUS
    <3> QED BY <1>2, <3>1
  <2> QED BY <2>1 DEF To!RuleTotal
<1> QED
  BY <1>1, <1>2

LEMMA RuleTotalType ==
    ASSUME NEW o, NEW r, r.cap \in Int, r.value \in Int, NEW picks, NEW n \in Nat,
           \A i \in 1..n : o.lines[i].amount \in Int
    PROVE  To!RuleTotal(o, r, n, picks) \in Int
<1> DEFINE S == {i \in 1..n : r \in picks[i]}
           w == [i \in 1..n |-> To!Saved(r, o.lines[i].amount)]
           P(g) == [s \in SUBSET S |-> IF s = {} THEN 0
                      ELSE To!Saved(r, o.lines[Any(s)].amount) + g[s \ {Any(s)}]]
           F == CHOOSE g : g = P(g)
<1>1. To!RuleTotal(o, r, n, picks) = IF r.cap > 0 THEN To!Least(F[S], r.cap) ELSE F[S]
  BY DEF To!RuleTotal, To!SumOf, To!MapThenSumSet, To!MapThenFoldSet, Any
<1>2. IsFiniteSet(S) /\ S \subseteq 1..n
  <2>1. S \in SUBSET (1..n) /\ IsFiniteSet(1..n)
    BY FS_Interval
  <2> HIDE DEF S
  <2> QED BY <2>1, FS_Subset
<1>3. \A i \in S : w[i] = To!Saved(r, o.lines[i].amount) /\ w[i] \in Int
  <2>1. \A i \in 1..n : To!Saved(r, o.lines[i].amount) \in Int
    BY PercentType, LeastType DEF To!Saved
  <2> QED BY <1>2, <2>1
<1> HIDE DEF S, w
<1>4. \A g : P(g) = Step(w, S, g)
  BY <1>3, AnyIs DEF Step
<1>5. Sums(w, S) = P(Sums(w, S))
  BY <1>2, <1>4, SumsExist
<1>6. F = P(F)
  <2> HIDE DEF P
  <2> QED BY <1>5
<1> HIDE DEF F
<1>7. F[S] = SumFunctionOnSet(w, S)
  BY <1>2, <1>4, <1>6, SumIsUnique
<1>8. F[S] \in Int
  BY <1>2, <1>3, <1>7, SumType
<1> QED
  BY <1>1, <1>8, LeastType

LEMMA LineSavingIs ==
    ASSUME NEW o, NEW i, NEW picks, IsFiniteSet(picks[i]), NEW w,
           \A r \in picks[i] : w[r] = To!RuleTotal(o, r, i, picks) - To!RuleTotal(o, r, i - 1, picks)
    PROVE  To!LineSaving(o, i, picks) = SumFunctionOnSet(w, picks[i])
<1> DEFINE S == picks[i]
           P(g) == [s \in SUBSET S |-> IF s = {} THEN 0
                      ELSE (To!RuleTotal(o, Any(s), i, picks)
                              - To!RuleTotal(o, Any(s), i - 1, picks)) + g[s \ {Any(s)}]]
           F == CHOOSE g : g = P(g)
<1>1. To!LineSaving(o, i, picks) = F[S]
  BY DEF To!LineSaving, To!SumOf, To!MapThenSumSet, To!MapThenFoldSet, Any
<1>2. IsFiniteSet(S) /\ \A r \in S :
         w[r] = To!RuleTotal(o, r, i, picks) - To!RuleTotal(o, r, i - 1, picks)
  OBVIOUS
<1> HIDE DEF S
<1>3. \A g : P(g) = Step(w, S, g)
  BY <1>2, AnyIs DEF Step
<1>4. Sums(w, S) = P(Sums(w, S))
  BY <1>2, <1>3, SumsExist
<1>5. F = P(F)
  <2> HIDE DEF P
  <2> QED BY <1>4
<1> HIDE DEF F
<1> QED
  BY <1>1, <1>2, <1>3, <1>5, SumIsUnique DEF S

\* The savings of N lines and the rows of the rules picked for them.
SavedBy(o, rules, N, picks, savings, rs) ==
    /\ IsFiniteSet(rules) /\ \A r \in rules : r.cap \in Int /\ r.value \in Int
    /\ N \in Nat /\ \A i \in 1..N : /\ o.lines[i].amount \in Int /\ picks[i] \in SUBSET rules
                                   /\ savings[i] = To!LineSaving(o, i, picks)
    /\ \A r \in rules : rs[r] = To!RuleTotal(o, r, N, picks)

\* They are the same money.
LEMMA RowsAreSavings ==
    ASSUME NEW o, NEW rules, NEW N, NEW picks, NEW savings, NEW rs,
           SavedBy(o, rules, N, picks, savings, rs)
    PROVE  /\ SumFunctionOnSet(rs, rules) = SumFunctionOnSet(savings, 1..N)
           /\ \A i \in 1..N : savings[i] \in Int
           /\ \A r \in rules : rs[r] \in Int
<1> USE DEF SavedBy
<1> DEFINE RT == [k \in 0..N |-> [r \in rules |-> To!RuleTotal(o, r, k, picks)]]
           D == [k \in 1..N |-> [r \in rules |-> RT[k][r] - RT[k - 1][r]]]
           good == {k \in Nat : k <= N =>
                        SumFunctionOnSet(RT[k], rules) = SumFunctionOnSet(savings, 1..k)}
<1>1. \A k \in 0..N : \A r \in rules :
         RT[k][r] = To!RuleTotal(o, r, k, picks) /\ RT[k][r] \in Int
  <2> SUFFICES ASSUME NEW k \in 0..N, NEW r \in rules PROVE To!RuleTotal(o, r, k, picks) \in Int
    OBVIOUS
  <2>1. k \in Nat /\ \A i \in 1..k : o.lines[i].amount \in Int
    OBVIOUS
  <2> QED BY <2>1, RuleTotalType
<1>2. \A k \in 1..N : \A r \in rules :
         /\ D[k][r] = RT[k][r] - RT[k - 1][r] /\ D[k][r] \in Int
         /\ RT[k][r] = RT[k - 1][r] + D[k][r]
         /\ RT[k][r] \in Int /\ RT[k - 1][r] \in Int
  <2> SUFFICES ASSUME NEW k \in 1..N, NEW r \in rules
               PROVE  /\ D[k][r] = RT[k][r] - RT[k - 1][r] /\ D[k][r] \in Int
                      /\ RT[k][r] = RT[k - 1][r] + D[k][r]
                      /\ RT[k][r] \in Int /\ RT[k - 1][r] \in Int
    OBVIOUS
  <2>1. k \in 0..N /\ k - 1 \in 0..N
    OBVIOUS
  <2>2. RT[k][r] \in Int /\ RT[k - 1][r] \in Int
    BY <1>1, <2>1
  <2> HIDE DEF RT
  <2> QED BY <2>2
<1>3. \A k \in 1..N : \A r \in rules \ picks[k] : D[k][r] = 0
  <2> SUFFICES ASSUME NEW k \in 1..N, NEW r \in rules \ picks[k] PROVE D[k][r] = 0
    OBVIOUS
  <2> DEFINE n == k - 1
  <2>1. n \in Nat /\ n + 1 = k /\ k \in 0..N /\ n \in 0..N /\ r.cap \in Int
    OBVIOUS
  <2> HIDE DEF n
  <2>0. \A m \in Nat : r \notin picks[m + 1] =>
            To!RuleTotal(o, r, m + 1, picks) = To!RuleTotal(o, r, m, picks)
    BY <2>1, RuleTotalSteps
  <2>2. To!RuleTotal(o, r, k, picks) = To!RuleTotal(o, r, n, picks)
    BY <2>0, <2>1
  <2>3. RT[k][r] = RT[k - 1][r] /\ RT[k][r] \in Int
    BY <1>1, <2>1, <2>2 DEF n
  <2> HIDE DEF RT
  <2> QED BY <2>3
<1>4. \A k \in 1..N : savings[k] = SumFunctionOnSet(D[k], rules) /\ savings[k] \in Int
  <2> SUFFICES ASSUME NEW k \in 1..N
               PROVE  savings[k] = SumFunctionOnSet(D[k], rules) /\ savings[k] \in Int
    OBVIOUS
  <2>1. k \in 0..N /\ k - 1 \in 0..N /\ IsFiniteSet(picks[k]) /\ picks[k] \in SUBSET rules
    BY FS_Subset
  <2>2. \A r \in picks[k] : D[k][r] = To!RuleTotal(o, r, k, picks)
                                        - To!RuleTotal(o, r, k - 1, picks)
    BY <1>1, <1>2, <2>1
  <2> HIDE DEF D, RT
  <2> DEFINE w == D[k]
  <2>3. \A r \in rules : w[r] \in Int
    BY <1>2
  <2>4. \A r \in rules \ picks[k] : w[r] = 0
    BY <1>3
  <2>5. \A r \in picks[k] : w[r] = To!RuleTotal(o, r, k, picks) - To!RuleTotal(o, r, k - 1, picks)
    BY <2>2
  <2> HIDE DEF w
  <2>6. To!LineSaving(o, k, picks) = SumFunctionOnSet(w, picks[k])
    BY <2>1, <2>5, LineSavingIs
  <2>7. SumFunctionOnSet(w, rules) = SumFunctionOnSet(w, picks[k])
    BY <2>1, <2>3, <2>4, SumOfSupport
  <2>8. SumFunctionOnSet(w, rules) \in Int
    BY <2>3, SumType
  <2> QED BY <2>6, <2>7, <2>8 DEF w
<1>5. 0 \in good
  <2>1. 1..0 = {} /\ 0 \in 0..N
    OBVIOUS
  <2> DEFINE w == RT[0]
  <2>2. \A r \in rules : w[r] = 0
    BY <1>1, <2>1, RuleTotalSteps
  <2> HIDE DEF w
  <2>3. SumFunctionOnSet(w, rules) = SumFunctionOnSet(w, {})
    BY <2>2, SumOfSupport
  <2>4. SumFunctionOnSet(w, {}) = 0 /\ SumFunctionOnSet(savings, {}) = 0
    BY SumOfNone
  <2> QED BY <2>1, <2>3, <2>4 DEF w
<1> HIDE DEF RT, D
<1>6. ASSUME NEW k \in good PROVE k + 1 \in good
  <2> SUFFICES ASSUME k + 1 <= N
               PROVE  SumFunctionOnSet(RT[k + 1], rules) = SumFunctionOnSet(savings, 1..(k + 1))
    OBVIOUS
  <2>1. k \in Nat /\ k + 1 \in 1..N /\ k + 1 - 1 = k /\ k <= N
    OBVIOUS
  <2>2. SumFunctionOnSet(RT[k], rules) = SumFunctionOnSet(savings, 1..k)
    BY <2>1
  <2>3. \A r \in rules : /\ RT[k + 1][r] = RT[k][r] + D[k + 1][r]
                         /\ RT[k][r] \in Int /\ D[k + 1][r] \in Int
    BY <1>2, <2>1
  <2>4. SumFunctionOnSet(RT[k + 1], rules)
          = SumFunctionOnSet(RT[k], rules) + SumFunctionOnSet(D[k + 1], rules)
    <3> DEFINE u == RT[k + 1]
               v == RT[k]
               w == D[k + 1]
    <3>1. \A r \in rules : v[r] \in Int /\ w[r] \in Int /\ u[r] = v[r] + w[r]
      BY <2>3
    <3> HIDE DEF u, v, w
    <3>2. SumFunctionOnSet(u, rules) = SumFunctionOnSet(v, rules) + SumFunctionOnSet(w, rules)
      BY <3>1, SumOfSums
    <3> QED BY <3>2 DEF u, v, w
  <2>5. /\ 1..(k + 1) = (1..k) \cup {k + 1} /\ k + 1 \notin 1..k /\ IsFiniteSet(1..k)
        /\ 1..k \subseteq 1..N
    <3>1. 1..(k + 1) = (1..k) \cup {k + 1}
      <4>1. \A i : i \in 1..(k + 1) <=> i \in 1..k \/ i = k + 1
        BY <2>1
      <4> QED BY <4>1
    <3>2. IsFiniteSet(1..k)
      BY <2>1, FS_Interval
    <3> QED BY <2>1, <3>1, <3>2
  <2>6. savings[k + 1] \in Int /\ \A i \in 1..k : savings[i] \in Int
    BY <1>4, <2>1, <2>5
  <2>7. SumFunctionOnSet(savings, (1..k) \cup {k + 1})
          = savings[k + 1] + SumFunctionOnSet(savings, 1..k)
    BY <2>5, <2>6, SumWith
  <2>8. SumFunctionOnSet(savings, 1..k) \in Int
    BY <2>5, <2>6, SumType
  <2>9. savings[k + 1] = SumFunctionOnSet(D[k + 1], rules)
    BY <1>4, <2>1
  <2> DEFINE x == SumFunctionOnSet(savings, 1..k)
             y == savings[k + 1]
  <2>10. x \in Int /\ y \in Int /\ x + y = y + x
    BY <2>6, <2>8
  <2>11. SumFunctionOnSet(RT[k + 1], rules) = x + y
    BY <2>2, <2>4, <2>9
  <2>12. SumFunctionOnSet(savings, 1..(k + 1)) = y + x
    BY <2>5, <2>7
  <2> HIDE DEF x, y
  <2> QED BY <2>10, <2>11, <2>12
<1>7. good = Nat
  <2>1. good \in SUBSET Nat
    OBVIOUS
  <2> HIDE DEF good
  <2> QED BY <1>5, <1>6, <2>1, NatInd
<1>8. SumFunctionOnSet(RT[N], rules) = SumFunctionOnSet(savings, 1..N)
  <2>1. N <= N
    OBVIOUS
  <2> QED BY <1>7, <2>1
<1>9. \A r \in rules : rs[r] = RT[N][r] /\ rs[r] \in Int
  <2>1. N \in 0..N
    OBVIOUS
  <2> QED BY <1>1, <2>1
<1>10. SumFunctionOnSet(rs, rules) = SumFunctionOnSet(RT[N], rules)
  <2> DEFINE w == RT[N]
  <2>1. \A r \in rules : rs[r] = w[r]
    BY <1>9
  <2> HIDE DEF w
  <2>2. SumFunctionOnSet(rs, rules) = SumFunctionOnSet(w, rules)
    BY <2>1, SumOfSame
  <2> QED BY <2>2 DEF w
<1> QED
  BY <1>4, <1>8, <1>9, <1>10

\* A share, rounded to the nearest, is off by half at most.
LEMMA ShareRounds ==
    ASSUME NEW a \in Int, NEW c \in Int, NEW t \in Nat \ {0}
    PROVE  LET u == (2 * a * c + t) \div (2 * t)
           IN /\ u \in Int /\ 2 * t * u <= 2 * c * a + t /\ 2 * t * u >= 2 * c * a - t
              /\ a = 0 => u = 0
<1> DEFINE x == 2 * a * c + t
           b == 2 * t
           u == x \div b
           y == 2 * c * a
<1>1. x \in Int /\ b \in Nat \ {0} /\ y \in Int /\ x = y + t
  OBVIOUS
<1>2. u \in Int /\ b * u <= x /\ x < b * u + b
  <2> HIDE DEF x, b
  <2> QED BY <1>1
<1>3. a = 0 => u = 0
  <2> SUFFICES ASSUME a = 0 PROVE u = 0
    OBVIOUS
  <2>1. x = t /\ 0 <= x /\ x < b
    OBVIOUS
  <2>2. \A v \in Int : b * v <= x /\ x < b * v + b => v = 0
    <3> SUFFICES ASSUME NEW v \in Int, b * v <= x, x < b * v + b PROVE v = 0
      OBVIOUS
    <3>1. CASE v >= 1
      <4>1. b * v >= b
        <5> HIDE DEF b, x
        <5>1. v - 1 \in Nat
          BY <3>1
        <5>2. b * (v - 1) \in Nat
          BY <1>1, <5>1
        <5>3. b * (v - 1) = b * v - b
          BY <1>1
        <5> QED BY <1>1, <5>2, <5>3
      <4> QED BY <1>1, <2>1, <4>1
    <3>2. CASE v <= -1
      <4>1. b * v + b <= 0
        <5> HIDE DEF b, x
        <5>1. - 1 - v \in Nat
          BY <3>2
        <5>2. b * (- 1 - v) \in Nat
          BY <1>1, <5>1
        <5>3. b * (- 1 - v) = - b - b * v
          BY <1>1
        <5> QED BY <1>1, <5>2, <5>3
      <4> QED BY <1>1, <2>1, <4>1
    <3> QED BY <3>1, <3>2
  <2> HIDE DEF u, x, b
  <2> QED BY <1>2, <2>2
<1> HIDE DEF u
<1>4. b * u <= y + t /\ b * u >= y - t
  <2> DEFINE z == b * u
  <2>1. z \in Int
    BY <1>1, <1>2
  <2>2. z <= x /\ x < z + b
    BY <1>2
  <2>3. b = 2 * t
    OBVIOUS
  <2> HIDE DEF z, x, b, y
  <2> QED BY <1>1, <2>1, <2>2, <2>3 DEF z
<1>5. u = (2 * a * c + t) \div (2 * t)
  BY DEF u
<1> HIDE DEF x
<1> QED
  BY <1>2, <1>3, <1>4, <1>5 DEF b, y

\* What is charged and what the ledger says, from the sums of both.
LEMMA LedgerCoversAny ==
    ASSUME To!OrderTotalsTypeOK, order.plan # NoPlan, NEW owed
    PROVE  /\ To!Resolve(order, owed).discount \in Int /\ To!Resolve(order, owed).ledger \in Int
           /\ To!Resolve(order, owed).discount
                <= To!Resolve(order, owed).ledger + Len(order.lines)
<1> DEFINE lines == DOMAIN order.lines
           rules == order.plan.rules
           cap == order.plan.cap
           N == Len(order.lines)
           picks == [i \in lines |-> To!Picked(order, i, owed)]
           savings == [i \in lines |-> To!LineSaving(order, i, picks)]
           rs == [r \in rules |-> To!RuleTotal(order, r, N, picks)]
           total == To!SumFunction(savings)
           charged == [i \in lines |-> To!Scaled(order, savings[i], total)]
           written == [r \in rules |-> To!Scaled(order, rs[r], total)]
           discount == SumFunctionOnSet(charged, lines)
           ledger == SumFunctionOnSet(written, rules)
<1>1. /\ To!Resolve(order, owed).discount = discount
      /\ To!Resolve(order, owed).ledger = ledger
      /\ total = SumFunctionOnSet(savings, lines)
  <2>1. \A f : To!SumFunction(f) = SumFunctionOnSet(f, DOMAIN f)
    BY SumOfTable DEF To!SumFunction
  <2>2. /\ To!Resolve(order, owed).discount = To!SumFunction(charged)
        /\ To!Resolve(order, owed).ledger = To!SumFunction(written)
    BY DEF To!Resolve
  <2>3. DOMAIN charged = lines /\ DOMAIN written = rules /\ DOMAIN savings = lines
    OBVIOUS
  <2> HIDE DEF charged, written, savings
  <2> QED BY <2>1, <2>2, <2>3
<1>2. N \in Nat /\ lines = 1..N /\ \A i \in 1..N : order.lines[i].amount \in Int
  <2>1. order.lines \in Baskets
    BY DEF To!OrderTotalsTypeOK
  <2>2. \A b \in Baskets :
          Len(b) \in Nat /\ DOMAIN b = 1..Len(b) /\ \A i \in DOMAIN b : b[i].amount \in Nat
    BY TotalsAssumption
  <2> QED BY <2>1, <2>2
<1>3. /\ IsFiniteSet(rules) /\ cap \in Int
      /\ \A r \in rules : r.cap \in Int /\ r.value \in Int
  <2>1. order.plan \in Plans \ {NoPlan}
    BY DEF To!OrderTotalsTypeOK
  <2>2. \A p \in Plans \ {NoPlan} :
          IsFiniteSet(p.rules) /\ p.cap \in Int /\ \A r \in p.rules : r.cap \in Int /\ r.value \in Int
    BY TotalsAssumption
  <2> QED BY <2>1, <2>2
<1>4. \A i \in 1..N : picks[i] \in SUBSET rules /\ \A r, q \in picks[i] : r = q
  BY <1>2, PickedIsOne
<1>5. /\ SumFunctionOnSet(rs, rules) = total
      /\ \A i \in lines : savings[i] \in Int
      /\ \A r \in rules : rs[r] \in Int
  <2>1. \A i \in 1..N : savings[i] = To!LineSaving(order, i, picks)
    BY <1>2
  <2>2. \A r \in rules : rs[r] = To!RuleTotal(order, r, N, picks)
    OBVIOUS
  <2> HIDE DEF savings, rs, picks, lines, N, rules
  <2>3. \A i \in 1..N : picks[i] \in SUBSET rules
    BY <1>4
  <2> DEFINE o == order
  <2>5. SavedBy(o, rules, N, picks, savings, rs)
    BY <1>2, <1>3, <2>1, <2>2, <2>3 DEF SavedBy
  <2> HIDE DEF o
  <2>4. /\ SumFunctionOnSet(rs, rules) = SumFunctionOnSet(savings, 1..N)
        /\ \A i \in 1..N : savings[i] \in Int
        /\ \A r \in rules : rs[r] \in Int
    BY <2>5, RowsAreSavings
  <2> QED BY <1>1, <1>2, <2>4
<1>6. total \in Int /\ IsFiniteSet(lines) /\ Cardinality(lines) = N
  <2>1. IsFiniteSet(lines) /\ Cardinality(lines) = N
    <3> HIDE DEF lines, N
    <3> QED BY <1>2, FS_Interval
  <2> HIDE DEF savings, lines
  <2>2. lines \in SUBSET lines
    OBVIOUS
  <2>3. SumFunctionOnSet(savings, lines) \in Int
    BY <1>5, <2>1, <2>2, SumType
  <2> QED BY <1>1, <2>1, <2>3
<1>7. CASE ~(cap > 0 /\ total > cap)
  <2>1. \A a : To!Scaled(order, a, total) = a
    BY <1>7 DEF To!Scaled
  <2>2. (\A i \in lines : charged[i] = savings[i]) /\ \A r \in rules : written[r] = rs[r]
    BY <2>1
  <2> HIDE DEF charged, written, savings, rs, lines, rules
  <2>3. discount = SumFunctionOnSet(savings, lines) /\ ledger = SumFunctionOnSet(rs, rules)
    BY <1>3, <1>6, <2>2, SumOfSame
  <2>4. discount = total /\ ledger = total
    BY <1>1, <1>5, <2>3
  <2> HIDE DEF discount, ledger, total, N
  <2> QED BY <1>1, <1>2, <1>6, <2>4 DEF N
<1>8. CASE cap > 0 /\ total > cap
  <2> DEFINE A == {r \in rules : rs[r] # 0}
  <2>1. total \in Nat \ {0} /\ cap \in Nat
    BY <1>3, <1>6, <1>8
  <2>2. \A a \in Int : LET u == To!Scaled(order, a, total)
                       IN /\ u \in Int /\ 2 * total * u <= 2 * cap * a + total
                          /\ 2 * total * u >= 2 * cap * a - total /\ (a = 0 => u = 0)
    <3> SUFFICES ASSUME NEW a \in Int
                 PROVE  LET u == To!Scaled(order, a, total)
                        IN /\ u \in Int /\ 2 * total * u <= 2 * cap * a + total
                           /\ 2 * total * u >= 2 * cap * a - total /\ (a = 0 => u = 0)
      OBVIOUS
    <3>1. To!Scaled(order, a, total) = (2 * a * cap + total) \div (2 * total)
      BY <1>8 DEF To!Scaled
    <3> HIDE DEF total, cap
    <3> QED BY <1>3, <2>1, <3>1, ShareRounds
  <2>3. \A i \in lines : /\ charged[i] \in Int /\ savings[i] \in Int
                         /\ 2 * total * charged[i] <= 2 * cap * savings[i] + total
    <3>1. \A i \in lines : charged[i] = To!Scaled(order, savings[i], total)
      OBVIOUS
    <3> HIDE DEF charged, savings, total, lines, cap
    <3> QED BY <1>5, <2>2, <3>1
  <2>4. \A r \in rules : /\ written[r] \in Int /\ (rs[r] = 0 => written[r] = 0)
                         /\ 2 * total * written[r] >= 2 * cap * rs[r] - total
    <3>1. \A r \in rules : written[r] = To!Scaled(order, rs[r], total)
      OBVIOUS
    <3> HIDE DEF written, rs, total, rules, cap
    <3> QED BY <1>5, <2>2, <3>1
  <2>5. A \in SUBSET rules /\ IsFiniteSet(A) /\ Cardinality(A) \in Nat /\ Cardinality(A) <= N
    <3>1. A \in SUBSET rules
      OBVIOUS
    <3>2. IsFiniteSet(A) /\ Cardinality(A) \in Nat
      BY <1>3, <3>1, FS_Subset, FS_CardinalityType
    <3>3. \A r \in A : \E i \in 1..N : r \in picks[i]
      <4> SUFFICES ASSUME NEW r \in A, \A i \in 1..N : r \notin picks[i] PROVE rs[r] = 0
        OBVIOUS
      <4>1. rs[r] = To!RuleTotal(order, r, N, picks) /\ r.cap \in Int
        BY <1>3
      <4> HIDE DEF picks, N
      <4>2. {i \in 1..N : r \in picks[i]} = {i \in 1..0 : r \in picks[i]}
        OBVIOUS
      <4>3. To!RuleTotal(order, r, N, picks) = To!RuleTotal(order, r, 0, picks)
        BY <4>2 DEF To!RuleTotal
      <4>4. To!RuleTotal(order, r, 0, picks) = 0
        BY <4>1, RuleTotalSteps
      <4> QED BY <4>1, <4>3, <4>4
    <3> DEFINE where == [r \in A |-> CHOOSE i \in 1..N : r \in picks[i]]
    <3> HIDE DEF A, picks, N, rules
    <3>4. \A r \in A : where[r] \in 1..N /\ r \in picks[where[r]]
      BY <3>3
    <3>5. where \in [A -> 1..N] /\ \A r, q \in A : where[r] = where[q] => r = q
      BY <1>4, <3>4
    <3> HIDE DEF where
    <3>6. where \in Injection(A, 1..N)
      BY <3>5 DEF Injection, IsInjective
    <3>7. IsFiniteSet(1..N) /\ Cardinality(1..N) = N
      BY <1>2, <1>6
    <3>8. Cardinality(A) <= N
      BY <3>6, <3>7, FS_Injection
    <3> QED BY <3>1, <3>2, <3>8
  <2> DEFINE k == Cardinality(A)
             less == [r \in A |-> - written[r]]
             lost == [r \in A |-> - rs[r]]
  <2>6. /\ ledger = SumFunctionOnSet(written, A) /\ total = SumFunctionOnSet(rs, A)
        /\ discount \in Int /\ ledger \in Int
    <3> HIDE DEF written, rs, rules, charged, lines
    <3>1. (\A r \in rules \ A : written[r] = 0 /\ rs[r] = 0)
      BY <2>4
    <3> HIDE DEF A
    <3>2. SumFunctionOnSet(written, rules) = SumFunctionOnSet(written, A)
      BY <1>3, <2>4, <2>5, <3>1, SumOfSupport
    <3>3. SumFunctionOnSet(rs, rules) = SumFunctionOnSet(rs, A)
      BY <1>3, <1>5, <2>5, <3>1, SumOfSupport
    <3>4. lines \in SUBSET lines /\ rules \in SUBSET rules
      OBVIOUS
    <3>5. SumFunctionOnSet(charged, lines) \in Int
      BY <1>6, <2>3, <3>4, SumType
    <3>6. SumFunctionOnSet(written, rules) \in Int
      BY <1>3, <2>4, <3>4, SumType
    <3> QED BY <1>5, <3>2, <3>3, <3>5, <3>6
  <2>7. 2 * total * discount <= 2 * cap * total + total * N
    <3> HIDE DEF charged, savings, lines, total, cap, N
    <3>1. 2 * total * SumFunctionOnSet(charged, lines)
            <= 2 * cap * SumFunctionOnSet(savings, lines) + total * Cardinality(lines)
      BY <1>3, <1>6, <2>3, SumOfShares
    <3> QED BY <1>1, <1>6, <3>1
  <2>8. 2 * total * (- ledger) <= 2 * cap * (- total) + total * k
    <3>1. \A r \in A : /\ less[r] = - written[r] /\ lost[r] = - rs[r] /\ rs[r] \in Int
                       /\ written[r] \in Int
                       /\ 2 * total * written[r] >= 2 * cap * rs[r] - total
      BY <1>5, <2>4
    <3> HIDE DEF A, less, lost, written, rs, total, cap
    <3>2. \A r \in A : /\ less[r] \in Int /\ lost[r] \in Int
                       /\ 2 * total * less[r] <= 2 * cap * lost[r] + total
      <4> SUFFICES ASSUME NEW r \in A
                   PROVE  /\ less[r] \in Int /\ lost[r] \in Int
                          /\ 2 * total * less[r] <= 2 * cap * lost[r] + total
        OBVIOUS
      <4> DEFINE x == written[r]
                 y == rs[r]
      <4>1. x \in Int /\ y \in Int /\ 2 * total * x >= 2 * cap * y - total
        BY <3>1
      <4>2. less[r] = - x /\ lost[r] = - y
        BY <3>1
      <4>3. 2 * total * (- x) = - (2 * total * x) /\ 2 * cap * (- y) = - (2 * cap * y)
        BY <2>1, <4>1
      <4>4. 2 * total * x \in Int /\ 2 * cap * y \in Int
        BY <2>1, <4>1
      <4> HIDE DEF x, y
      <4> QED BY <2>1, <4>1, <4>2, <4>3, <4>4
    <3>3. 2 * total * SumFunctionOnSet(less, A)
            <= 2 * cap * SumFunctionOnSet(lost, A) + total * Cardinality(A)
      BY <1>3, <1>6, <2>5, <3>2, SumOfShares
    <3>4. /\ SumFunctionOnSet(less, A) = (-1) * SumFunctionOnSet(written, A)
          /\ SumFunctionOnSet(lost, A) = (-1) * SumFunctionOnSet(rs, A)
      <4> DEFINE m == -1
      <4>1. /\ m \in Int
            /\ \A r \in A : written[r] \in Int /\ rs[r] \in Int
            /\ \A r \in A : less[r] = m * written[r] /\ lost[r] = m * rs[r]
        BY <3>1
      <4> HIDE DEF m
      <4>2. SumFunctionOnSet(less, A) = m * SumFunctionOnSet(written, A)
        BY <2>5, <4>1, SumOfMultiples
      <4>3. SumFunctionOnSet(lost, A) = m * SumFunctionOnSet(rs, A)
        BY <2>5, <4>1, SumOfMultiples
      <4> QED BY <4>2, <4>3 DEF m
    <3> HIDE DEF ledger
    <3>5. SumFunctionOnSet(less, A) = - ledger /\ SumFunctionOnSet(lost, A) = - total
      BY <1>6, <2>6, <3>4
    <3> QED BY <3>3, <3>5
  <2> HIDE DEF k, total, ledger, discount, cap, N
  <2>9. discount <= ledger + N
    <3> DEFINE x == discount - ledger
    <3>1. 2 * total * discount \in Int /\ 2 * total * ledger \in Int /\ 2 * cap * total \in Int
          /\ total * N \in Int /\ total * k \in Int
      BY <1>2, <2>1, <2>5, <2>6 DEF k
    <3>2. 2 * total * x = 2 * total * discount - 2 * total * ledger
      BY <2>1, <2>6
    <3>3. 2 * total * (- ledger) = - (2 * total * ledger) /\ 2 * cap * (- total) = - (2 * cap * total)
      BY <2>1, <2>6
    <3>4. 2 * total * x <= total * N + total * k
      BY <2>7, <2>8, <3>1, <3>2, <3>3
    <3>5. total * k <= total * N
      <4>1. N - k \in Nat
        BY <1>2, <2>5 DEF k
      <4>2. total * (N - k) \in Nat
        BY <2>1, <4>1
      <4>3. total * (N - k) = total * N - total * k
        BY <1>2, <2>1, <2>5 DEF k
      <4> QED BY <3>1, <4>2, <4>3
    <3>6. 2 * total * x <= 2 * total * N
      <4>1. 2 * total * N = total * N + total * N
        BY <1>2, <2>1
      <4>2. 2 * total * x \in Int
        BY <3>1, <3>2
      <4> QED BY <3>1, <3>4, <3>5, <4>1, <4>2
    <3>7. x \in Int
      BY <2>6
    <3> HIDE DEF x
    <3>8. x <= N
      <4> SUFFICES ASSUME x - N \in Nat \ {0} PROVE FALSE
        BY <1>2, <3>7
      <4> DEFINE d == 2 * total
      <4>1. d \in Nat \ {0}
        BY <2>1
      <4>2. d * (x - N) = d * x - d * N /\ d * x \in Int /\ d * N \in Int
        BY <1>2, <3>7, <4>1
      <4>3. d * x <= d * N
        BY <3>6
      <4> HIDE DEF d
      <4>4. d * (x - N) \in Nat \ {0}
        BY <4>1
      <4> QED BY <4>2, <4>3, <4>4
    <3> QED BY <1>2, <2>6, <3>7, <3>8 DEF x
  <2> QED BY <1>1, <2>6, <2>9 DEF N
<1> QED
  BY <1>7, <1>8

LEMMA MembershipWithin ==
    To!OrderTotalsTypeOK => /\ To!MembershipDiscount(order) \in Int
                            /\ To!MembershipDiscount(order) <= To!OwedAfterOnboarding(order)
                            /\ To!LedgerCoversCharge
<1> SUFFICES ASSUME To!OrderTotalsTypeOK
             PROVE  /\ To!MembershipDiscount(order) \in Int
                    /\ To!MembershipDiscount(order) <= To!OwedAfterOnboarding(order)
                    /\ To!LedgerCoversCharge
  OBVIOUS
<1> DEFINE owed == To!OwedAfterOnboarding(order)
           r == To!Resolve(order, owed)
           N == Len(order.lines)
<1>1. owed \in Nat
  BY OnboardingWithin
<1>2. N \in Nat
  BY TotalsAssumption DEF To!OrderTotalsTypeOK
<1>3. r.discount \in Int /\ r.ledger \in Int /\ r.discount <= r.ledger + N
  <2>1. CASE order.plan = NoPlan
    <3>1. r.discount = 0 /\ r.ledger = 0
      BY <2>1 DEF To!Resolve
    <3> QED BY <1>2, <3>1
  <2>2. CASE order.plan # NoPlan
    <3> HIDE DEF owed
    <3> QED BY <2>2, LedgerCoversAny
  <2> QED BY <2>1, <2>2
<1>4. To!MembershipDiscount(order) = To!Least(r.discount, To!AtLeastZero(owed))
  BY DEF To!MembershipDiscount
<1>5. To!LedgerCoversCharge <=> r.ledger + N >= To!MembershipDiscount(order)
  BY DEF To!LedgerCoversCharge
<1>6. To!AtLeastZero(owed) = owed
  BY <1>1, AtLeastZeroType
<1> DEFINE d == r.discount
           l == r.ledger
<1>7. d \in Int /\ l \in Int /\ d <= l + N
  BY <1>3
<1>8. To!MembershipDiscount(order) = IF d < owed THEN d ELSE owed
  BY <1>4, <1>6 DEF To!Least
<1> HIDE DEF d, l, owed, r, N
<1>9. IF d < owed THEN TRUE ELSE owed <= d
  BY <1>1, <1>7
<1>10. /\ To!MembershipDiscount(order) \in Int /\ To!MembershipDiscount(order) <= owed
       /\ l + N >= To!MembershipDiscount(order)
  BY <1>1, <1>2, <1>7, <1>8
<1> QED
  BY <1>5, <1>10 DEF l, owed

\* A redemption takes no more than is owed, and what it leaves it takes again.
LEMMA RedeemedWithin ==
    ASSUME To!OrderTotalsTypeOK
    PROVE  /\ \A n \in Int : /\ To!Redeemed(order, n) \in Int
                             /\ To!Redeemed(order, n)
                                  <= To!OwedAfterOnboarding(order) - To!MembershipDiscount(order)
           /\ \A n \in Int : LET twice == To!Redeemed(order, To!Redeemed(order, n))
                             IN To!Redeemed(order, twice) = twice
<1> DEFINE owed == To!OwedAfterOnboarding(order) - To!MembershipDiscount(order)
           most == To!Percent(owed, RedeemPct)
           b == order.balance
           R(n) == To!Redeemed(order, n)
<1>1. owed \in Nat
  BY OnboardingWithin, MembershipWithin
<1>2. RedeemPct \in 0..100 /\ MinRedeem \in Int /\ b \in Int
  BY TotalsAssumption DEF To!OrderTotalsTypeOK
<1>3. \A n : R(n) = IF n <= 0 \/ n < MinRedeem THEN 0
                    ELSE To!Least(To!Least(n, b), most)
  BY DEF To!Redeemed
<1> HIDE DEF owed, b
<1>4. most \in Nat /\ most <= owed
  BY <1>1, <1>2, PercentWithin
<1> HIDE DEF most, R
<1>5. \A n \in Int : /\ R(n) \in Int /\ R(n) <= owed
                     /\ R(n) # 0 => R(n) <= n /\ R(n) <= b /\ R(n) <= most
                     /\ n > 0 /\ n >= MinRedeem /\ n <= b /\ n <= most => R(n) = n
                     /\ n <= 0 \/ n < MinRedeem => R(n) = 0
  <2> SUFFICES ASSUME NEW n \in Int
               PROVE  /\ R(n) \in Int /\ R(n) <= owed
                      /\ R(n) # 0 => R(n) <= n /\ R(n) <= b /\ R(n) <= most
                      /\ n > 0 /\ n >= MinRedeem /\ n <= b /\ n <= most => R(n) = n
                      /\ n <= 0 \/ n < MinRedeem => R(n) = 0
    OBVIOUS
  <2>1. R(n) = IF n <= 0 \/ n < MinRedeem THEN 0 ELSE To!Least(To!Least(n, b), most)
    BY <1>3
  <2> DEFINE x == R(n)
  <2>2. x = IF n <= 0 \/ n < MinRedeem THEN 0
            ELSE IF (IF n < b THEN n ELSE b) < most THEN (IF n < b THEN n ELSE b) ELSE most
    BY <2>1 DEF To!Least
  <2> HIDE DEF x
  <2>3. /\ x \in Int /\ x <= owed
        /\ x # 0 => x <= n /\ x <= b /\ x <= most
        /\ n > 0 /\ n >= MinRedeem /\ n <= b /\ n <= most => x = n
        /\ n <= 0 \/ n < MinRedeem => x = 0
    BY <1>1, <1>2, <1>4, <2>2
  <2> QED BY <2>3 DEF x
<1>6. \A n \in Int : R(R(R(n))) = R(R(n))
  <2> SUFFICES ASSUME NEW n \in Int PROVE R(R(R(n))) = R(R(n))
    OBVIOUS
  <2> DEFINE x == R(n)
             y == R(x)
  <2>1. x \in Int /\ y \in Int /\ (x # 0 => x <= b /\ x <= most)
    BY <1>5
  <2>2. y = 0 \/ y = x
    <3> HIDE DEF x
    <3>1. CASE x <= 0 \/ x < MinRedeem
      BY <1>5, <2>1, <3>1
    <3>2. CASE x > 0 /\ x >= MinRedeem
      BY <1>5, <2>1, <3>2
    <3> QED BY <1>2, <2>1, <3>1, <3>2
  <2>3. R(0) = 0
    BY <1>5
  <2> QED BY <2>2, <2>3
<1> QED
  BY <1>5, <1>6 DEF R, owed

LEMMA Settles == To!OrderTotalsTypeOK => To!PricingSettles
<1> SUFFICES ASSUME To!OrderTotalsTypeOK PROVE To!PricingSettles
  OBVIOUS
<1> DEFINE R(n) == To!Redeemed(order, n)
           P(g) == [k \in 0..3 |-> IF k = 0 THEN order.points ELSE R(g[k - 1])]
           kept == CHOOSE g : g = P(g)
           a == order.points
           h == [k \in 0..3 |-> IF k = 0 THEN a ELSE IF k = 1 THEN R(a)
                                ELSE IF k = 2 THEN R(R(a)) ELSE R(R(R(a)))]
<1>1. To!PricingSettles <=> kept[3] = kept[2]
  BY DEF To!PricingSettles, To!PointsKept
<1>2. a \in Int
  BY TotalsAssumption DEF To!OrderTotalsTypeOK
<1>3. R(R(R(a))) = R(R(a))
  BY <1>2, RedeemedWithin
<1> HIDE DEF R
<1>4. h = P(h)
  <2>1. \A k \in 0..3 : h[k] = IF k = 0 THEN order.points ELSE R(h[k - 1])
    <3>1. \A k \in 0..3 : k \in {0, 1, 2, 3}
      OBVIOUS
    <3>2. h[0] = a /\ h[1] = R(a) /\ h[2] = R(R(a)) /\ h[3] = R(R(R(a)))
      OBVIOUS
    <3>3. h[0] = a /\ h[1] = R(h[0]) /\ h[2] = R(h[1]) /\ h[3] = R(h[2])
      BY <3>2
    <3> HIDE DEF h
    <3>4. 1 - 1 = 0 /\ 2 - 1 = 1 /\ 3 - 1 = 2
      OBVIOUS
    <3> QED BY <3>1, <3>3, <3>4
  <2>2. h = [k \in 0..3 |-> h[k]]
    OBVIOUS
  <2> HIDE DEF h
  <2> QED BY <2>1, <2>2
<1>5. kept = P(kept)
  <2> HIDE DEF P
  <2> QED BY <1>4
<1> HIDE DEF kept
<1>6. \A k \in 0..3 : kept[k] = IF k = 0 THEN a ELSE R(kept[k - 1])
  BY <1>5
<1>7. kept[0] = a /\ kept[1] = R(a) /\ kept[2] = R(R(a)) /\ kept[3] = R(R(R(a)))
  <2>1. kept[0] = a /\ kept[1] = R(kept[0]) /\ kept[2] = R(kept[1]) /\ kept[3] = R(kept[2])
    BY <1>6
  <2> QED BY <2>1
<1> QED
  BY <1>1, <1>3, <1>7

LEMMA WithinNet == To!OrderTotalsTypeOK => To!DiscountsWithinNet
<1> SUFFICES ASSUME To!OrderTotalsTypeOK PROVE To!DiscountsWithinNet
  OBVIOUS
<1> DEFINE net == To!NetTotal(order)
           taxes == To!TotalTaxes(order)
           coupon == To!CouponDiscount(order)
           onboard == To!OnboardingDiscount(order)
           member == To!MembershipDiscount(order)
           loyal == To!LoyaltyDiscount(order)
           carriage == IF To!CouponFreesDelivery(order) \/ To!PlanFreesDelivery(order)
                       THEN 0 ELSE order.delivery
<1>1. net \in Nat /\ taxes \in Int /\ coupon \in Nat /\ onboard \in Nat /\ member \in Int
  BY NetType, TaxesType, CouponWithin, OnboardingWithin, MembershipWithin
<1>2. loyal \in Int /\ loyal <= net - coupon - onboard - member
  <2>1. order.points \in Int
    BY TotalsAssumption DEF To!OrderTotalsTypeOK
  <2>2. loyal = To!Redeemed(order, order.points)
    BY DEF To!LoyaltyDiscount
  <2>3. To!OwedAfterOnboarding(order) = net - coupon - onboard
    BY DEF To!OwedAfterOnboarding
  <2> HIDE DEF loyal, net, coupon, onboard, member
  <2> QED BY <2>1, <2>2, <2>3, RedeemedWithin DEF member
<1>3. carriage \in Nat
  BY TotalsAssumption DEF To!OrderTotalsTypeOK
<1>4. To!TotalDiscount(order) = coupon + onboard + member + loyal
  BY DEF To!TotalDiscount
<1>5. To!GrandTotal(order) = To!AtLeastZero(net + taxes - To!TotalDiscount(order) + carriage)
  BY DEF To!GrandTotal
<1> HIDE DEF net, taxes, coupon, onboard, member, loyal, carriage
<1> DEFINE d == To!TotalDiscount(order)
<1>6. d \in Int /\ d <= net
  BY <1>1, <1>2, <1>4
<1>7. To!GrandTotal(order) = To!AtLeastZero(net + taxes - d + carriage)
  BY <1>5
<1> HIDE DEF d
<1>8. To!GrandTotal(order) >= taxes
  <2> DEFINE x == net + taxes - d + carriage
  <2>1. x \in Int /\ x >= taxes
    BY <1>1, <1>3, <1>6
  <2>2. To!GrandTotal(order) = IF x > 0 THEN x ELSE 0
    BY <1>7 DEF To!AtLeastZero
  <2> HIDE DEF x
  <2> QED BY <1>1, <2>1, <2>2
<1> QED
  BY <1>6, <1>8 DEF To!DiscountsWithinNet, d, net, taxes

\* However a basket, its taxes and the customer's coupon, plan, orders and points are
\* combined, the discounts stay within what the lines cost and the taxes are paid, a
\* price settles, the membership's ledger accounts for its charge to a paisa for
\* each line, and an exact rule is not outranked (api/totals.py, api/membership.py).
THEOREM DiscountsAreAlwaysSound == Spec => []DiscountsAreSound
<1>1. To!OrderTotalsTypeOK => DiscountsAreSound
  BY WithinNet, Settles, MembershipWithin, SpecificWins
  DEF DiscountsAreSound, To!DiscountsAreSound
<1> QED
  BY <1>1, TotalsAreTyped, PTL

-----------------------------------------------------------------------------
(* The types.                                                              *)

\* A request only notes writes of carts it has read.
LEMMA CartsTyped == Spec => []Ca!CartsTypeOK
<1> DEFINE Noted == \A r \in Requests : open[r].moved \subseteq {open[r].cart, open[r].other}
<1>1. Init => Noted
  BY DEF Init, Ca!Init, Ca!Idle
<1>2. CartsInv /\ Noted /\ [Next]_vars => Noted'
  <2> SUFFICES ASSUME CartsInv, Noted, [Ca!Next]_<<carts, open>> PROVE Noted'
    BY CartsMove
  <2>0. open = [q \in Requests |-> open[q]]
    BY DEF CartsInv
  <2>1. ASSUME NEW cs \in SUBSET CartIds, open' = Ca!Stamp(cs) PROVE Noted'
    <3>1. ASSUME NEW q \in Requests PROVE open'[q].moved \subseteq {open'[q].cart, open'[q].other}
      BY <2>1, Stamped
    <3>2. QED
      BY <3>1
  <2>2. ASSUME NEW cs \in SUBSET CartIds, NEW r \in Requests, open' = Ca!Done(r, cs) PROVE Noted'
    <3>1. ASSUME NEW q \in Requests PROVE open'[q].moved \subseteq {open'[q].cart, open'[q].other}
      <4>1. CASE q = r
        <5>1. open'[q] = Ca!Idle
          BY <2>2, <4>1 DEF Ca!Done, Ca!Stamp
        <5>2. QED
          BY <5>1 DEF Ca!Idle
      <4>2. CASE q # r
        <5>1. open'[q] = Ca!Stamp(cs)[q]
          BY <2>2, <4>2 DEF Ca!Done, Ca!Stamp
        <5>2. QED
          BY <5>1, Stamped
      <4>3. QED
        BY <4>1, <4>2
    <3>2. QED
      BY <3>1
  <2>3. ASSUME NEW r \in Requests, NEW req, req.moved = {}, open' = [open EXCEPT ![r] = req]
        PROVE  Noted'
    BY <2>0, <2>3
  <2>4. ASSUME NEW r \in Requests, open[r].cart \in CartIds, NEW copy,
               Ca!Save(r, copy) \/ Ca!Leave(r)
        PROVE  Noted'
    <3>1. open' = Ca!Done(r, {open[r].cart}) \/ open' = Ca!Done(r, {})
      BY <2>4 DEF Ca!Save, Ca!Leave
    <3>2. {open[r].cart} \in SUBSET CartIds /\ {} \in SUBSET CartIds
      BY <2>4
    <3>3. QED
      BY <2>2, <3>1, <3>2
  <2>5. \A r \in Requests :
          /\ open[r].op # "none" => open[r].cart \in CartIds
          /\ open[r].op = "merge" => open[r].other \in CartIds
    BY DEF CartsInv, Current
  <2>6. ASSUME NEW r \in Requests, NEW l \in Lines, NEW q \in 0..MaxQty,
               Ca!AddToCart(r, l, q) \/ Ca!SyncCartOffline(r, l, q) \/ Ca!UpdateCartItem(r, l, q)
        PROVE  Noted'
    <3>1. open[r].cart \in CartIds
      BY <2>5, <2>6 DEF Ca!AddToCart, Ca!SyncCartOffline, Ca!UpdateCartItem
    <3>2. \E copy : Ca!Save(r, copy) \/ Ca!Leave(r)
      BY <2>6 DEF Ca!AddToCart, Ca!SyncCartOffline, Ca!UpdateCartItem
    <3>3. QED
      BY <2>4, <3>1, <3>2
  <2>7. ASSUME NEW r \in Requests,
               Ca!GetOrClearCart(r) \/ Ca!SetCustomerLocation(r) \/ Ca!Adopt(r)
        PROVE  Noted'
    <3>1. open[r].cart \in CartIds
      BY <2>5, <2>7 DEF Ca!GetOrClearCart, Ca!SetCustomerLocation, Ca!Adopt
    <3>2. \E copy : Ca!Save(r, copy) \/ Ca!Leave(r)
      BY <2>7 DEF Ca!GetOrClearCart, Ca!SetCustomerLocation, Ca!Adopt
    <3>3. QED
      BY <2>4, <3>1, <3>2
  <2>8. ASSUME NEW r \in Requests, Ca!Checkout(r) PROVE Noted'
    <3>1. open' = Ca!Done(r, {open[r].cart}) /\ {open[r].cart} \in SUBSET CartIds
      BY <2>5, <2>8 DEF Ca!Checkout, Ca!MarkCheckedOut
    <3>2. QED
      BY <2>2, <3>1
  <2>9. ASSUME NEW r \in Requests, Ca!Merge(r) PROVE Noted'
    <3>1. open' = Ca!Done(r, {open[r].cart, open[r].other}) \/ open' = Ca!Done(r, {})
      BY <2>9 DEF Ca!Merge
    <3>2. {open[r].cart, open[r].other} \in SUBSET CartIds /\ {} \in SUBSET CartIds
      BY <2>5, <2>9 DEF Ca!Merge
    <3>3. QED
      BY <2>2, <3>1, <3>2
  <2>10. ASSUME NEW u, NEW s, Ca!CreateRefused(u, s) PROVE Noted'
    <3>1. PICK c \in CartIds : open' = Ca!Stamp({c})
      BY <2>10 DEF Ca!CreateRefused
    <3>2. {c} \in SUBSET CartIds
      OBVIOUS
    <3>3. QED
      BY <2>1, <3>1, <3>2
  <2>11. ASSUME NEW r \in Requests, NEW u, NEW s, NEW op,
                Ca!Open(r, u, s, op) \/ Ca!LoginRead(r, u, s)
         PROVE  Noted'
    <3>1. \E req : req.moved = {} /\ open' = [open EXCEPT ![r] = req]
      BY <2>11, Zenon DEF Ca!Open, Ca!LoginRead, Ca!Idle
    <3>2. QED
      BY <2>3, <3>1
  <2>12. CASE open' = open
    BY <2>12
  <2>13. \A q \in 1..MaxQty : q \in 0..MaxQty
    BY CartsAssumption
  <2>14. QED
    BY <2>6, <2>7, <2>8, <2>9, <2>10, <2>11, <2>12, <2>13 DEF Ca!Next, Ca!Write
<1>3. CartsInv /\ Noted => Ca!CartsTypeOK
  BY DEF CartsInv, CartRow, CartRequest, Ca!CartsTypeOK
<1>4. CartsInv /\ [Next]_vars => CartsInv'
  BY CartsStep DEF Kept
<1>5. QED
  BY <1>1, <1>2, <1>3, <1>4, CartsStart, PTL DEF Spec

LEMMA ShownIsAView ==
    ASSUME kind \in Cm!Kinds, rows \in [Cm!Docs -> Cm!Rows], NEW key
    PROVE  Cm!Shown(rows, key) \in Cm!Views
<1>1. \A ds \in SUBSET Cm!Docs : Cm!View(rows, ds) \in SUBSET (Cm!Docs \X (0..MaxText))
  BY DEF Cm!View, Cm!Rows
<1>2. Cm!Live(rows) \in SUBSET Cm!Docs
  BY DEF Cm!Live
<1>3. {rows[d].at : d \in Cm!Live(rows)} \in SUBSET Slugs
  BY <1>2 DEF Cm!Rows
<1>4. \/ Cm!Shown(rows, key) \in {Cm!View(rows, ds) : ds \in SUBSET Cm!Docs}
      \/ Cm!Shown(rows, key) = {rows[d].at : d \in Cm!Live(rows)}
  <2>1. \A S : S \cap Cm!Live(rows) \in SUBSET Cm!Docs /\ Cm!Live(rows) \cap S \in SUBSET Cm!Docs
               /\ Cm!Live(rows) \ S \in SUBSET Cm!Docs
    BY <1>2
  <2>2. {d \in Cm!Live(rows) : rows[d].inDate} \in SUBSET Cm!Docs /\ {} \in SUBSET Cm!Docs
    BY <1>2
  <2>3. Cm!PageShown(rows, key) \in {Cm!View(rows, ds) : ds \in SUBSET Cm!Docs}
    BY <2>1 DEF Cm!PageShown
  <2>4. Cm!BannersShown(rows, key) \in {Cm!View(rows, ds) : ds \in SUBSET Cm!Docs}
    BY <2>2 DEF Cm!BannersShown
  <2>5. Cm!NavigationShown(rows, key) \in {Cm!View(rows, ds) : ds \in SUBSET Cm!Docs}
    BY <1>2, <2>2 DEF Cm!NavigationShown
  <2>6. Cm!FaqShown(rows, key) \in {Cm!View(rows, ds) : ds \in SUBSET Cm!Docs}
    BY <1>2, <2>1, <2>2 DEF Cm!FaqShown
  <2>7. Cm!OffersShown(rows, key) \in {Cm!View(rows, ds) : ds \in SUBSET Cm!Docs}
    BY <2>3, <2>4 DEF Cm!OffersShown
  <2>8. \/ Cm!LocationsShown(rows, key) \in {Cm!View(rows, ds) : ds \in SUBSET Cm!Docs}
        \/ Cm!LocationsShown(rows, key) = {rows[d].at : d \in Cm!Live(rows)}
    BY <1>2, <2>1 DEF Cm!LocationsShown
  <2>9. /\ Cm!HomeShown(rows, key) \in {Cm!View(rows, ds) : ds \in SUBSET Cm!Docs}
        /\ Cm!SingleShown(rows, key) \in {Cm!View(rows, ds) : ds \in SUBSET Cm!Docs}
    BY <1>2 DEF Cm!HomeShown, Cm!SingleShown
  <2>10. QED
    BY <2>3, <2>4, <2>5, <2>6, <2>7, <2>8, <2>9 DEF Cm!Shown, Cm!Kinds
<1>5. CASE Cm!Shown(rows, key) = {rows[d].at : d \in Cm!Live(rows)}
  BY <1>3, <1>5 DEF Cm!Views
<1>6. CASE Cm!Shown(rows, key) \in {Cm!View(rows, ds) : ds \in SUBSET Cm!Docs}
  <2>1. PICK ds \in SUBSET Cm!Docs : Cm!Shown(rows, key) = Cm!View(rows, ds)
    BY <1>6
  <2>2. Cm!View(rows, ds) \in SUBSET (Cm!Docs \X (0..MaxText))
    BY <1>1
  <2>3. QED
    BY <2>1, <2>2 DEF Cm!Views
<1>7. QED
  BY <1>4, <1>5, <1>6

LEMMA ContentTyped == Spec => []Cm!CmsTypeOK
<1> DEFINE Asked == \A r \in Readers : reading[r].view # Nothing => reading[r].key \in Cm!Keys
<1>1. Init => Cm!CmsTypeOK /\ Asked
  <2> SUFFICES ASSUME Init PROVE Cm!CmsTypeOK /\ Asked
    OBVIOUS
  <2>1. PICK here \in {CHOOSE p \in Slugs : TRUE}, there \in Slugs :
          rows = [first |-> Cm!FirstRow(here), second |-> Cm!FirstRow(there)]
    BY DEF Init, Cm!Init
  <2>2. Cm!FirstRow(here) \in Cm!Rows /\ Cm!FirstRow(there) \in Cm!Rows
    BY ContentAssumption DEF Cm!FirstRow, Cm!Rows
  <2>3. rows \in [Cm!Docs -> Cm!Rows]
    BY <2>1, <2>2 DEF Cm!Docs
  <2>4. "all" \in Cm!AllKeys
    BY DEF Cm!AllKeys, Cm!KeysOf, Cm!Kinds
  <2>5. /\ kind \in Cm!Kinds /\ cache = [k \in Cm!AllKeys |-> Nothing] /\ saving = Nothing
        /\ reading = [r \in Readers |-> Cm!NotReading] /\ behind = {}
    BY DEF Init, Cm!Init
  <2>6. QED
    BY <2>3, <2>4, <2>5 DEF Cm!CmsTypeOK, Cm!NotReading
<1>2. ContentInv /\ Cm!CmsTypeOK /\ Asked /\ [Next]_vars => Cm!CmsTypeOK' /\ Asked'
  <2> SUFFICES ASSUME ContentInv, Cm!CmsTypeOK, Asked,
                      [Cm!Next]_<<kind, rows, cache, saving, reading, behind>>
               PROVE  Cm!CmsTypeOK' /\ Asked'
    BY ContentMoves
  <2>0. /\ kind \in Cm!Kinds /\ rows \in [Cm!Docs -> Cm!Rows] /\ behind \subseteq Cm!Keys
        /\ cache = [k \in Cm!AllKeys |-> cache[k]] /\ reading = [r \in Readers |-> reading[r]]
        /\ Cm!Keys \subseteq Cm!AllKeys /\ "all" \in Cm!AllKeys
        /\ \A r \in Readers :
             reading[r] = [key |-> reading[r].key, view |-> reading[r].view,
                           overlapped |-> reading[r].overlapped]
    BY KeysAreKeys DEF ContentInv, Cm!CmsTypeOK, Cm!AllKeys, Cm!KeysOf, Cm!Kinds
  <2>00. kind' = kind => Cm!Keys' = Cm!Keys
    BY DEF Cm!Keys
  <2>1. ASSUME NEW r \in Readers, NEW key \in Cm!Keys, Cm!Read(r, key)
        PROVE  Cm!CmsTypeOK' /\ Asked'
    BY <2>0, <2>00, <2>1, ShownIsAView DEF Cm!Read, Cm!CmsTypeOK
  <2>2. ASSUME NEW r \in Readers, Cm!Fill(r) PROVE Cm!CmsTypeOK' /\ Asked'
    BY <2>0, <2>00, <2>2 DEF Cm!Fill, Cm!CmsTypeOK, Cm!NotReading
  <2>3. ASSUME NEW key \in Cm!Keys, Cm!Expire(key) PROVE Cm!CmsTypeOK' /\ Asked'
    BY <2>0, <2>00, <2>3 DEF Cm!Expire, Cm!CmsTypeOK
  <2>4. ASSUME reading' = [r \in Readers |->
                  [reading[r] EXCEPT !.overlapped = reading[r].view # Nothing]]
        PROVE  \A r \in Readers : /\ reading'[r].key = reading[r].key
                                  /\ reading'[r].view = reading[r].view
                                  /\ reading'[r].overlapped \in BOOLEAN
    <3> SUFFICES ASSUME NEW r \in Readers
                 PROVE  /\ reading'[r].key = reading[r].key
                        /\ reading'[r].view = reading[r].view
                        /\ reading'[r].overlapped \in BOOLEAN
      OBVIOUS
    <3>1. reading'[r] = [key |-> reading[r].key, view |-> reading[r].view,
                         overlapped |-> reading[r].view # Nothing]
      BY <2>0, <2>4
    <3>2. QED
      BY <3>1
  <2>5. ASSUME NEW doc \in Cm!Docs, NEW row \in Cm!Rows, Cm!Save(doc, row)
        PROVE  Cm!CmsTypeOK' /\ Asked'
    <3>1. /\ UNCHANGED <<kind, rows>> /\ saving' \in [doc : Cm!Docs, row : Cm!Rows]
          /\ behind' \subseteq behind
          /\ \A k \in Cm!AllKeys : cache'[k] = Nothing \/ cache'[k] = cache[k]
      BY <2>5 DEF Cm!Save
    <3>2. \A r \in Readers : /\ reading'[r].key = reading[r].key
                             /\ reading'[r].view = reading[r].view
                             /\ reading'[r].overlapped \in BOOLEAN
      BY <2>4, <2>5 DEF Cm!Save
    <3>3. QED
      BY <2>0, <2>00, <3>1, <3>2 DEF Cm!CmsTypeOK
  <2>6. CASE Cm!Commit
    <3>1. saving.doc \in Cm!Docs /\ saving.row \in Cm!Rows
      BY <2>6 DEF Cm!Commit, Cm!CmsTypeOK
    <3>2. Cm!Unreached(saving.doc, saving.row) \subseteq Cm!Keys
      <4>1. saving.row.at \in Slugs /\ rows[saving.doc].at \in Slugs
        BY <2>0, <3>1 DEF Cm!Rows
      <4>2. QED
        BY <2>0, <4>1 DEF Cm!Unreached, Cm!Keys, Cm!KeysOf, Cm!Kinds
    <3>3. QED
      BY <2>0, <2>00, <2>6, <3>1, <3>2 DEF Cm!Commit, Cm!CmsTypeOK
  <2>7. ASSUME NEW doc \in Cm!Docs, NEW row \in Cm!Rows, Cm!Unhooked(doc, row)
        PROVE  Cm!CmsTypeOK' /\ Asked'
    <3>1. /\ UNCHANGED <<kind, cache, saving>> /\ rows' \in [Cm!Docs -> Cm!Rows]
          /\ behind' = Cm!Keys
      BY <2>0, <2>7 DEF Cm!Unhooked
    <3>2. \A r \in Readers : /\ reading'[r].key = reading[r].key
                             /\ reading'[r].view = reading[r].view
                             /\ reading'[r].overlapped \in BOOLEAN
      BY <2>4, <2>7 DEF Cm!Unhooked
    <3>3. QED
      BY <2>0, <2>00, <3>1, <3>2 DEF Cm!CmsTypeOK
  <2>8. \A doc \in Cm!Docs : /\ [rows[doc] EXCEPT !.live = FALSE] \in Cm!Rows
                             /\ [rows[doc] EXCEPT !.inDate = FALSE] \in Cm!Rows
    BY <2>0 DEF Cm!Rows
  <2>9. ASSUME NEW doc \in Cm!Docs, Cm!Delete(doc) \/ Cm!NewDay(doc)
        PROVE  Cm!CmsTypeOK' /\ Asked'
    BY <2>7, <2>8, <2>9 DEF Cm!Delete, Cm!NewDay
  <2>10. CASE UNCHANGED <<kind, rows, cache, saving, reading, behind>>
    BY <2>00, <2>10 DEF Cm!CmsTypeOK
  <2>11. QED
    BY <2>1, <2>2, <2>3, <2>5, <2>6, <2>9, <2>10 DEF Cm!Next
<1>3. Spec => []ContentInv
  BY ContentStart, ContentStep, PTL DEF Spec
<1>4. QED
  BY <1>1, <1>2, <1>3, PTL DEF Spec

LEMMA ChoiceTyped == Spec => []Vc!ChoiceTypeOK
<1>1. FirstShop \in Vc!Shops
  <2> DEFINE zone == [l \in Listings |-> CHOOSE z \in Vc!ZoneNames : z \in Zones[l]]
             first == [active |-> CHOOSE a \in ActiveSets : TRUE, zone |-> zone,
                       rows |-> [v \in Vc!Vendors |-> "default"],
                       away |-> [v \in Vc!Vendors |-> CHOOSE d \in Distances : TRUE],
                       mode |-> CHOOSE m \in Modes : TRUE]
  <2>1. \A l \in Listings : \E z \in Vc!ZoneNames : z \in Zones[l]
    BY ListingsAssumption, ZenonT(40) DEF Vc!ZoneNames
  <2>2. /\ zone \in [Listings -> Vc!ZoneNames]
        /\ \A l \in Listings : zone[l] \in Zones[l]
    BY <2>1
  <2>3. /\ (CHOOSE a \in ActiveSets : TRUE) \in ActiveSets
        /\ (CHOOSE d \in Distances : TRUE) \in Distances
        /\ (CHOOSE m \in Modes : TRUE) \in Modes
    BY ListingsAssumption
  <2> HIDE DEF zone
  <2>4. first \in Vc!Shops
    BY <2>2, <2>3 DEF Vc!Shops, Vc!StockRows
  <2>5. QED
    BY <2>4 DEF FirstShop
<1>2. Init => Vc!ChoiceTypeOK
  BY <1>1 DEF Init, Vc!Init, Vc!ChoiceTypeOK
<1>3. Vc!ChoiceTypeOK /\ [Next]_vars => Vc!ChoiceTypeOK'
  <2>1. [Next]_vars => [Vc!Next]_<<shop, ask>>
    BY DEF Next, vars, Shows, Pays, Asks, StillShown, StillChoice
  <2>2. Vc!Next => shop' = shop /\ ask' \in Vc!Asks
    BY DEF Vc!Next, Vc!Ask
  <2>3. Vc!Shops' = Vc!Shops /\ Vc!Asks' = Vc!Asks
    BY DEF Vc!Shops, Vc!Asks, Vc!Vendors, Vc!ZoneNames, Vc!StockRows
  <2>4. QED
    BY <2>1, <2>2, <2>3 DEF Vc!ChoiceTypeOK
<1>4. QED
  BY <1>2, <1>3, PTL DEF Spec

\* No entry and no answer grows older than the lifetimes on its way.
LEMMA CachesTyped == CachesInv => Pc!CachesTypeOK
<1> SUFFICES ASSUME CachesInv PROVE Pc!CachesTypeOK
  OBVIOUS
<1>1. /\ Life["base"] \in Nat \ {0} /\ Life["resolve"] \in Nat \ {0}
      /\ Life["page"] \in Nat \ {0} /\ Life["related"] = Life["page"]
      /\ Life["list"] \in Nat \ {0}
  BY LifeAssumption
<1>2. \A k \in Pc!Layers : EndAge(k) \in Nat /\ EndAge(k) <= Pc!Oldest
  BY <1>1 DEF EndAge, TemplateAge, Pc!Layers, Pc!Oldest
<1>3. \A k \in Pc!Places : Pc!StalenessBound(k) \in Nat /\ Pc!StalenessBound(k) <= Pc!Oldest + 1
  <2>1. ASSUME NEW k \in Pc!Places
        PROVE  Pc!StalenessBound(k) \in Nat /\ Pc!StalenessBound(k) <= Pc!Oldest + 1
    <3>1. CASE k = "search"
      BY <1>1, <3>1 DEF Pc!StalenessBound, Pc!Oldest
    <3>2. CASE k = "page"
      BY <1>1, <3>2 DEF Pc!StalenessBound, Pc!Oldest
    <3>3. CASE k = "related"
      BY <1>1, <3>3 DEF Pc!StalenessBound, Pc!Oldest
    <3>4. CASE k = "list"
      BY <1>1, <3>4 DEF Pc!StalenessBound, Pc!Oldest
    <3>5. QED
      BY <2>1, <3>1, <3>2, <3>3, <3>4 DEF Pc!Places
  <2>2. QED
    BY <2>1
<1>4. Pc!Oldest \in Nat
  BY <1>1 DEF Pc!Oldest
<1>5. ASSUME NEW k \in Pc!Layers, entry[k] # NotCached
      PROVE  entry[k] \in [age : 0..Pc!Oldest, left : 1..Life[k]]
  <2>1. /\ entry[k] \in [age : Nat, left : 1..Life[k]]
        /\ entry[k].age + entry[k].left <= EndAge(k)
    BY <1>5 DEF CachesInv, EntriesAge, Ages
  <2>2. entry[k].age \in 0..Pc!Oldest
    BY <1>2, <1>4, <2>1
  <2>3. QED
    BY <2>1, <2>2
<1>6. ASSUME shown # NotCached PROVE shown \in [at : Pc!Places, age : 0..Pc!Oldest]
  <2>1. /\ shown \in [at : Pc!Places, age : Nat]
        /\ shown.age < Pc!StalenessBound(shown.at)
    BY <1>6 DEF CachesInv
  <2>2. shown.age \in 0..Pc!Oldest
    BY <1>3, <1>4, <2>1
  <2>3. QED
    BY <2>1, <2>2
<1>7. QED
  BY <1>5, <1>6 DEF CachesInv, Pc!CachesTypeOK

LEMMA MembershipsTyped == Spec => []MembershipsTypeOK
<1> DEFINE Known == today \in 0..LastDay /\ beside \subseteq Sales /\ reopened \subseteq Sales
<1>1. Init => MembershipShape /\ Known
  BY PlansAssumption DEF Init, MembershipsInit, MembershipShape, Unsold, NotSelling
<1>2. Known /\ [Next]_vars => Known'
  <2>1. [MembershipsNext]_membershipVars /\ Known => Known'
    BY PlansAssumption DEF MembershipsNext, membershipVars, StartSale, FinishSale, SetActive,
       ExpireMemberships, NextDay, Selling
  <2>2. QED
    BY <2>1, MembershipsMove
<1>3. Init => MembershipInv
  BY DEF Init, MembershipsInit, MembershipInv, MembershipShape, SalesSeeActive,
     SalesAtOnceAreBeside, OneMembershipApplies, Active, Selling, Unsold, NotSelling
<1>4. MembershipInv /\ [Next]_vars => MembershipInv'
  BY MembershipsMove, MembershipStep
<1>5. MembershipInv /\ Known => MembershipsTypeOK
  BY DEF MembershipInv, MembershipShape, MembershipsTypeOK
<1>6. QED
  BY <1>1, <1>2, <1>3, <1>4, <1>5, PTL DEF Spec

\* What a request reports is of the combinations it was asked for.
LEMMA VariantsTyped == Spec => []Va!VariantsTypeOK
<1> DEFINE Reported == /\ parent \in {"none", "Active", "Inactive"}
                       /\ starts \in 0..MaxStarts
                       /\ made \subseteq Va!Combinations /\ victims \subseteq Va!Combinations
                       /\ refused \subseteq Va!Combinations \X BOOLEAN
<1>1. Init => Reported
  BY NamesAssumption DEF Init, Va!Init
<1>2. VariantsInv /\ Reported /\ [Next]_vars => Reported'
  <2> SUFFICES ASSUME VariantsInv, Reported,
                      [Va!Next]_<<parent, variants, requests, starts, made, refused, victims>>
               PROVE  Reported'
    BY VariantsMove
  <2>0. Va!Combinations' = Va!Combinations
    BY DEF Va!Combinations
  <2>1. \A r \in Requests : /\ {v.combo : v \in requests[r].rows} \subseteq Va!Combinations
                            /\ requests[r].failed \subseteq Va!Combinations \X BOOLEAN
    BY DEF VariantsInv, VariantRequest, Va!Variants
  <2>2. CASE UNCHANGED <<made, refused, victims, starts>> /\ parent' \in {parent, "Active", "Inactive"}
    BY <2>0, <2>2
  <2>3. ASSUME NEW r \in Requests, NEW m, Va!StartCreating(r, m) PROVE Reported'
    BY <2>0, <2>3, NamesAssumption DEF Va!StartCreating
  <2>4. ASSUME NEW r \in Requests, Va!Deadlock(r) PROVE Reported'
    BY <2>0, <2>1, <2>4 DEF Va!Deadlock
  <2>5. ASSUME NEW r \in Requests, Va!FinishCreating(r) PROVE Reported'
    BY <2>0, <2>1, <2>5 DEF Va!FinishCreating
  <2>6. QED
    BY <2>2, <2>3, <2>4, <2>5 DEF Va!Next, Va!CreateTemplate, Va!UpdateTemplate,
       Va!SkipCombination, Va!CreateVariant, Va!FailCombination, Va!DeleteVariant
<1>3. VariantsInv /\ Reported => Va!VariantsTypeOK
  BY DEF VariantsInv, VariantRequest, Va!VariantsTypeOK
<1>4. QED
  BY <1>1, <1>2, <1>3, VariantsStart, VariantsStep, PTL DEF Spec

\* Every part of what a shopper does keeps its types, whatever the constants are: the
\* carts, coupons, points, slots, totals and memberships that are saved, and the
\* pages, listings, prices and variants that are shown.
THEOREM ShopIsTyped == Spec => []TypeOK
<1>1. Spec => []Co!CouponsTypeOK
  <2>1. CouponsInv => Co!CouponsTypeOK
    BY DEF CouponsInv
  <2>2. QED
    BY <2>1, CouponsStart, CouponsStep, PTL DEF Spec
<1>2. Spec => []Lo!LoyaltyTypeOK
  <2>1. PointsInv => Lo!LoyaltyTypeOK
    BY DEF PointsInv, LoyaltyShape, Entry, Lo!LoyaltyTypeOK
  <2>2. Init => PointsInv
    BY PointsInit DEF Init
  <2>3. PointsInv /\ [Next]_vars => PointsInv'
    BY LoyaltyMoves, PointsStep
  <2>4. QED
    BY <2>1, <2>2, <2>3, PTL DEF Spec
<1>3. Spec => []Sl!SlotsTypeOK
  <2>1. SlotsInv => Sl!SlotsTypeOK
    BY DEF SlotsInv
  <2>2. QED
    BY <2>1, SlotsStart, SlotsStep, PTL DEF Spec
<1>4. Spec => []Pc!CachesTypeOK
  BY CachesTyped, CachesStart, CachesStep, PTL DEF Spec
<1>5. QED
  BY <1>1, <1>2, <1>3, <1>4, CartsTyped, TotalsAreTyped, ContentTyped, ChoiceTyped,
     MembershipsTyped, VariantsTyped, PTL DEF TypeOK
=============================================================================
