---------------------------- MODULE DeliverySlots ----------------------------
(***************************************************************************)
(* Bookings of one delivery time slot (api/delivery_slots.py).  book_slot  *)
(* counts the bookings of the date and inserts one: two steps, no lock.    *)
(* Dates are days from today.                                              *)
(***************************************************************************)
EXTENDS Integers, FiniteSets

CONSTANTS
    Bookings,     \* booking requests, and the rows they insert
    Dates,        \* dates asked for
    SlotDates,    \* the dates that fall on the slot's day of the week
    MaxOrders,    \* Delivery Time Slot.max_orders; 0 means not set
    DefaultMax,   \* the capacity when it is not set
    MaxBusy       \* bound: requests under way at once

VARIABLES
    slotActive,   \* Delivery Time Slot.is_active
    bookings,     \* status and date of every booking
    counting      \* the requests that have counted and not inserted

slotVars == <<slotActive, bookings, counting>>

SlotsTypeOK ==
    /\ slotActive \in BOOLEAN
    /\ bookings \in [Bookings -> [status : {"none", "Booked", "Confirmed", "Cancelled"},
                                  date : Dates]]
    /\ counting \subseteq Bookings

Init ==
    /\ slotActive = TRUE
    /\ bookings \in [Bookings -> [status : {"none"}, date : {CHOOSE d \in Dates : TRUE}]]
    /\ counting = {}

\* cint(max_orders) or 50
Capacity == IF MaxOrders = 0 THEN DefaultMax ELSE MaxOrders

\* Fault: a confirmed booking no longer takes room.
OccupiedByBooked(d) == {b \in Bookings : bookings[b].date = d /\ bookings[b].status = "Booked"}

\* The bookings that take room on a date.
Occupied(d) ==
    {b \in Bookings : bookings[b].date = d /\ bookings[b].status \in {"Booked", "Confirmed"}}

MaxDaysAhead == 7
DateAllowed(d) == d >= 0 /\ d <= MaxDaysAhead

\* get_available_slots: the slot is listed for the date with room left.
Offered(d) ==
    /\ DateAllowed(d)
    /\ slotActive
    /\ d \in SlotDates
    /\ Capacity - Cardinality(Occupied(d)) > 0

\* Fault: the slot's day of the week is checked by the listing alone.
AcceptsAnyDay(d) == slotActive /\ DateAllowed(d) /\ Cardinality(Occupied(d)) < Capacity

\* book_slot up to the capacity check.
Accepts(d) ==
    /\ slotActive
    /\ DateAllowed(d)
    /\ d \in SlotDates
    /\ Cardinality(Occupied(d)) < Capacity

StartBooking(b, d) ==
    /\ bookings[b].status = "none"
    /\ b \notin counting
    /\ Cardinality(counting) < MaxBusy
    /\ Accepts(d)
    /\ bookings' = [bookings EXCEPT ![b].date = d]
    /\ counting' = counting \cup {b}
    /\ UNCHANGED slotActive

FinishBooking(b) ==
    /\ b \in counting
    /\ bookings' = [bookings EXCEPT ![b].status = "Booked"]
    /\ counting' = counting \ {b}
    /\ UNCHANGED slotActive

\* The desk confirms a booking.
Confirm(b) ==
    /\ bookings[b].status = "Booked"
    /\ bookings' = [bookings EXCEPT ![b].status = "Confirmed"]
    /\ UNCHANGED <<slotActive, counting>>

\* cancel_slot_booking, from whatever status.
CancelSlotBooking(b) ==
    /\ bookings[b].status # "none"
    /\ bookings' = [bookings EXCEPT ![b].status = "Cancelled"]
    /\ UNCHANGED <<slotActive, counting>>

SwitchSlot == slotActive' = ~slotActive /\ UNCHANGED <<bookings, counting>>

Next ==
    \/ \E b \in Bookings :
         \/ \E d \in Dates : StartBooking(b, d)
         \/ FinishBooking(b) \/ Confirm(b) \/ CancelSlotBooking(b)
    \/ SwitchSlot

Spec == Init /\ [][Next]_slotVars

-----------------------------------------------------------------------------
\* A date is never overbooked by more than the requests that counted at once.
BookingsWithinCapacity ==
    \A d \in Dates :
        Cardinality({b \in Bookings : bookings[b].date = d
                                       /\ bookings[b].status \notin {"none", "Cancelled"}})
            <= Capacity + MaxBusy - 1

\* The listing and the booking agree: what a shopper is offered can be booked,
\* and a date that is not offered is refused.
OfferedIsBookable == \A d \in Dates : Offered(d) <=> Accepts(d)

\* What is offered can be booked, and what is booked can be delivered.
SlotsAreSound == BookingsWithinCapacity /\ OfferedIsBookable
=============================================================================
