------------------------------- MODULE Bookings -------------------------------
(***************************************************************************)
(* The bookings of one space (apps/bookings).  Every service locks the     *)
(* space row first, so each is one step; time passes between them.  Of the *)
(* booking rules only the approval mode is kept: the durations and windows *)
(* narrow what members can ask for, and any request that does not start in *)
(* the past satisfies some setting of them.                                *)
(***************************************************************************)
EXTENDS Integers

CONSTANTS
    BookingIds,       \* Booking rows
    Horizon,          \* bound: the last moment of the model
    UnreliableCharge  \* bookings for which calls into the payments app may fail

ASSUME BookingsAssumption ==
    /\ Horizon \in Nat
    /\ UnreliableCharge \subseteq BookingIds

VARIABLES
    space,     \* the BookableSpace row
    booking,   \* the Booking rows
    bill,      \* status of the Payment of each booking
    clock      \* timezone.now()

bookingsVars == <<space, booking, bill, clock>>

Times == 0..Horizon
BookingStatuses == {"absent", "pending", "confirmed", "rejected", "cancelled",
                    "completed", "no_show"}
Bills == {"none", "pending", "settled", "canceled"}

\* approved_at is history: when the booking became confirmed.
BookingRow == [status : BookingStatuses, starts_at : Times, ends_at : Times,
               approved_at : Times]
NoBooking == [status |-> "absent", starts_at |-> 0, ends_at |-> 0, approved_at |-> 0]

\* Types, and booking_end_after_start.
BookingsTypeOK ==
    /\ space \in [is_active : BOOLEAN, instant : BOOLEAN, paid : BOOLEAN]
    /\ booking \in [BookingIds -> BookingRow]
    /\ \A k \in BookingIds :
          booking[k].status # "absent" => booking[k].starts_at < booking[k].ends_at
    /\ bill \in [BookingIds -> Bills]
    /\ clock \in Times

BookingsInit ==
    /\ space \in [is_active : {TRUE}, instant : BOOLEAN, paid : BOOLEAN]
    /\ booking = [k \in BookingIds |-> NoBooking]
    /\ bill = [k \in BookingIds |-> "none"]
    /\ clock = 0

-----------------------------------------------------------------------------
\* Fault: a confirmed booking in the middle of the new one is not found.
OverlapAtEnds(k, starts_at, ends_at) ==
    \E q \in BookingIds \ {k} :
       /\ booking[q].status = "confirmed"
       /\ \/ booking[q].starts_at <= starts_at /\ starts_at < booking[q].ends_at
          \/ booking[q].starts_at < ends_at /\ ends_at <= booking[q].ends_at

\* _confirmed_overlap
ConfirmedOverlap(k, starts_at, ends_at) ==
    \E q \in BookingIds \ {k} :
       /\ booking[q].status = "confirmed"
       /\ booking[q].starts_at < ends_at /\ starts_at < booking[q].ends_at

\* create_for_confirmed_booking: an existing payment is kept, a failure swallowed.
BillsFor(k) ==
    LET billed == [bill EXCEPT ![k] = IF space.paid /\ @ = "none" THEN "pending" ELSE @]
    IN  {billed} \cup (IF k \in UnreliableCharge THEN {bill} ELSE {})

\* Fault: the payment of a cancelled booking stays open.
BillsKept(k) == {bill}

\* cancel_for_booking
BillsWithout(k) ==
    {[bill EXCEPT ![k] = IF @ = "pending" THEN "canceled" ELSE @]}
        \cup (IF k \in UnreliableCharge THEN {bill} ELSE {})

create_booking(k, starts_at, ends_at) ==
    /\ booking[k].status = "absent" /\ space.is_active
    /\ clock <= starts_at /\ starts_at < ends_at
    /\ space.instant => ~ConfirmedOverlap(k, starts_at, ends_at)
    /\ booking' = [booking EXCEPT ![k] =
          [status |-> IF space.instant THEN "confirmed" ELSE "pending",
           starts_at |-> starts_at, ends_at |-> ends_at, approved_at |-> clock]]
    /\ bill' \in IF space.instant THEN BillsFor(k) ELSE {bill}
    /\ UNCHANGED <<space, clock>>

\* The start may have passed by now.
approve_booking(k) ==
    /\ booking[k].status = "pending" /\ space.is_active
    /\ clock < booking[k].ends_at
    /\ ~ConfirmedOverlap(k, booking[k].starts_at, booking[k].ends_at)
    /\ booking' = [booking EXCEPT ![k].status = "confirmed", ![k].approved_at = clock]
    /\ bill' \in BillsFor(k)
    /\ UNCHANGED <<space, clock>>

reject_booking(k) ==
    /\ booking[k].status = "pending"
    /\ booking' = [booking EXCEPT ![k].status = "rejected"]
    /\ UNCHANGED <<space, bill, clock>>

cancel_booking(k) ==
    /\ booking[k].status = "confirmed"
    /\ booking' = [booking EXCEPT ![k].status = "cancelled"]
    /\ bill' \in BillsWithout(k)
    /\ UNCHANGED <<space, clock>>

\* require_ended
HasEnded(k) == booking[k].ends_at <= clock

EndBooking(k, to) ==
    /\ booking[k].status = "confirmed" /\ HasEnded(k)
    /\ booking' = [booking EXCEPT ![k].status = to]
    /\ UNCHANGED <<space, bill, clock>>

complete_booking(k) == EndBooking(k, "completed")
mark_no_show(k) == EndBooking(k, "no_show")

-----------------------------------------------------------------------------
\* update_booking_rules and update_space: approval mode and price.
update_space(instant, paid) ==
    /\ space.is_active
    /\ space' = [space EXCEPT !.instant = instant, !.paid = paid]
    /\ UNCHANGED <<booking, bill, clock>>

deactivate_space ==
    /\ space.is_active
    /\ space' = [space EXCEPT !.is_active = FALSE]
    /\ UNCHANGED <<booking, bill, clock>>

\* The payments app settles a pending charge.
bill_settled(k) ==
    /\ bill[k] = "pending"
    /\ bill' = [bill EXCEPT ![k] = "settled"]
    /\ UNCHANGED <<space, booking, clock>>

time_passes ==
    /\ clock < Horizon
    /\ clock' = clock + 1
    /\ UNCHANGED <<space, booking, bill>>

BookingSteps(k) ==
    \/ \E starts_at, ends_at \in Times : create_booking(k, starts_at, ends_at)
    \/ approve_booking(k) \/ reject_booking(k) \/ cancel_booking(k)
    \/ complete_booking(k) \/ mark_no_show(k) \/ bill_settled(k)

BookingsNext ==
    \/ \E k \in BookingIds : BookingSteps(k)
    \/ \E instant, paid \in BOOLEAN : update_space(instant, paid)
    \/ deactivate_space \/ time_passes

BookingsSpec == BookingsInit /\ [][BookingsNext]_bookingsVars

-----------------------------------------------------------------------------
Held(k) == booking[k].status \in {"confirmed", "completed", "no_show"}

\* The space is never promised to two people for the same time: where the times
\* of two bookings meet, one was approved when the other was already over.
NoDoubleBooking ==
    \A q, k \in BookingIds :
       /\ q # k /\ Held(q) /\ Held(k)
       /\ booking[q].starts_at < booking[k].ends_at
       /\ booking[k].starts_at < booking[q].ends_at
       => \/ booking[q].ends_at <= booking[k].approved_at
          \/ booking[k].ends_at <= booking[q].approved_at

\* Where the payments app answers, nobody owes for a booking that was never
\* confirmed or was called off.
OnlyBookingsOwe ==
    \A k \in BookingIds \ UnreliableCharge : bill[k] = "pending" => Held(k)
=============================================================================
