----------------------------- MODULE RoomLedger -----------------------------
(***************************************************************************)
(* What a homestay promises about the rooms of its calendar, as if one     *)
(* clerk kept it: a booking takes its rooms in the moment in which there   *)
(* are enough of them on each of its nights, gives back exactly those in   *)
(* the moment in which it is declined or expires, and nothing else moves   *)
(* the counts.                                                             *)
(*                                                                         *)
(* RoomInventory, which reads, decides and writes in separate statements,  *)
(* is shown to implement this as long as its requests do not get in each   *)
(* other's way.                                                            *)
(***************************************************************************)
EXTENDS Integers

CONSTANTS
    Bookings,      \* ids a booking may be given
    Nights,        \* dates of the calendar
    MaxRooms,      \* bound: largest number of rooms one request asks for
    Capacity       \* rooms posted for every night

VARIABLES
    left,          \* rooms of each night that nobody holds
    status,        \* Booking.status, "NONE" before the row exists
    stay,          \* nights of the booking's item
    rooms          \* BookingItem.quantity

vars == <<left, status, stay, rooms>>

Init ==
    /\ left = [n \in Nights |-> Capacity]
    /\ status = [b \in Bookings |-> "NONE"]
    /\ stay = [b \in Bookings |-> {}]
    /\ rooms = [b \in Bookings |-> 0]

-----------------------------------------------------------------------------
\* Declined or expired: what the booking had is back in the calendar.
Over == {"REJECTED", "EXPIRED"}

\* Accepted, or decided by its payment.
Underway == {"AWAITING_PAYMENT", "CONFIRMED", "PAYMENT_FAILED", "REFUNDED", "COMPLETED"}

\* The check and the decrement of createHomestayBooking, as one.
Take(b, N, q) ==
    /\ status[b] = "NONE"
    /\ \A n \in N : left[n] >= q
    /\ status' = [status EXCEPT ![b] = "REQUESTED"]
    /\ stay' = [stay EXCEPT ![b] = N]
    /\ rooms' = [rooms EXCEPT ![b] = q]
    /\ left' = [n \in Nights |-> IF n \in N THEN left[n] - q ELSE left[n]]

\* The decision against a booking and the increments, as one.
GiveBack(b) ==
    /\ status[b] \in Underway \union {"REQUESTED"}
    /\ \A n \in stay[b] : left[n] + rooms[b] <= Capacity
    /\ \E s \in Over : status' = [status EXCEPT ![b] = s]
    /\ left' = [n \in Nights |-> IF n \in stay[b] THEN left[n] + rooms[b] ELSE left[n]]
    /\ UNCHANGED <<stay, rooms>>

\* What else is written to a booking, also by a payment that is late, leaves the
\* calendar alone and does not reopen the request.
Proceed(b) ==
    /\ status[b] \in Underway \union {"REQUESTED", "EXPIRED"}
    /\ \E s \in Underway : status' = [status EXCEPT ![b] = s]
    /\ UNCHANGED <<left, stay, rooms>>

Next ==
    \E b \in Bookings :
        \/ \E N \in (SUBSET Nights) \ {{}}, q \in 1..MaxRooms : Take(b, N, q)
        \/ GiveBack(b) \/ Proceed(b)

Spec == Init /\ [][Next]_vars
=============================================================================
