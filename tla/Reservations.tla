---------------------------- MODULE Reservations ----------------------------
(***************************************************************************)
(* Bookings of one product that has no room calendar.  What is left of it  *)
(* is computed from the bookings that hold it: a tour has maxCapacity      *)
(* seats, a vehicle or a guide (a "hire") is for one booking at a time.    *)
(* BookingService.createTourBooking, createVehicleBooking and              *)
(* createGuideBooking first read the product, then the bookings, and then  *)
(* insert; nothing ties the three together.                                *)
(*                                                                         *)
(* Meanwhile bookings are confirmed, rejected, paid for and ended, and the *)
(* product is edited, deactivated or (a hire) deleted.  What ends a        *)
(* booking is modelled in Checkout and Settlement; here all statuses that  *)
(* hold nothing are one, "OVER".                                           *)
(***************************************************************************)
EXTENDS Integers, FiniteSets

CONSTANTS
    Bookings,      \* ids of Booking rows
    Procs,         \* requests handled at the same time
    MaxCap,        \* largest maxCapacity a tour is given
    MaxParty,      \* largest number of guests of one booking
    LastDay,       \* days are 1..LastDay
    NoBooking

ASSUME ReservationsAssumption ==
    /\ IsFiniteSet(Bookings)
    /\ IsFiniteSet(Procs) /\ Procs # {}
    /\ MaxCap \in Nat \ {0}
    /\ MaxParty \in Nat \ {0}
    /\ LastDay \in Nat \ {0}
    /\ NoBooking \notin Bookings

VARIABLES
    kind,          \* "tour" or "hire"
    exists,        \* the product has a row
    active,        \* isActive
    cap,           \* Tour.maxCapacity, 1 for a hire
    status,        \* Booking.status, "NONE" before there is a row
    item,          \* the booking's BookingItem: quantity and dates
    task,          \* the request each process handles
    revived,       \* history: bookings that held nothing and were confirmed again
    orderly        \* history: creations and deletions did not overlap so far

product == <<kind, exists, active, cap>>
vars    == <<product, status, item, task, revived, orderly>>

-----------------------------------------------------------------------------
Status == {"NONE", "REQUESTED", "AWAITING_PAYMENT", "CONFIRMED", "OVER"}

\* A booking for the nights from..to-1.
Span == {s \in [from : 1..LastDay, to : 1..LastDay + 1] : s.from < s.to}

Item == [party : 1..MaxParty, span : Span]

Nights(s) == s.from .. (s.to - 1)

\* Bookings of a tour are for its date, and one party has one hire.
AnyDay == [from |-> 1, to |-> 2]

Task == [op : {"idle", "check", "insert", "confirm", "reject", "remove"},
         cap : 0..MaxCap,
         item : Item,
         booking : Bookings \union {NoBooking}]

NoItem == [party |-> 1, span |-> AnyDay]

Idle == [op |-> "idle", cap |-> 0, item |-> NoItem, booking |-> NoBooking]

TypeOK ==
    /\ kind \in {"tour", "hire"}
    /\ exists \in BOOLEAN
    /\ active \in BOOLEAN
    /\ cap \in 1..MaxCap
    /\ status \in [Bookings -> Status]
    /\ item \in [Bookings -> Item]
    /\ task \in [Procs -> Task]
    /\ revived \in SUBSET Bookings
    /\ orderly \in BOOLEAN
    /\ kind = "tour" => exists

Init ==
    /\ kind \in {"tour", "hire"}
    /\ exists = TRUE
    /\ active = TRUE
    /\ cap \in 1..MaxCap
    /\ kind = "hire" => cap = 1
    /\ status = [b \in Bookings |-> "NONE"]
    /\ item = [b \in Bookings |-> NoItem]
    /\ task = [p \in Procs |-> Idle]
    /\ revived = {}
    /\ orderly = TRUE

-----------------------------------------------------------------------------
\* Those that were accepted.
Accepted == {b \in Bookings : status[b] \in {"AWAITING_PAYMENT", "CONFIRMED"}}

\* The bookings that hold the product.
Holding == {b \in Bookings : status[b] \in {"REQUESTED", "AWAITING_PAYMENT", "CONFIRMED"}}

\* The sum of the quantities over a set of bookings, as a number of seats.
Seats(S) == {u \in S \X (1..MaxParty) : u[2] <= item[u[1]].party}

\* A slip (getBookedCount counts this way for display): requests hold no seat.
BookedAccepted == Cardinality(Seats(Accepted))

Booked == Cardinality(Seats(Holding))

\* A slip: only a booking that starts while this one lasts is in the way.
StartsWithin(s, t) == s.from <= t.from /\ t.from < s.to

Overlaps(s, t) == s.from < t.to /\ s.to > t.from

-----------------------------------------------------------------------------
Begin(p, t) ==
    /\ task[p].op = "idle"
    /\ task' = [task EXCEPT ![p] = t]

End(p) == task' = [task EXCEPT ![p] = Idle]

(* createTourBooking, createVehicleBooking, createGuideBooking *)

CreateRead(p) ==
    /\ exists /\ active
    /\ Begin(p, [Idle EXCEPT !.op = "check", !.cap = cap])
    /\ UNCHANGED <<product, status, item, revived>>

Grant(p, i) == task' = [task EXCEPT ![p] = [@ EXCEPT !.op = "insert", !.item = i]]

CheckSeats(p) ==
    /\ kind = "tour"
    /\ task[p].op = "check"
    /\ \E n \in 1..MaxParty :
        /\ n <= task[p].cap - Booked
        /\ Grant(p, [party |-> n, span |-> AnyDay])
    /\ UNCHANGED <<product, status, item, revived>>

CheckDays(p) ==
    /\ kind = "hire"
    /\ task[p].op = "check"
    /\ \E s \in Span :
        /\ \A b \in Holding : ~ Overlaps(s, item[b].span)
        /\ Grant(p, [party |-> 1, span |-> s])
    /\ UNCHANGED <<product, status, item, revived>>

CreateInsert(p) ==
    /\ task[p].op = "insert"
    /\ \E b \in Bookings :
        /\ status[b] = "NONE"
        /\ status' = [status EXCEPT ![b] = "REQUESTED"]
        /\ item' = [item EXCEPT ![b] = task[p].item]
    /\ End(p)
    /\ UNCHANGED <<product, revived>>

-----------------------------------------------------------------------------
(* The booking's answer: confirmTourBooking and rejectTourBooking of the    *)
(* admin, confirmBooking and rejectBooking of the provider of a hire        *)

\* The provider of a hire is looked up at its row, and must be the one who asks.
Owned == kind = "hire" => exists

ConfirmRead(p, b) ==
    /\ status[b] = "REQUESTED"
    /\ Owned
    /\ Begin(p, [Idle EXCEPT !.op = "confirm", !.booking = b])
    /\ UNCHANGED <<product, status, item, revived>>

RejectRead(p, b) ==
    /\ status[b] = "REQUESTED"
    /\ Owned
    /\ Begin(p, [Idle EXCEPT !.op = "reject", !.booking = b])
    /\ UNCHANGED <<product, status, item, revived>>

\* The update does not look at the status again.
ConfirmWrite(p) ==
    LET b == task[p].booking IN
    /\ task[p].op = "confirm"
    /\ status' = [status EXCEPT ![b] = "AWAITING_PAYMENT"]
    /\ revived' = IF status[b] = "OVER" THEN revived \union {b} ELSE revived
    /\ End(p)
    /\ UNCHANGED <<product, item>>

RejectWrite(p) ==
    /\ task[p].op = "reject"
    /\ status' = [status EXCEPT ![task[p].booking] = "OVER"]
    /\ End(p)
    /\ UNCHANGED <<product, item, revived>>

-----------------------------------------------------------------------------
(* What payments, the scheduler and admins do to the booking *)

\* handlePaymentCaptured does not look at the status it overwrites.
Capture(b) ==
    /\ status[b] \in {"AWAITING_PAYMENT", "OVER"}
    /\ status' = [status EXCEPT ![b] = "CONFIRMED"]
    /\ revived' = IF status[b] = "OVER" THEN revived \union {b} ELSE revived
    /\ UNCHANGED <<product, item, task>>

\* Expired, failed, refunded or completed.
Close(b) ==
    /\ status[b] \in {"AWAITING_PAYMENT", "CONFIRMED"}
    /\ status' = [status EXCEPT ![b] = "OVER"]
    /\ UNCHANGED <<product, item, task, revived>>

-----------------------------------------------------------------------------
(* updateTourById and deactivateTour, updateVehicle, updateGuide *)

\* The new capacity is not compared with the bookings.
EditProduct ==
    /\ exists
    /\ active' \in BOOLEAN
    /\ IF kind = "tour" THEN cap' \in 1..MaxCap ELSE UNCHANGED cap
    /\ UNCHANGED <<kind, exists, status, item, task, revived>>

DeactivateTour ==
    /\ kind = "tour"
    /\ active' = FALSE
    /\ UNCHANGED <<kind, exists, cap, status, item, task, revived>>

(* deleteVehicle, deleteGuide *)

\* A slip: tours are deleted as well.
DeletableAny == exists

Deletable == kind = "hire" /\ exists

\* A slip: only what was accepted keeps the row.
NoneAccepted == Accepted = {}

NoneHolds == Holding = {}

DeleteCheck(p) ==
    /\ Deletable
    /\ NoneHolds
    /\ Begin(p, [Idle EXCEPT !.op = "remove"])
    /\ UNCHANGED <<product, status, item, revived>>

DeleteWrite(p) ==
    /\ task[p].op = "remove"
    /\ exists
    /\ exists' = FALSE
    /\ End(p)
    /\ UNCHANGED <<kind, active, cap, status, item, revived>>

Abort(p) ==
    /\ task[p].op # "idle"
    /\ End(p)
    /\ UNCHANGED <<product, status, item, revived>>

-----------------------------------------------------------------------------
\* At most one process creates a booking or deletes the product.
Calm == \A p, q \in {r \in Procs : task[r].op \in {"check", "insert", "remove"}} : p = q

RequestStep(p) ==
    \/ CreateRead(p) \/ CheckSeats(p) \/ CheckDays(p) \/ CreateInsert(p)
    \/ \E b \in Bookings : ConfirmRead(p, b) \/ RejectRead(p, b)
    \/ ConfirmWrite(p) \/ RejectWrite(p)
    \/ DeleteCheck(p) \/ DeleteWrite(p)
    \/ Abort(p)

Step ==
    \/ \E p \in Procs : RequestStep(p)
    \/ \E b \in Bookings : Capture(b) \/ Close(b)
    \/ EditProduct \/ DeactivateTour

Next == Step /\ orderly' = (orderly /\ Calm')

Spec == Init /\ [][Next]_vars

-----------------------------------------------------------------------------
\* Bookings that hold the product and were never given up since they were made.
Kept ==
    {b \in Bookings : status[b] \in {"REQUESTED", "AWAITING_PAYMENT", "CONFIRMED"}} \ revived

\* A tour is overbooked by at most one party for each further request handled at
\* the time, and with one request at a time not at all; whatever the order of
\* their reads and inserts, and of confirmations, rejections, payments and edits
\* of the capacity in between.  (Bookings that a late payment or a late
\* confirmation brought back come on top.)
SeatBound ==
    kind = "tour" => Cardinality(Seats(Kept)) <= MaxCap + MaxParty * (Cardinality(Procs) - 1)

\* ... and on no day is a vehicle or guide booked more often than there are
\* requests handled at the time.
DayBound ==
    kind = "hire" =>
        \A d \in 1..LastDay :
            Cardinality({b \in Kept : d \in Nights(item[b].span)}) <= Cardinality(Procs)

\* A booking that holds a vehicle or guide has one, if creations and deletions did
\* not overlap.
NoOrphan == orderly /\ Kept # {} => exists
=============================================================================
