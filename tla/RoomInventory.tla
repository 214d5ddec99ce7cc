--------------------------- MODULE RoomInventory ---------------------------
(***************************************************************************)
(* The calendar of one homestay room and the bookings that hold nights of  *)
(* it: BookingService.createHomestayBooking, confirmBooking and            *)
(* rejectBooking, the expiry cron of SchedulerService, and the provider's  *)
(* RoomAvailabilityService edits.                                          *)
(*                                                                         *)
(* A handler is a process in Procs that reads the database in one step and *)
(* writes it in a later one; everything else may run in between.  A        *)
(* statement or a $transaction takes effect at once, at its commit.        *)
(* Postgres runs them READ COMMITTED and no handler locks what it read, so *)
(* a check made in the read step is not repeated by the write; the counter *)
(* itself is changed by atomic increments and never loses an update.       *)
(***************************************************************************)
EXTENDS Integers, FiniteSets

CONSTANTS
    Bookings,      \* ids a booking may be given
    Procs,         \* requests the server handles at the same time
    Nights,        \* dates of the calendar
    Ranges,        \* date ranges [from, to) a request may name
    MaxRooms,      \* bound: largest number of rooms one request asks for
    Capacity,      \* bound: largest count a provider posts for a night
    NoBooking      \* bk of a task that has no booking yet

ASSUME RoomAssumption ==
    /\ IsFiniteSet(Procs) /\ IsFiniteSet(Bookings)
    /\ Ranges \subseteq SUBSET Nights
    /\ MaxRooms \in Nat \ {0}
    /\ Capacity \in Nat
    /\ NoBooking \notin Bookings

VARIABLES
    rows,          \* nights that have a RoomAvailability row
    avail,         \* RoomAvailability.available (0 where there is no row)
    status,        \* Booking.status
    deadline,      \* Booking.expiresAt: not set, ahead of the clock, or passed
    stay,          \* nights of the booking's item
    rooms,         \* BookingItem.quantity
    task,          \* the handler each process is in, with what it has read
    sweep          \* bookings the running expiry job has still to handle

calendar == <<rows, avail>>
booking  == <<status, deadline, stay, rooms>>
vars     == <<rows, avail, status, deadline, stay, rooms, task, sweep>>

\* The refinement mapping: both keep the row's status and expiresAt as they are.
Lifecycle == INSTANCE BookingLifecycle
                 WITH Bookings <- Bookings, status <- status, deadline <- deadline

\* The rooms that nobody holds are those the calendar shows as available.
Ledger == INSTANCE RoomLedger WITH left <- avail

-----------------------------------------------------------------------------
(* A task: the step a handler has reached, the booking it was called for,  *)
(* and the nights and rooms a new booking asks for.  "doomed" is a create  *)
(* one of whose rows was deleted: its update by id cannot succeed.         *)

Task == [op : {"idle", "create", "doomed", "confirm", "checked", "reject"},
         bk : Bookings \union {NoBooking},
         nights : SUBSET Nights,
         rooms : 0..MaxRooms]

Idle == [op |-> "idle", bk |-> NoBooking, nights |-> {}, rooms |-> 0]

On(op, b) == [op |-> op, bk |-> b, nights |-> {}, rooms |-> 0]

\* The calendar rows in a date range.
RowsIn(N) == N \intersect rows

\* A plausible slip: the dates outside the range are lost from the result.
ReleasedRangeOnly(N, q) == [n \in RowsIn(N) |-> avail[n] + q]

\* Another: the count is set back to what was posted, not raised.
ReleasedToPosted(N, q) == [n \in Nights |-> IF n \in RowsIn(N) /\ q > 0 THEN Capacity ELSE avail[n]]

\* The counts after `q` rooms are added to the rows of N.
Released(N, q) == [n \in Nights |-> IF n \in RowsIn(N) THEN avail[n] + q ELSE avail[n]]

TypeOK ==
    /\ rows \in SUBSET Nights
    /\ avail \in [Nights -> Int]
    /\ status \in [Bookings -> Lifecycle!Status]
    /\ deadline \in [Bookings -> Lifecycle!Deadline]
    /\ stay \in [Bookings -> SUBSET Nights]
    /\ rooms \in [Bookings -> 0..MaxRooms]
    /\ task \in [Procs -> Task]
    /\ sweep \in SUBSET Bookings

\* The provider has posted the calendar; nothing is booked yet.
Init ==
    /\ rows = Nights
    /\ avail = [n \in Nights |-> Capacity]
    /\ status = [b \in Bookings |-> "NONE"]
    /\ deadline = [b \in Bookings |-> "unset"]
    /\ stay = [b \in Bookings |-> {}]
    /\ rooms = [b \in Bookings |-> 0]
    /\ task = [p \in Procs |-> Idle]
    /\ sweep = {}

-----------------------------------------------------------------------------
(* createHomestayBooking *)

\* Plausible slips: the check compares with zero, not with the rooms asked, or
\* only looks for the row.
EnoughForOne(n, q) == avail[n] >= 0 \/ q = 0

EnoughIfPosted(n, q) == n \in rows \/ q = 0

Enough(n, q) == avail[n] >= q

\* The transaction reads the rows of the range: each night must have one, and
\* each must have the rooms asked for.  No lock is taken on them.
CreateRead(p) ==
    /\ task[p].op = "idle"
    /\ \E N \in Ranges, q \in 1..MaxRooms :
        /\ N # {}
        /\ N \subseteq rows
        /\ \A n \in N : Enough(n, q)
        /\ task' = [task EXCEPT ![p] =
                        [op |-> "create", bk |-> NoBooking, nights |-> N, rooms |-> q]]
    /\ UNCHANGED <<calendar, booking, sweep>>

\* A plausible slip: only the first of the nights read is decremented.
HeldOneNight(N, q) ==
    [n \in Nights |-> IF n \in N /\ n = (CHOOSE m \in N : TRUE) THEN avail[n] - q ELSE avail[n]]

Held(N, q) == [n \in Nights |-> IF n \in N THEN avail[n] - q ELSE avail[n]]

\* A plausible slip: a new booking skips the host's decision.
AcceptedAtOnce == "AWAITING_PAYMENT"

NewStatus == "REQUESTED"

\* The transaction commits: the booking is REQUESTED and every row that was
\* read is decremented.
CreateCommit(p) ==
    /\ task[p].op = "create"
    /\ \E b \in Bookings :
        /\ status[b] = "NONE"
        /\ status' = [status EXCEPT ![b] = NewStatus]
        /\ stay' = [stay EXCEPT ![b] = task[p].nights]
        /\ rooms' = [rooms EXCEPT ![b] = task[p].rooms]
    /\ avail' = Held(task[p].nights, task[p].rooms)
    /\ task' = [task EXCEPT ![p] = Idle]
    /\ UNCHANGED <<rows, deadline, sweep>>

-----------------------------------------------------------------------------
(* confirmBooking: read the booking, read the calendar, write the booking. *)

\* A plausible slip: a booking that was paid can be confirmed again.
OpenOrPaid(b) == status[b] \in {"REQUESTED", "CONFIRMED"}

Confirmable(b) == status[b] = "REQUESTED"

ConfirmRead(p, b) ==
    /\ task[p].op = "idle"
    /\ Confirmable(b)
    /\ task' = [task EXCEPT ![p] = On("confirm", b)]
    /\ UNCHANGED <<calendar, booking, sweep>>

\* A night below zero makes the handler throw; the request is over.
ConfirmCheck(p) ==
    /\ task[p].op = "confirm"
    /\ task' = [task EXCEPT ![p] =
                    IF \E n \in RowsIn(stay[task[p].bk]) : avail[n] < 0
                    THEN Idle ELSE On("checked", task[p].bk)]
    /\ UNCHANGED <<calendar, booking, sweep>>

\* update({ where: { id } }) does not look at the status again.
ConfirmWrite(p) ==
    /\ task[p].op = "checked"
    /\ status' = [status EXCEPT ![task[p].bk] = "AWAITING_PAYMENT"]
    /\ deadline' = [deadline EXCEPT ![task[p].bk] = "ahead"]
    /\ task' = [task EXCEPT ![p] = Idle]
    /\ UNCHANGED <<calendar, stay, rooms, sweep>>

-----------------------------------------------------------------------------
(* rejectBooking *)

Rejectable(b) == status[b] = "REQUESTED"

RejectRead(p, b) ==
    /\ task[p].op = "idle"
    /\ Rejectable(b)
    /\ task' = [task EXCEPT ![p] = On("reject", b)]
    /\ UNCHANGED <<calendar, booking, sweep>>

RejectCommit(p) ==
    LET b == task[p].bk IN
    /\ task[p].op = "reject"
    /\ avail' = Released(stay[b], rooms[b])
    /\ status' = [status EXCEPT ![b] = "REJECTED"]
    /\ task' = [task EXCEPT ![p] = Idle]
    /\ UNCHANGED <<rows, deadline, stay, rooms, sweep>>

\* Any statement of a handler may fail (a lost connection, a transaction
\* timeout, a row that is gone): its transaction is rolled back.
Abort(p) ==
    /\ task[p].op # "idle"
    /\ task' = [task EXCEPT ![p] = Idle]
    /\ UNCHANGED <<calendar, booking, sweep>>

-----------------------------------------------------------------------------
(* expireStaleBookings, every five minutes *)

Lapse(b) ==
    /\ deadline[b] = "ahead"
    /\ deadline' = [deadline EXCEPT ![b] = "passed"]
    /\ UNCHANGED <<calendar, status, stay, rooms, task, sweep>>

\* Plausible slips: the query compares expiresAt the wrong way round, or
\* selects by status alone.
DueWrongWay(b) == status[b] = "AWAITING_PAYMENT" /\ deadline[b] = "ahead"

DueByStatus(b) == status[b] \in {"REQUESTED", "AWAITING_PAYMENT"}

Due(b) == status[b] = "AWAITING_PAYMENT" /\ deadline[b] = "passed"

\* The query of a cron run; its result is worked off booking by booking.
ExpireScan ==
    /\ sweep = {}
    /\ sweep' = {b \in Bookings : Due(b)}
    /\ sweep' # {}
    /\ UNCHANGED <<calendar, booking, task>>

\* A plausible slip: the rooms of a booking that ends are not given back.
EndedKeepsRooms(b) == avail

EndedReturnsRooms(b) == Released(stay[b], rooms[b])

\* One booking's transaction: the rooms go back and the status is EXPIRED,
\* whatever the status has become since the query.
ExpireCommit(b) ==
    /\ b \in sweep
    /\ avail' = EndedReturnsRooms(b)
    /\ status' = [status EXCEPT ![b] = "EXPIRED"]
    /\ sweep' = sweep \ {b}
    /\ UNCHANGED <<rows, deadline, stay, rooms, task>>

\* The transaction fails: it is logged and the loop goes on.
ExpireFail(b) ==
    /\ b \in sweep
    /\ sweep' = sweep \ {b}
    /\ UNCHANGED <<calendar, booking, task>>

-----------------------------------------------------------------------------
(* The provider's calendar edits *)

\* setAvailability upserts every date of the range to an absolute count.
SetAvailability(N, v) ==
    /\ N # {}
    /\ rows' = rows \union N
    /\ avail' = [n \in Nights |-> IF n \in N THEN v ELSE avail[n]]
    /\ UNCHANGED <<booking, task, sweep>>

\* blockDates is setAvailability with a count of zero.
BlockDates(N) == SetAvailability(N, 0)

\* updateSingleDate needs an existing row.
UpdateSingleDate(n, v) ==
    /\ n \in rows
    /\ SetAvailability({n}, v)

\* deleteMany over the range, unconditionally.  A create that has read one of
\* the rows can no longer update it.
DeleteAvailabilityRange(N) ==
    /\ RowsIn(N) # {}
    /\ rows' = rows \ N
    /\ avail' = [n \in Nights |-> IF n \in N THEN 0 ELSE avail[n]]
    /\ task' = [p \in Procs |->
                    IF task[p].op = "create" /\ task[p].nights \intersect N # {}
                    THEN [task[p] EXCEPT !.op = "doomed"] ELSE task[p]]
    /\ UNCHANGED <<booking, sweep>>

-----------------------------------------------------------------------------
\* What Checkout writes into the booking: an outcome of the payment, for a
\* booking that was offered.  It never touches the calendar.
PaymentWrites(b) ==
    /\ deadline[b] # "unset"
    /\ \E s \in Lifecycle!Settled : status' = [status EXCEPT ![b] = s]
    /\ UNCHANGED <<calendar, deadline, stay, rooms, task, sweep>>

\* The server restarts: what it had in memory is gone, open transactions are
\* rolled back.
Restart ==
    /\ task' = [p \in Procs |-> Idle]
    /\ sweep' = {}
    /\ UNCHANGED <<calendar, booking>>

HandlerStep(p) ==
    \/ CreateRead(p) \/ CreateCommit(p)
    \/ \E b \in Bookings : ConfirmRead(p, b) \/ RejectRead(p, b)
    \/ ConfirmCheck(p) \/ ConfirmWrite(p) \/ RejectCommit(p) \/ Abort(p)

CronStep ==
    \/ ExpireScan
    \/ \E b \in Bookings : ExpireCommit(b) \/ ExpireFail(b)

ProviderEdit ==
    \/ \E N \in Ranges : BlockDates(N) \/ DeleteAvailabilityRange(N)
    \/ \E N \in Ranges, v \in 0..Capacity : SetAvailability(N, v)
    \/ \E n \in Nights, v \in 0..Capacity : UpdateSingleDate(n, v)

BookingNext ==
    \/ \E p \in Procs : HandlerStep(p)
    \/ CronStep
    \/ \E b \in Bookings : Lapse(b) \/ PaymentWrites(b)
    \/ Restart

Next == BookingNext \/ ProviderEdit

Spec == Init /\ [][Next]_vars

\* The calendar as posted once, without later edits by the provider.
BookingSpec == Init /\ [][BookingNext]_vars

\* Requests do not get in each other's way: no two of them decide on the same
\* booking, or take rooms of the same night, at the same time.
Undisturbed ==
    \A p, q \in Procs : p # q =>
        /\ task[p].bk = task[q].bk => task[p].bk = NoBooking
        /\ task[p].op = "create" /\ task[q].op = "create" => task[p].nights \intersect task[q].nights = {}

\* Such requests, with the cron, payment callbacks and restarts still running
\* beside them.  Time passes, and the cron keeps running: a booking's
\* transaction may fail in some runs but not in all of them, and each later run
\* tries it again.
OrderlyNext == BookingNext /\ Undisturbed'

OrderlySpec ==
    /\ Init /\ [][OrderlyNext]_vars
    /\ WF_vars(ExpireScan)
    /\ \A b \in Bookings : WF_vars(Lapse(b)) /\ SF_vars(ExpireCommit(b))

-----------------------------------------------------------------------------
(* Properties under any interleaving *)

\* Requests that passed the check for night n and have not written yet.
Claimants(n) == {p \in Procs : task[p].op = "create" /\ n \in task[p].nights}

\* createHomestayBooking checks and decrements without a lock, so a night can
\* be oversold; but never by more than MaxRooms for each request the server
\* runs at the same time, however many requests come one after the other and
\* whatever the provider sets the count to.  (A request that has passed the
\* check and not yet written still has its share to spend.)
OversellBound ==
    \A n \in Nights : avail[n] + MaxRooms * Cardinality(Procs \ Claimants(n)) >= 0

\* What a handler carries from its read to its write stays good enough to act
\* on, however late the write comes: a decision is about a booking that exists,
\* and the expiry job only holds bookings that were offered for payment.
CarriedIsSound ==
    /\ \A p \in Procs : task[p].op \in {"confirm", "checked", "reject"} =>
            task[p].bk \in Bookings /\ status[task[p].bk] # "NONE"
    /\ \A b \in sweep : deadline[b] # "unset"
    /\ \A b \in Bookings : status[b] = "NONE" => deadline[b] = "unset"

\* The inductive invariant behind the theorems of RoomInventory_proofs.
IInv ==
    /\ TypeOK
    /\ CarriedIsSound
    /\ OversellBound

\* Every write of a handler is one the lifecycle allows.
LifecycleSpec == Lifecycle!Spec

-----------------------------------------------------------------------------
(* Properties when requests do not get in each other's way *)

Ended == {"NONE", "REJECTED", "EXPIRED"}

\* Rooms of night n that the bookings H have taken, as a number of keys.
RoomsOf(n, H) ==
    Cardinality({k \in H \X (1..MaxRooms) : n \in stay[k[1]] /\ k[2] <= rooms[k[1]]})

RoomsTaken(n, S) == RoomsOf(n, {b \in Bookings : status[b] \in S})

\* No night is booked beyond the rooms posted.
NeverOversold == \A n \in Nights : avail[n] >= 0

\* The calendar never shows a room as free that an open booking holds: no
\* hold is given back twice or before the booking ends.
NoPhantomRoom ==
    \A n \in Nights :
        avail[n] <= Capacity - RoomsTaken(n, {"REQUESTED", "AWAITING_PAYMENT"})

\* Checking first and writing later comes to the same as doing both at once: rooms are
\* taken and given back as a single clerk would.
LedgerSpec == Ledger!Spec

\* A request is decided once: only an open request is accepted or declined,
\* and a declined one keeps its status.
DecidedOnce ==
    [][\A b \in Bookings : status'[b] # status[b] =>
        /\ status[b] # "REJECTED"
        /\ status'[b] \in {"REJECTED", "AWAITING_PAYMENT"} => status[b] = "REQUESTED"]_vars

\* Rejection and expiry give rooms back in the step that ends the booking:
\* failures, cron runs and restarts never lose a room of a calendar the
\* provider does not edit.
NoRoomLost ==
    \A n \in Nights :
        avail[n] >= Capacity - RoomsTaken(n, Lifecycle!Status \ Ended)

\* A booking whose payment window has run out does not stay open for payment:
\* the cron gets to it, although single transactions fail, the server
\* restarts, and a slow confirmation may open the window again.
AwaitingEnds ==
    \A b \in Bookings : status[b] = "AWAITING_PAYMENT" ~> status[b] # "AWAITING_PAYMENT"
=============================================================================
