------------------------------ MODULE Listings ------------------------------
(***************************************************************************)
(* A homestay and one of its room types, as HomestayService keeps them:    *)
(* the room's price, its discount and the final price derived from them,   *)
(* and the deletion of the room or of the homestay, which only makes it    *)
(* inactive, and only if no booking holds the room.  The bookings are made *)
(* by BookingService.createHomestayBooking; what becomes of them is the    *)
(* subject of RoomInventory and Checkout and is abstracted here.           *)
(***************************************************************************)
EXTENDS Integers, FiniteSets

CONSTANTS
    Bookings,      \* ids of Booking rows for the room
    Procs,         \* requests handled at the same time
    MaxPrice       \* largest base price

\* The assumptions about the constants, which Desk makes.
ListingsAssumption ==
    /\ IsFiniteSet(Procs)
    /\ MaxPrice \in Nat \ {0}

VARIABLES
    open,          \* Homestay.isActive
    room,          \* the HomestayRoom row
    status,        \* of the bookings, HOLDING for REQUESTED to CONFIRMED
    task,          \* the request each process handles
    retired,       \* history: deleted, and not made active again since
    revived,       \* history: bookings that were over and are paid for after all
    orderly        \* history: edits did not overlap, nor bookings with deletions

vars == <<open, room, status, task, retired, revived, orderly>>

-----------------------------------------------------------------------------
\* A room may cost less than its discount.
Prices == 1..MaxPrice
Discounts == 0..MaxPrice + 1

\* A slip: the final price is not kept from going below zero.
FinalUnclamped(b, d) == b - d

FinalPrice(b, d) == IF d > b THEN 0 ELSE b - d

Task == [op : {"idle", "create", "edit", "book", "drop", "close"},
         base : 0..MaxPrice,
         discount : Discounts]

Idle == [op |-> "idle", base |-> 0, discount |-> 0]

NoRoom == [exists |-> FALSE, active |-> FALSE, base |-> 1, discount |-> 0, final |-> 1]

TypeOK ==
    /\ open \in BOOLEAN
    /\ room \in [exists : BOOLEAN, active : BOOLEAN,
                 base : Prices, discount : Discounts, final : 0..MaxPrice]
    /\ status \in [Bookings -> {"NONE", "HOLDING", "OVER"}]
    /\ task \in [Procs -> Task]
    /\ retired \in BOOLEAN
    /\ revived \in SUBSET Bookings
    /\ orderly \in BOOLEAN

Init ==
    /\ open = TRUE
    /\ room = NoRoom
    /\ status = [b \in Bookings |-> "NONE"]
    /\ task = [p \in Procs |-> Idle]
    /\ retired = FALSE
    /\ revived = {}
    /\ orderly = TRUE

Begin(p, t) ==
    /\ task[p].op = "idle"
    /\ task' = [task EXCEPT ![p] = t]

End(p) == task' = [task EXCEPT ![p] = Idle]

-----------------------------------------------------------------------------
(* createRoom *)

CreateRead(p) ==
    /\ ~ room.exists
    /\ Begin(p, [Idle EXCEPT !.op = "create"])
    /\ UNCHANGED <<open, room, status, retired, revived>>

\* The first of them makes the room that is followed here.
CreateWrite(p) ==
    /\ task[p].op = "create"
    /\ ~ room.exists
    /\ \E b \in Prices, d \in Discounts, a \in BOOLEAN :
        room' = [exists |-> TRUE, active |-> a, base |-> b, discount |-> d,
                 final |-> FinalPrice(b, d)]
    /\ End(p)
    /\ UNCHANGED <<open, status, retired, revived>>

(* updateRoom, updateHomestay *)

EditRead(p) ==
    /\ room.exists
    /\ Begin(p, [op |-> "edit", base |-> room.base, discount |-> room.discount])
    /\ UNCHANGED <<open, room, status, retired, revived>>

\* The columns the request names (0 and -1: not named); the final price in any case,
\* from those and from what the others were when they were read.
EditWrite(p) ==
    /\ task[p].op = "edit"
    /\ \E b \in Prices \union {0}, d \in Discounts \union {-1}, a \in BOOLEAN :
        /\ room' = [room EXCEPT
            !.base     = IF b = 0 THEN @ ELSE b,
            !.discount = IF d = -1 THEN @ ELSE d,
            !.active   = a,
            !.final    = FinalPrice(IF b = 0 THEN task[p].base ELSE b,
                                    IF d = -1 THEN task[p].discount ELSE d)]
        /\ retired' = (retired /\ (a => room.active))
    /\ End(p)
    /\ UNCHANGED <<open, status, revived>>

EditHomestay ==
    /\ open' \in BOOLEAN
    /\ retired' = (retired /\ ~ open')
    /\ UNCHANGED <<room, status, task, revived>>

-----------------------------------------------------------------------------
(* createHomestayBooking reads the room before its transaction *)

BookRead(p) ==
    /\ room.exists /\ room.active /\ open
    /\ Begin(p, [Idle EXCEPT !.op = "book"])
    /\ UNCHANGED <<open, room, status, retired, revived>>

BookInsert(p) ==
    /\ task[p].op = "book"
    /\ \E b \in Bookings :
        /\ status[b] = "NONE"
        /\ status' = [status EXCEPT ![b] = "HOLDING"]
    /\ End(p)
    /\ UNCHANGED <<open, room, retired, revived>>

\* Rejected, expired, failed, refunded or completed; and confirmed by a late payment.
Settle(b) ==
    /\ \/ status[b] = "HOLDING" /\ status' = [status EXCEPT ![b] = "OVER"] /\ UNCHANGED revived
       \/ /\ status[b] = "OVER"
          /\ status' = [status EXCEPT ![b] = "HOLDING"]
          /\ revived' = revived \union {b}
    /\ UNCHANGED <<open, room, task, retired>>

-----------------------------------------------------------------------------
(* deleteRoom, deleteHomestay *)

\* A slip: a room may be deleted while one booking holds it.
HoldsSome == Cardinality({b \in Bookings : status[b] = "HOLDING"}) > 1

Holds == \E b \in Bookings : status[b] = "HOLDING"

DeleteCheck(p) ==
    /\ ~ Holds
    /\ \/ room.exists /\ Begin(p, [Idle EXCEPT !.op = "drop"])
       \/ Begin(p, [Idle EXCEPT !.op = "close"])
    /\ UNCHANGED <<open, room, status, retired, revived>>

DeleteWrite(p) ==
    /\ \/ task[p].op = "drop" /\ room' = [room EXCEPT !.active = FALSE] /\ UNCHANGED open
       \/ task[p].op = "close" /\ open' = FALSE /\ UNCHANGED room
    /\ retired' = TRUE
    /\ End(p)
    /\ UNCHANGED <<status, revived>>

Abort(p) ==
    /\ task[p].op # "idle"
    /\ End(p)
    /\ UNCHANGED <<open, room, status, retired, revived>>

-----------------------------------------------------------------------------
Doing(ops) == {p \in Procs : task[p].op \in ops}

Calm ==
    /\ Cardinality(Doing({"edit"})) <= 1
    /\ Doing({"book"}) = {} \/ Doing({"drop", "close"}) = {}

RequestStep(p) ==
    \/ CreateRead(p) \/ CreateWrite(p)
    \/ EditRead(p) \/ EditWrite(p)
    \/ BookRead(p) \/ BookInsert(p)
    \/ DeleteCheck(p) \/ DeleteWrite(p)
    \/ Abort(p)

Step ==
    \/ \E p \in Procs : RequestStep(p)
    \/ EditHomestay
    \/ \E b \in Bookings : Settle(b)

Next == Step /\ orderly' = (orderly /\ Calm')

Spec == Init /\ [][Next]_vars

-----------------------------------------------------------------------------
\* As long as no two edits of the room overlap, what a guest is charged is what the
\* price and the discount on display say, whatever was edited in between.
PriceIsDerived ==
    orderly /\ room.exists => room.final = FinalPrice(room.base, room.discount)

\* As long as no booking overlaps a deletion, nobody holds a room that was deleted,
\* with its homestay or alone, and not reopened.
RetiredIsFree ==
    orderly /\ retired => {b \in Bookings : status[b] = "HOLDING"} \subseteq revived
=============================================================================
