------------------------------- MODULE Offers -------------------------------
(***************************************************************************)
(* One coupon code: the row an admin keeps (CouponService.createCoupon to  *)
(* revokeFromUser), and the bookings made with it.  A booking handler asks *)
(* validateAndCompute for the discount, creates the booking in a later     *)
(* transaction and records the redemption in a third; the coupon may be    *)
(* changed or deleted in between.  CouponSlots has the limits of use.      *)
(***************************************************************************)
EXTENDS Integers

CONSTANTS
    Bookings,      \* ids of the bookings made with the code
    Users,
    Procs,         \* booking requests handled at the same time
    Terms,         \* what a coupon's row may say
    Orders,        \* what is booked: a price for each of some participants
    Nothing

\* A cap, a least order and a least number of participants are validated by the DTO;
\* value is not when the coupon is FIXED_AMOUNT, nor when an update leaves out the type.
Term == [percent : BOOLEAN,                     \* CouponType.PERCENTAGE, not FIXED_AMOUNT
         each : BOOLEAN,                        \* CouponApplyTo.PER_PERSON
         value : Int,                           \* discountValue
         cap : (Nat \ {0}) \union {Nothing},    \* maxDiscountAmount
         private : BOOLEAN,                     \* CouponVisibility
         audience : SUBSET Users,               \* those whose roles let them in
         least : Nat, group : Nat]              \* minOrderAmount, minParticipants

Order == [unit : Nat, heads : Nat \ {0}]

\* The columns of a booking, and the deal.
Sale == [order : Orders, deal : Terms, discount : Int, linked : BOOLEAN]

\* The assumptions about the constants, which Desk makes.
OffersAssumption ==
    /\ Terms \subseteq Term
    /\ Orders \subseteq Order
    /\ Nothing \notin Terms \union Orders \union Bookings \union Sale \union Int

VARIABLES
    offer,         \* the terms of the coupon row, Nothing where there is no row
    open,          \* isActive and within its dates
    assigned,      \* users with a CouponUserAssignment
    booking,       \* [order, deal, discount, linked] of the row, Nothing before it exists
    ledger,        \* discountAmount of the booking's CouponUsage row, if it has one
    task,          \* the request each process handles
    orderly        \* history: no redemption was cut off before it was recorded

vars == <<offer, open, assigned, booking, ledger, task, orderly>>

-----------------------------------------------------------------------------
(* "lost" is a request whose coupon row was deleted after it read it.  The *)
(* "deal" is what the row said then; a booking does not keep it, the model *)
(* does, to say what was promised.                                         *)

Task == [op : {"idle", "create", "record"}, order : Orders \union {Nothing},
         deal : Terms \union {Nothing}, bk : Bookings \union {Nothing}, lost : BOOLEAN]

Idle == [op |-> "idle", order |-> Nothing, deal |-> Nothing, bk |-> Nothing, lost |-> FALSE]

TypeOK ==
    /\ offer \in Terms \union {Nothing}
    /\ open \in BOOLEAN
    /\ assigned \in SUBSET Users
    /\ booking \in [Bookings -> Sale \union {Nothing}]
    /\ ledger \in [Bookings -> Int \union {Nothing}]
    /\ task \in [Procs -> Task]
    /\ orderly \in BOOLEAN

Init ==
    /\ offer = Nothing /\ open = FALSE /\ assigned = {}
    /\ booking = [b \in Bookings |-> Nothing]
    /\ ledger = [b \in Bookings |-> Nothing]
    /\ task = [p \in Procs |-> Idle]
    /\ orderly = TRUE

-----------------------------------------------------------------------------
(* computeDiscount *)

Total(o) == o.unit * o.heads

Raw(t, o) ==
    IF t.percent
    THEN IF t.each THEN ((o.unit * t.value) \div 100) * o.heads
                   ELSE (Total(o) * t.value) \div 100
    ELSE t.value

Least(a, b) == IF a <= b THEN a ELSE b

Capped(t, o) == IF t.cap = Nothing THEN Raw(t, o) ELSE Least(Raw(t, o), t.cap)

\* A slip: the order's own amount is no limit.
CappedOnly(t, o) == IF Capped(t, o) <= 0 THEN 0 ELSE Capped(t, o)

Discount(t, o) ==
    LET d == Least(Capped(t, o), Total(o)) IN IF d <= 0 THEN 0 ELSE d

-----------------------------------------------------------------------------
(* The admin *)

\* The code is unique; a row that is created again has another id.
CreateCoupon(t) ==
    /\ offer = Nothing
    /\ offer' = t
    /\ open' \in BOOLEAN
    /\ UNCHANGED <<assigned, booking, ledger, task, orderly>>

UpdateCoupon(t) ==
    /\ offer # Nothing
    /\ offer' = t
    /\ open' \in BOOLEAN
    /\ UNCHANGED <<assigned, booking, ledger, task, orderly>>

\* validFrom or validUntil is reached.
DatePasses ==
    /\ offer # Nothing
    /\ open' = ~open
    /\ UNCHANGED <<offer, assigned, booking, ledger, task, orderly>>

\* The foreign keys: usages restrict the deletion, assignments go with the row, bookings
\* lose their couponId.
DeleteCoupon ==
    /\ offer # Nothing
    /\ \A b \in Bookings : ledger[b] = Nothing
    /\ offer' = Nothing /\ open' = FALSE /\ assigned' = {}
    /\ booking' = [b \in Bookings |-> IF booking[b] = Nothing THEN Nothing
                                      ELSE [booking[b] EXCEPT !.linked = FALSE]]
    /\ task' = [p \in Procs |-> IF task[p].op = "idle" THEN Idle
                                ELSE [task[p] EXCEPT !.lost = TRUE]]
    /\ orderly' = (orderly /\ \A p \in Procs : task[p].op # "record")
    /\ UNCHANGED ledger

AssignToUsers(u) ==
    /\ offer # Nothing
    /\ assigned' = assigned \union {u}
    /\ UNCHANGED <<offer, open, booking, ledger, task, orderly>>

RevokeFromUser(u) ==
    /\ u \in assigned
    /\ assigned' = assigned \ {u}
    /\ UNCHANGED <<offer, open, booking, ledger, task, orderly>>

-----------------------------------------------------------------------------
(* A booking *)

\* A private coupon is for those assigned to it as well.
Admits(u) == u \in offer.audience \/ (offer.private /\ u \in assigned)

\* The row and the user's assignment are read by one query.  The further reads, of the
\* usages and of earlier bookings, only refuse.
Validate(p, u, o) ==
    /\ task[p].op = "idle"
    /\ offer # Nothing /\ open
    /\ Total(o) >= offer.least
    /\ Admits(u)
    /\ o.heads >= offer.group
    /\ task' = [task EXCEPT ![p] = [op |-> "create", order |-> o, deal |-> offer,
                                    bk |-> Nothing, lost |-> FALSE]]
    /\ UNCHANGED <<offer, open, assigned, booking, ledger, orderly>>

\* The booking's transaction fails when the coupon it names is gone.
CreateBooking(p, b) ==
    /\ task[p].op = "create" /\ ~task[p].lost
    /\ booking[b] = Nothing
    /\ booking' = [booking EXCEPT ![b] =
            [order |-> task[p].order, deal |-> task[p].deal,
             discount |-> Discount(task[p].deal, task[p].order), linked |-> TRUE]]
    /\ task' = [task EXCEPT ![p].op = "record", ![p].bk = b]
    /\ UNCHANGED <<offer, open, assigned, ledger, orderly>>

\* recordUsage, with the discount the handler carries; the foreign key refuses a usage of a
\* coupon that is gone, and the error is swallowed.
RecordUsage(p) ==
    /\ task[p].op = "record"
    /\ ledger' = IF task[p].lost THEN ledger
                 ELSE [ledger EXCEPT ![task[p].bk] = Discount(task[p].deal, task[p].order)]
    /\ task' = [task EXCEPT ![p] = Idle]
    /\ UNCHANGED <<offer, open, assigned, booking, orderly>>

\* A statement fails, or the server stops: a usage that was due is never recorded.
Abort(p) ==
    /\ task[p].op # "idle"
    /\ task' = [task EXCEPT ![p] = Idle]
    /\ orderly' = (orderly /\ task[p].op # "record")
    /\ UNCHANGED <<offer, open, assigned, booking, ledger>>

-----------------------------------------------------------------------------
AdminStep ==
    \/ \E t \in Terms : CreateCoupon(t) \/ UpdateCoupon(t)
    \/ DatePasses \/ DeleteCoupon
    \/ \E u \in Users : AssignToUsers(u) \/ RevokeFromUser(u)

RequestStep(p) ==
    \/ \E u \in Users, o \in Orders : Validate(p, u, o)
    \/ \E b \in Bookings : CreateBooking(p, b)
    \/ RecordUsage(p) \/ Abort(p)

Next == AdminStep \/ \E p \in Procs : RequestStep(p)

Spec == Init /\ [][Next]_vars

-----------------------------------------------------------------------------
Made == {b \in Bookings : booking[b] # Nothing}

\* Whatever an admin enters, a discount is an amount between nothing and the price, within
\* the cap, and for a percentage no more than that share of the price, also where it is
\* rounded for each person.
DiscountWithinTerms ==
    \A b \in Made :
        LET s == booking[b] IN
        /\ 0 <= s.discount /\ s.discount <= Total(s.order)
        /\ s.deal.cap # Nothing => s.discount <= s.deal.cap
        /\ s.deal.percent /\ s.deal.value >= 0 => 100 * s.discount <= Total(s.order) * s.deal.value

\* What the ledger says was given is what the booking was reduced by, and its coupon is
\* still there, however the coupon was changed or its deletion tried meanwhile.
LedgerIsTrue ==
    \A b \in Bookings : ledger[b] # Nothing =>
        b \in Made /\ booking[b].linked /\ ledger[b] = booking[b].discount /\ offer # Nothing

\* A discount that was given is in the ledger, or about to be, unless its recording was cut off.
LedgerIsComplete ==
    orderly => \A b \in Made :
        ledger[b] # Nothing \/ \E p \in Procs : task[p].op = "record" /\ task[p].bk = b
=============================================================================
