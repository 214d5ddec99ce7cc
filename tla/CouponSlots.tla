---------------------------- MODULE CouponSlots ----------------------------
(***************************************************************************)
(* The use limits of one coupon: CouponService.validateAndCompute,         *)
(* recordUsage and decrementCurrentUses, called by the booking handlers,   *)
(* the expiry cron and the admin.                                          *)
(*                                                                         *)
(* Validation reads, the booking is committed, and only then the use is    *)
(* recorded; an ending booking is committed, and only then its slot is     *)
(* freed.  Each of these is a step of its own, others run in between, and  *)
(* the server may fail after any of them.                                  *)
(*                                                                         *)
(* Every booking here carries the coupon, and the coupon has both limits.  *)
(* Its other rules (dates, roles, products, amounts) depend on the request *)
(* alone and are left out: a request that breaks one changes nothing.      *)
(***************************************************************************)
EXTENDS Integers, FiniteSets

CONSTANTS
    Bookings,      \* ids a booking may be given
    Users,
    Owner,         \* the user a booking id is for
    Tours,         \* bookings of tours, which an admin decides on
    Procs,         \* requests the server handles at the same time
    MaxCap,        \* bound: largest maxUsesTotal an admin sets
    MaxPerUser,    \* maxUsesPerUser
    NoBooking, NoUser

ASSUME CouponAssumption ==
    /\ Owner \in [Bookings -> Users]
    /\ Tours \subseteq Bookings
    /\ IsFiniteSet(Procs) /\ Procs # {}
    /\ MaxCap \in Nat \ {0}
    /\ MaxPerUser \in Nat \ {0}
    /\ NoBooking \notin Bookings
    /\ NoUser \notin Users

VARIABLES
    cap,           \* Coupon.maxUsesTotal
    uses,          \* Coupon.currentUses
    usages,        \* bookings that have a CouponUsage row
    status,        \* Booking.status
    offered,       \* bookings with a payment window, for which a payment may be made
    crossed,       \* history: bookings on which a write met one that had ended
    task,          \* the handler each process is in
    sweep,         \* bookings the running expiry job has still to expire
    freeing        \* the booking it has expired and not yet freed the slot of

vars == <<cap, uses, usages, status, offered, crossed, task, sweep, freeing>>

coupon  == <<cap, uses, usages>>
booking == <<status, offered, crossed>>
cron    == <<sweep, freeing>>

-----------------------------------------------------------------------------
Ended == {"REJECTED", "EXPIRED"}

Status == {"NONE", "REQUESTED", "AWAITING_PAYMENT", "SETTLED"} \union Ended

Task == [op : {"idle", "count", "create", "record", "confirm", "reject", "free"},
         user : Users \union {NoUser},
         bk : Bookings \union {NoBooking}]

Idle == [op |-> "idle", user |-> NoUser, bk |-> NoBooking]

On(op, b) == [op |-> op, user |-> Owner[b], bk |-> b]

TypeOK ==
    /\ cap \in 0..MaxCap
    /\ uses \in Nat
    /\ usages \in SUBSET Bookings
    /\ status \in [Bookings -> Status]
    /\ offered \in SUBSET Bookings
    /\ crossed \in SUBSET Bookings
    /\ task \in [Procs -> Task]
    /\ sweep \in SUBSET Bookings
    /\ freeing \in SUBSET Bookings

Init ==
    /\ cap = MaxCap
    /\ uses = 0
    /\ usages = {}
    /\ status = [b \in Bookings |-> "NONE"]
    /\ offered = {}
    /\ crossed = {}
    /\ task = [p \in Procs |-> Idle]
    /\ sweep = {}
    /\ freeing = {}

-----------------------------------------------------------------------------
\* Booking b gets status x.  No write by id looks at what it overwrites, and so
\* may meet a booking that has ended since its handler read it.
SetStatus(b, x) ==
    /\ status' = [status EXCEPT ![b] = x]
    /\ crossed' = IF status[b] \in Ended THEN crossed \union {b} ELSE crossed

-----------------------------------------------------------------------------
(* validateAndCompute, then the booking, then recordUsage *)

\* A plausible slip: the last use is given twice.
BelowCapOrAt == uses <= cap

BelowCap == uses < cap

\* The coupon is read and its total checked.
ValidateTotal(p, u) ==
    /\ task[p].op = "idle"
    /\ BelowCap
    /\ task' = [task EXCEPT ![p] = [op |-> "count", user |-> u, bk |-> NoBooking]]
    /\ UNCHANGED <<coupon, booking, cron>>

UsesOf(u) == {b \in usages : Owner[b] = u}

\* A plausible slip: the count is compared with >, not with >=.
BelowOwnCapOrAt(u) == Cardinality(UsesOf(u)) <= MaxPerUser

BelowOwnCap(u) == Cardinality(UsesOf(u)) < MaxPerUser

\* The user's rows are counted.
ValidateUser(p) ==
    /\ task[p].op = "count"
    /\ BelowOwnCap(task[p].user)
    /\ task' = [task EXCEPT ![p].op = "create"]
    /\ UNCHANGED <<coupon, booking, cron>>

CreateCommit(p) ==
    /\ task[p].op = "create"
    /\ \E b \in Bookings :
        /\ status[b] = "NONE" /\ Owner[b] = task[p].user
        /\ SetStatus(b, "REQUESTED")
        /\ task' = [task EXCEPT ![p] = On("record", b)]
    /\ UNCHANGED <<coupon, offered, cron>>

WithRow(b) == usages \union {b}

\* A plausible slip: the counter is not taken beyond the limit, but the row is
\* written.
OneMoreWithinCap == IF uses < cap THEN uses + 1 ELSE uses

OneMore == uses + 1

\* One transaction: the row and the increment.  A second row for a booking
\* meets the unique constraint and nothing is written.
RecordUsage(p) ==
    /\ task[p].op = "record"
    /\ IF task[p].bk \in usages THEN UNCHANGED <<uses, usages>>
       ELSE uses' = OneMore /\ usages' = WithRow(task[p].bk)
    /\ task' = [task EXCEPT ![p] = Idle]
    /\ UNCHANGED <<cap, booking, cron>>

-----------------------------------------------------------------------------
(* The end of a booking, then decrementCurrentUses *)

OneLess == IF uses > 0 THEN uses - 1 ELSE uses

ConfirmRead(p, b) ==
    /\ task[p].op = "idle"
    /\ status[b] = "REQUESTED"
    /\ task' = [task EXCEPT ![p] = On("confirm", b)]
    /\ UNCHANGED <<coupon, booking, cron>>

ConfirmWrite(p) ==
    /\ task[p].op = "confirm"
    /\ SetStatus(task[p].bk, "AWAITING_PAYMENT")
    /\ offered' = offered \union {task[p].bk}
    /\ task' = [task EXCEPT ![p] = Idle]
    /\ UNCHANGED <<coupon, cron>>

RejectRead(p, b) ==
    /\ task[p].op = "idle"
    /\ status[b] = "REQUESTED"
    /\ task' = [task EXCEPT ![p] = On("reject", b)]
    /\ UNCHANGED <<coupon, booking, cron>>

\* A plausible slip: no booking that is rejected gives its slot back.
FreesNone(b) == FALSE

\* rejectBooking frees the slot next; the admin's rejectTourBooking does not.
FreesSlot(b) == b \notin Tours

RejectCommit(p) ==
    LET b == task[p].bk IN
    /\ task[p].op = "reject"
    /\ SetStatus(b, "REJECTED")
    /\ task' = [task EXCEPT ![p] = IF FreesSlot(b) THEN On("free", b) ELSE Idle]
    /\ UNCHANGED <<coupon, offered, cron>>

FreeSlot(p) ==
    /\ task[p].op = "free"
    /\ uses' = OneLess
    /\ task' = [task EXCEPT ![p] = Idle]
    /\ UNCHANGED <<cap, usages, booking, cron>>

\* The cron's query: bookings awaiting payment whose window has passed.
ExpireScan ==
    /\ sweep = {} /\ freeing = {}
    /\ \E S \in SUBSET {b \in Bookings : status[b] = "AWAITING_PAYMENT"} :
        S # {} /\ sweep' = S
    /\ UNCHANGED <<coupon, booking, task, freeing>>

ExpireCommit(b) ==
    /\ freeing = {}
    /\ b \in sweep
    /\ SetStatus(b, "EXPIRED")
    /\ sweep' = sweep \ {b}
    /\ freeing' = {b}
    /\ UNCHANGED <<coupon, offered, task>>

ExpireFree ==
    /\ freeing # {}
    /\ uses' = OneLess
    /\ freeing' = {}
    /\ UNCHANGED <<cap, usages, booking, task, sweep>>

-----------------------------------------------------------------------------
\* A payment that was begun while the booking awaited it is settled, and the
\* booking with it, whatever has become of the booking since.
Settle(b) ==
    /\ b \in offered
    /\ SetStatus(b, "SETTLED")
    /\ UNCHANGED <<coupon, offered, task, cron>>

\* updateCoupon sets the limit without a look at the uses.
UpdateCoupon(c) ==
    /\ cap' = c
    /\ UNCHANGED <<uses, usages, booking, task, cron>>

\* A request is refused or fails before it has written anything.
Refuse(p) ==
    /\ task[p].op \in {"count", "create", "confirm", "reject"}
    /\ task' = [task EXCEPT ![p] = Idle]
    /\ UNCHANGED <<coupon, booking, cron>>

\* Its recordUsage or decrementCurrentUses fails: that is logged, and what was
\* written before stays.
Abort(p) ==
    /\ task[p].op \in {"record", "free"}
    /\ task' = [task EXCEPT ![p] = Idle]
    /\ UNCHANGED <<coupon, booking, cron>>

\* One booking's expiry fails, or the decrement after it does.
CronFails ==
    /\ \/ freeing # {} /\ freeing' = {} /\ UNCHANGED sweep
       \/ /\ freeing = {}
          /\ \E b \in sweep : sweep' = sweep \ {b}
          /\ UNCHANGED freeing
    /\ UNCHANGED <<coupon, booking, task>>

Restart ==
    /\ task' = [p \in Procs |-> Idle]
    /\ sweep' = {}
    /\ freeing' = {}
    /\ UNCHANGED <<coupon, booking>>

-----------------------------------------------------------------------------
HandlerStep(p) ==
    \/ \E u \in Users : ValidateTotal(p, u)
    \/ \E b \in Bookings : ConfirmRead(p, b) \/ RejectRead(p, b)
    \/ ValidateUser(p) \/ CreateCommit(p) \/ RecordUsage(p)
    \/ ConfirmWrite(p) \/ RejectCommit(p) \/ FreeSlot(p) \/ Refuse(p)

SmoothNext ==
    \/ \E p \in Procs : HandlerStep(p)
    \/ \E b \in Bookings : ExpireCommit(b) \/ Settle(b)
    \/ ExpireScan \/ ExpireFree

Next ==
    \/ SmoothNext
    \/ \E c \in 0..MaxCap : UpdateCoupon(c)
    \/ \E p \in Procs : Abort(p)
    \/ CronFails \/ Restart

Spec == Init /\ [][Next]_vars

\* What was begun is finished, and nobody edits the coupon.
SmoothSpec == Init /\ [][SmoothNext]_vars

-----------------------------------------------------------------------------
(* Properties under any interleaving *)

Claims == {p \in Procs : task[p].op \in {"count", "create", "record"}}

\* Validation and the increment are apart, so a coupon can be used beyond its
\* limit; but never beyond the largest limit it had by more than one use for
\* each other request that is served at the same time.  (A request that passed
\* validation has its use still to spend.)
CapBound == uses + Cardinality(Claims) <= MaxCap + Cardinality(Procs) - 1

OwnClaims(u) == {p \in Procs : task[p].op \in {"create", "record"} /\ task[p].user = u}

\* The same for the uses of one user, however many of them were freed again.
UserBound ==
    \A u \in Users :
        Cardinality(UsesOf(u)) + Cardinality(OwnClaims(u))
            <= MaxPerUser + Cardinality(Procs) - 1

Live == {b \in usages : status[b] \notin Ended}

\* Slots on their way back.
Pending == Cardinality({p \in Procs : task[p].op = "free"}) + Cardinality(freeing)

\* Bookings that ended before their use was recorded, or without it.
Unrecorded == {b \in Bookings : status[b] \in Ended /\ b \notin usages}

\* The end of a booking frees a slot even if its own use is not recorded, yet or
\* ever, and the slot is then another's.  But it costs no more than that: while no
\* write has met a booking that had ended, the counter is short of the recorded
\* bookings that live, and of the slots on their way back, by at most one for each
\* booking that ended unrecorded; and it is never negative, and never counts more
\* than there are rows.
LiveAreCounted ==
    /\ crossed = {} => Cardinality(Live) + Pending <= uses + Cardinality(Unrecorded)
    /\ 0 <= uses /\ uses <= Cardinality(usages)

\* A handler that acts on a booking acts for the user who made it.
TasksGrounded ==
    \A p \in Procs :
        /\ task[p].op \in {"count", "create"} => task[p].user \in Users
        /\ task[p].op \in {"record", "confirm", "reject", "free"} =>
                task[p].bk \in Bookings /\ task[p].user = Owner[task[p].bk]

\* The inductive invariant behind the theorems of CouponSlots_proofs.
IInv ==
    /\ TypeOK /\ TasksGrounded
    /\ IsFiniteSet(usages) /\ IsFiniteSet(Unrecorded)
    /\ freeing = {} \/ \E b : freeing = {b}
    /\ CapBound /\ UserBound /\ LiveAreCounted

\* The bookings the counter should count: those that have not ended, and the tours
\* an admin rejected, whose slot is never given back.
Counted == {b \in usages : status[b] \notin Ended \/ (b \in Tours /\ status[b] = "REJECTED")}

\* When requests are handled one at a time and none fails, the counter is the
\* number of recorded bookings it should count, but for those whose slot is on its
\* way back and for those that a late payment brought back after they had expired:
\* their slot has been given away, and they are the only ones the counter misses.
\* The cron and the payments run beside the requests all the while.
CountIsExact == uses = Cardinality(Counted \ crossed) + Pending
=============================================================================
