----------------------------- MODULE Settlement -----------------------------
(***************************************************************************)
(* What happens to the money of one captured payment afterwards: refunds   *)
(* (PaymentService.createRefund and the webhook's handlePaymentRefunded)   *)
(* and the provider's payout for the booking's item (PayoutService), with  *)
(* AdminService.completeBooking, which opens the payout.                   *)
(*                                                                         *)
(* An amount is a number of units.  The rows of the Refund table are keyed *)
(* by the gateway's id of the refund.  createRefund's row holds the amount *)
(* of the refund.  The handler's row holds the amount of the payment       *)
(* entity of the event, which is the whole payment even if the refund was  *)
(* a part of it, and is keyed by the payment's own id when the event does  *)
(* not name its refund.  No row ever becomes FAILED, so every row counts   *)
(* in the aggregate.  The queue that carries the events is modelled in     *)
(* Checkout; here an event under way is handled at any time, and may be    *)
(* delivered again.                                                        *)
(***************************************************************************)
EXTENDS Integers, FiniteSets

CONSTANTS
    Amount,        \* Payment.amount
    Refunds,       \* ids of the refunds the gateway may make
    Payouts,       \* ids of ProviderPayout rows
    Procs,         \* HTTP requests handled at the same time
    Workers,       \* concurrency of the webhook queue's processor
    NoRefund, NoPayout

ASSUME SettlementAssumption ==
    /\ Amount \in Nat \ {0}
    /\ IsFiniteSet(Refunds) /\ IsFiniteSet(Payouts) /\ IsFiniteSet(Procs)
    /\ NoRefund \notin Refunds
    /\ NoPayout \notin Payouts

VARIABLES
    status,        \* Booking.status
    pay,           \* Payment.status
    given,         \* amount of each refund made at the gateway, 0 before it is
    rows,          \* amount of the row under each refund's own id, 0 without it
    unnamed,       \* amount of the row under the payment's id, 0 without it
    payout,        \* ProviderPayout.status, "NONE" before the row exists
    news,          \* refunds of which an event is under way
    task,          \* the request each process handles
    worker,        \* the event each worker handles
    orderly,       \* history: no request has disturbed another so far
    shown          \* history: the payment has been called REFUNDED

money  == <<status, pay>>
refund == <<given, rows, unnamed>>
vars   == <<status, pay, given, rows, unnamed, payout, news, task, worker, orderly, shown>>

-----------------------------------------------------------------------------
BookingStatus == {"CONFIRMED", "COMPLETED", "PAYMENT_FAILED", "REFUNDED"}
PaymentStatus == {"AUTHORIZED", "CAPTURED", "FAILED", "REFUNDED"}
PayoutStatus  == {"NONE", "PENDING", "PAID", "FAILED"}

Task == [op : {"idle", "refund", "issue", "commit", "payout", "insert", "paid", "fail", "complete"},
         sum : 0..Amount,
         ref : Refunds \union {NoRefund},
         row : Payouts \union {NoPayout}]

Idle == [op |-> "idle", sum |-> 0, ref |-> NoRefund, row |-> NoPayout]

Job == [at : {"create", "sum", "mark"}, ref : Refunds, named : BOOLEAN]

Free == [at |-> "free"]

TypeOK ==
    /\ status \in BookingStatus
    /\ pay \in PaymentStatus
    /\ given \in [Refunds -> 0..Amount]
    /\ rows \in [Refunds -> 0..Amount]
    /\ unnamed \in 0..Amount
    /\ payout \in [Payouts -> PayoutStatus]
    /\ news \in SUBSET Refunds
    /\ task \in [Procs -> Task]
    /\ worker \in [Workers -> Job \union {Free}]
    /\ orderly \in BOOLEAN
    /\ shown \in BOOLEAN

Init ==
    /\ status = "CONFIRMED"
    /\ pay = "CAPTURED"
    /\ given = [r \in Refunds |-> 0]
    /\ rows = [r \in Refunds |-> 0]
    /\ unnamed = 0
    /\ payout = [k \in Payouts |-> "NONE"]
    /\ news = {}
    /\ task = [p \in Procs |-> Idle]
    /\ worker = [w \in Workers |-> Free]
    /\ orderly = TRUE
    /\ shown = FALSE

-----------------------------------------------------------------------------
(* Amounts.  The sum of amounts g over S is the number of their units. *)

Units(g, S) == {u \in S \X (1..Amount) : u[2] <= g[u[1]]}

\* What the gateway gave back.
Total == Cardinality(Units(given, Refunds))

\* The aggregate over the payment's Refund rows.
Recorded == Cardinality(Units(rows, Refunds)) + unnamed

\* Slips of the refundable balance: earlier refunds are forgotten, or added.
ForgetsEarlier == Amount
AddsEarlier    == Amount + Recorded

Refundable == Amount - Recorded

\* Slips of the full-refund test: any refund counts, or the boundary is missed.
CoversSome   == Recorded > 0
CoversBeyond == Recorded > Amount

CoversAll == Recorded >= Amount

-----------------------------------------------------------------------------
(* createRefund *)

Begin(p, t) ==
    /\ task[p].op = "idle"
    /\ task' = [task EXCEPT ![p] = t]

End(p) == task' = [task EXCEPT ![p] = Idle]

RefundRead(p) ==
    /\ pay = "CAPTURED"
    /\ Begin(p, [Idle EXCEPT !.op = "refund"])
    /\ UNCHANGED <<money, refund, payout, news, worker>>

\* The request asks for an amount within the balance, or leaves it out and gets
\* the whole balance.
RefundCheck(p) ==
    /\ task[p].op = "refund"
    /\ \E a \in 1..Refundable :
        task' = [task EXCEPT ![p] = [Idle EXCEPT !.op = "issue", !.sum = a]]
    /\ UNCHANGED <<money, refund, payout, news, worker>>

\* The gateway makes the refund and will tell of it.
RefundIssue(p) ==
    /\ task[p].op = "issue"
    /\ \E r \in Refunds :
        /\ given[r] = 0
        /\ given' = [given EXCEPT ![r] = task[p].sum]
        /\ news' = news \union {r}
        /\ task' = [task EXCEPT ![p] = [@ EXCEPT !.op = "commit", !.ref = r]]
    /\ UNCHANGED <<money, rows, unnamed, payout, worker>>

\* The row and, if this one refund is of the whole amount, both statuses.  The
\* id is unique: the transaction fails when the handler was first (Abort).
RefundCommit(p) ==
    /\ task[p].op = "commit"
    /\ rows[task[p].ref] = 0
    /\ rows' = [rows EXCEPT ![task[p].ref] = task[p].sum]
    /\ IF task[p].sum = Amount
         THEN pay' = "REFUNDED" /\ status' = "REFUNDED"
         ELSE UNCHANGED money
    /\ End(p)
    /\ UNCHANGED <<given, unnamed, payout, news, worker>>

-----------------------------------------------------------------------------
(* handlePaymentRefunded, for the event of refund r *)

Known(r, named) == IF named THEN rows[r] > 0 ELSE unnamed > 0

\* An event may name the refund or only its payment.
HandlerFind(w) ==
    /\ worker[w] = Free
    /\ \E r \in news, named \in BOOLEAN :
        /\ worker' = [worker EXCEPT ![w] =
             [at |-> IF Known(r, named) THEN "sum" ELSE "create", ref |-> r, named |-> named]]
        /\ news' = news \ {r}
    /\ UNCHANGED <<money, refund, payout, task>>

\* The amount recorded is the payment entity's: the whole payment's, whatever
\* the refund gave.
HandlerCreate(w) ==
    /\ worker[w].at = "create"
    /\ ~ Known(worker[w].ref, worker[w].named)
    /\ IF worker[w].named
         THEN rows' = [rows EXCEPT ![worker[w].ref] = Amount] /\ UNCHANGED unnamed
         ELSE unnamed' = Amount /\ UNCHANGED rows
    /\ worker' = [worker EXCEPT ![w].at = "sum"]
    /\ UNCHANGED <<money, given, payout, news, task>>

\* The row appeared after the lookup: the insert violates the unique id, the job
\* fails and is queued again.
HandlerConflict(w) ==
    /\ worker[w].at = "create"
    /\ Known(worker[w].ref, worker[w].named)
    /\ news' = news \union {worker[w].ref}
    /\ worker' = [worker EXCEPT ![w] = Free]
    /\ UNCHANGED <<money, refund, payout, task>>

HandlerSum(w) ==
    /\ worker[w].at = "sum"
    /\ worker' = [worker EXCEPT ![w] = IF CoversAll THEN [@ EXCEPT !.at = "mark"] ELSE Free]
    /\ UNCHANGED <<money, refund, payout, news, task>>

HandlerMark(w) ==
    /\ worker[w].at = "mark"
    /\ pay' = "REFUNDED"
    /\ status' = "REFUNDED"
    /\ worker' = [worker EXCEPT ![w] = Free]
    /\ UNCHANGED <<refund, payout, news, task>>

\* Two event types tell of a refund, and each may come more than once.
Redeliver(r) ==
    /\ given[r] > 0
    /\ r \notin news
    /\ news' = news \union {r}
    /\ UNCHANGED <<money, refund, payout, task, worker>>

\* A handler of an earlier event of the payment that is late, or runs again:
\* none of them looks at the statuses it overwrites.
LateEvent ==
    /\ \/ pay' = "CAPTURED" /\ status' = "CONFIRMED"
       \/ pay' = "FAILED" /\ status' = "PAYMENT_FAILED"
       \/ pay' = "AUTHORIZED" /\ UNCHANGED status
    /\ UNCHANGED <<refund, payout, news, task, worker>>

-----------------------------------------------------------------------------
(* completeBooking and the provider's payout *)

CompleteRead(p) ==
    /\ status = "CONFIRMED"
    /\ Begin(p, [Idle EXCEPT !.op = "complete"])
    /\ UNCHANGED <<money, refund, payout, news, worker>>

CompleteWrite(p) ==
    /\ task[p].op = "complete"
    /\ status' = "COMPLETED"
    /\ End(p)
    /\ UNCHANGED <<pay, refund, payout, news, worker>>

PayoutRead(p) ==
    /\ status = "COMPLETED"
    /\ Begin(p, [Idle EXCEPT !.op = "payout"])
    /\ UNCHANGED <<money, refund, payout, news, worker>>

\* A slip: a payout that is no longer pending does not count.
NonePending == \A k \in Payouts : payout[k] # "PENDING"

NoPayoutYet == \A k \in Payouts : payout[k] = "NONE"

PayoutCheck(p) ==
    /\ task[p].op = "payout"
    /\ pay = "CAPTURED"
    /\ NoPayoutYet
    /\ task' = [task EXCEPT ![p].op = "insert"]
    /\ UNCHANGED <<money, refund, payout, news, worker>>

PayoutInsert(p) ==
    /\ task[p].op = "insert"
    /\ \E k \in Payouts :
        /\ payout[k] = "NONE"
        /\ payout' = [payout EXCEPT ![k] = "PENDING"]
    /\ End(p)
    /\ UNCHANGED <<money, refund, news, worker>>

MarkCompletedRead(p, k) ==
    /\ payout[k] = "PENDING"
    /\ Begin(p, [Idle EXCEPT !.op = "paid", !.row = k])
    /\ UNCHANGED <<money, refund, payout, news, worker>>

\* A slip: any payout may be failed.
FailableAnyway(k) == payout[k] # "NONE"

Failable(k) == payout[k] \notin {"NONE", "PAID"}

MarkFailedRead(p, k) ==
    /\ Failable(k)
    /\ Begin(p, [Idle EXCEPT !.op = "fail", !.row = k])
    /\ UNCHANGED <<money, refund, payout, news, worker>>

MarkWrite(p) ==
    /\ task[p].op \in {"paid", "fail"}
    /\ payout' = [payout EXCEPT ![task[p].row] =
                     IF task[p].op = "paid" THEN "PAID" ELSE "FAILED"]
    /\ End(p)
    /\ UNCHANGED <<money, refund, news, worker>>

\* A request ends early: a check refuses it, the gateway does, or a write fails.
Abort(p) ==
    /\ task[p].op # "idle"
    /\ End(p)
    /\ UNCHANGED <<money, refund, payout, news, worker>>

-----------------------------------------------------------------------------
Busy == {p \in Procs : task[p].op # "idle"}

\* One request at a time, and every refund made has its row before the next
\* request comes.
Calm ==
    \A p \in Busy :
        /\ Busy = {p}
        /\ \A r \in Refunds : given[r] > 0 => rows[r] > 0 \/ r = task[p].ref

RequestStep(p) ==
    \/ RefundRead(p) \/ RefundCheck(p) \/ RefundIssue(p) \/ RefundCommit(p)
    \/ CompleteRead(p) \/ CompleteWrite(p)
    \/ PayoutRead(p) \/ PayoutCheck(p) \/ PayoutInsert(p)
    \/ \E k \in Payouts : MarkCompletedRead(p, k) \/ MarkFailedRead(p, k)
    \/ MarkWrite(p)
    \/ Abort(p)

HandlerStep(w) ==
    \/ HandlerFind(w) \/ HandlerCreate(w) \/ HandlerConflict(w)
    \/ HandlerSum(w) \/ HandlerMark(w)

Step ==
    \/ \E p \in Procs : RequestStep(p)
    \/ \E w \in Workers : HandlerStep(w)
    \/ \E r \in Refunds : Redeliver(r)
    \/ LateEvent

Next ==
    /\ Step
    /\ orderly' = (orderly /\ Calm')
    /\ shown' = (shown \/ pay' = "REFUNDED")

Spec == Init /\ [][Next]_vars

-----------------------------------------------------------------------------
\* A row made from an event says more than its refund gave.
Overstated == unnamed > 0 \/ \E r \in Refunds : rows[r] > given[r]

\* The payment or the booking is called refunded only when the gateway gave back
\* the whole amount, or the handler itself made a row, of the whole payment, for
\* a part of it.  It holds however requests, handlers and late events mix, since
\* a marking is decided on rows that are never removed.
RefundedIsCovered ==
    (pay = "REFUNDED" \/ status = "REFUNDED") => Total >= Amount \/ Overstated

\* Requests that do not disturb each other never give back more than was paid,
\* whatever late events make of the statuses createRefund looks at first.
NeverOverRefunded == orderly => Total <= Amount

Made == {k \in Payouts : payout[k] # "NONE"}

Inserting == {p \in Procs : task[p].op = "insert"}

\* Requests that do not disturb each other make at most one payout for the item.
\* Requests that overlap may each make one, since no key makes the item's payout
\* unique, but never more than were handled at once: a payout made or about to be
\* made is one of theirs.
PayoutsAreFew ==
    /\ Cardinality(Made) + Cardinality(Inserting) <= Cardinality(Procs)
    /\ orderly => \A k, l \in Made : k = l

\* Requests that do not disturb each other never turn a payout that was paid into
\* another.
PaidStays ==
    [][orderly' => \A k \in Payouts : payout[k] = "PAID" => payout'[k] = "PAID"]_vars

\* Once the gateway gave back everything, be it in parts, by requests that
\* overlap or failed half way, and the events that tell of it are handled, the
\* payment has been called refunded: the event handled last finds the rows of
\* all, or one that an event made, which is of the whole payment.
FullRefundShown ==
    /\ Total >= Amount
    /\ news = {} /\ \A w \in Workers : worker[w] = Free
    => shown
=============================================================================
