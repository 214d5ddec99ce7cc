------------------------------ MODULE Checkout ------------------------------
(***************************************************************************)
(* Paying for a booking: PaymentService.createPayment and verifyPayment,   *)
(* the Razorpay webhook from its intake (WebhookService) through the job   *)
(* queue to its workers (WebhookProcessor), the expiry cron as far as it   *)
(* writes bookings, and AdminService.completeBooking.                      *)
(*                                                                         *)
(* A Payment row belongs to one gateway order and is identified with it.   *)
(* Of the payment attempts a customer makes on an order only the one that  *)
(* succeeds gets a signature verifyPayment accepts, so an order stands for *)
(* its successful attempt as well; gw[o] is what has happened to it at the *)
(* gateway.  Amounts are left out: createPayment refuses any amount but    *)
(* the booking's own.  Refunds are not modelled here.                      *)
(*                                                                         *)
(* As in RoomInventory, a handler reads in one step and writes in a later  *)
(* one, and a write does not repeat the check.                             *)
(***************************************************************************)
EXTENDS Integers, FiniteSets

CONSTANTS
    Bookings,      \* bookings
    Orders,        \* gateway orders, one for each Payment row
    Procs,         \* HTTP requests handled at the same time
    Workers,       \* concurrency of the webhook queue's processor
    Events,        \* the webhook events of the instance: [type, ord] records
    MaxAttempts,   \* attempts a webhook job gets
    NoBooking, NoOrder

EventType == {"payment.authorized", "payment.captured", "order.paid", "payment.failed"}

ASSUME CheckoutAssumption ==
    /\ Events \subseteq [type : EventType, ord : Orders]
    /\ MaxAttempts \in Nat \ {0}
    /\ NoBooking \notin Bookings
    /\ NoOrder \notin Orders

VARIABLES
    status,        \* Booking.status
    deadline,      \* Booking.expiresAt: not set, ahead of the clock, or passed
    forBooking,    \* Payment.bookingId, NoBooking before the row exists
    payStatus,     \* Payment.status, "NONE" before the row exists
    linked,        \* orders whose Payment row has its providerPaymentId
    gw,            \* what has happened to the order's payment at the gateway
    stored,        \* events that have a WebhookEvent row
    processed,     \* ... with processed = true
    intake,        \* events persisted by a delivery that has yet to queue them
    tries,         \* attempts left of the event's queued job, 0 without a job
    stalled,       \* events whose job was running when the server went down once
    worker,        \* the job each worker runs, and how far it is
    task,          \* the handler each process is in
    sweep          \* bookings the running expiry job has still to handle

bookingRow == <<status, deadline>>
paymentRow == <<forBooking, payStatus, linked>>
queue      == <<stored, processed, intake, tries, stalled, worker>>
vars == <<status, deadline, forBooking, payStatus, linked, gw, stored, processed,
          intake, tries, stalled, worker, task, sweep>>

\* The refinement mapping: both keep the row's status and expiresAt as they are.
Lifecycle == INSTANCE BookingLifecycle
                 WITH Bookings <- Bookings, status <- status, deadline <- deadline

-----------------------------------------------------------------------------
PaymentStatus == {"NONE", "CREATED", "AUTHORIZED", "CAPTURED", "FAILED"}

Task == [op : {"idle", "pay", "verify", "fetched", "complete"},
         bk : Bookings \union {NoBooking},
         ord : Orders \union {NoOrder},
         captured : BOOLEAN]

Idle == [op |-> "idle", bk |-> NoBooking, ord |-> NoOrder, captured |-> FALSE]

Job == [at : {"find", "write", "mark", "done"}, ev : Events]

Free == [at |-> "free"]

TypeOK ==
    /\ status \in [Bookings -> Lifecycle!Status]
    /\ deadline \in [Bookings -> Lifecycle!Deadline]
    /\ forBooking \in [Orders -> Bookings \union {NoBooking}]
    /\ payStatus \in [Orders -> PaymentStatus]
    /\ linked \in SUBSET Orders
    /\ gw \in [Orders -> SUBSET {"failed", "authorized", "captured"}]
    /\ stored \in SUBSET Events
    /\ processed \in SUBSET Events
    /\ intake \in SUBSET Events
    /\ tries \in [Events -> 0..MaxAttempts]
    /\ stalled \in SUBSET Events
    /\ worker \in [Workers -> Job \union {Free}]
    /\ task \in [Procs -> Task]
    /\ sweep \in SUBSET Bookings

Init ==
    /\ status = [b \in Bookings |-> "NONE"]
    /\ deadline = [b \in Bookings |-> "unset"]
    /\ forBooking = [o \in Orders |-> NoBooking]
    /\ payStatus = [o \in Orders |-> "NONE"]
    /\ linked = {}
    /\ gw = [o \in Orders |-> {}]
    /\ stored = {}
    /\ processed = {}
    /\ intake = {}
    /\ tries = [e \in Events |-> 0]
    /\ stalled = {}
    /\ worker = [w \in Workers |-> Free]
    /\ task = [p \in Procs |-> Idle]
    /\ sweep = {}

-----------------------------------------------------------------------------
(* createPayment *)

Payable(b) == status[b] = "AWAITING_PAYMENT" /\ deadline[b] # "passed"

CreatePaymentRead(p, b) ==
    /\ task[p].op = "idle"
    /\ Payable(b)
    /\ task' = [task EXCEPT ![p] = [Idle EXCEPT !.op = "pay", !.bk = b]]
    /\ UNCHANGED <<bookingRow, paymentRow, gw, queue, sweep>>

\* The gateway has made the order; the Payment row is inserted.  A booking may
\* come to have several.
CreatePaymentWrite(p) ==
    /\ task[p].op = "pay"
    /\ \E o \in Orders :
        /\ payStatus[o] = "NONE"
        /\ forBooking' = [forBooking EXCEPT ![o] = task[p].bk]
        /\ payStatus' = [payStatus EXCEPT ![o] = "CREATED"]
    /\ task' = [task EXCEPT ![p] = Idle]
    /\ UNCHANGED <<bookingRow, linked, gw, queue, sweep>>

-----------------------------------------------------------------------------
(* verifyPayment *)

\* A plausible slip: the signature is not checked.
SignedByAnyone(o) == payStatus[o] # "NONE"

\* The gateway signs the pair of order and payment once the payment succeeds.
Signed(o) == payStatus[o] # "NONE" /\ "authorized" \in gw[o]

VerifyRead(p, o) ==
    /\ task[p].op = "idle"
    /\ Signed(o)
    /\ status[forBooking[o]] = "AWAITING_PAYMENT"
    /\ payStatus[o] # "CAPTURED"
    /\ task' = [task EXCEPT ![p] = [Idle EXCEPT !.op = "verify", !.ord = o]]
    /\ UNCHANGED <<bookingRow, paymentRow, gw, queue, sweep>>

\* A plausible slip: any successful payment counts as captured.
TakesAnySuccess(o) == "authorized" \in gw[o]

IsCaptured(o) == "captured" \in gw[o]

\* The live state of the payment is fetched from the gateway.
VerifyFetch(p) ==
    /\ task[p].op = "verify"
    /\ task' = [task EXCEPT ![p] =
                    [task[p] EXCEPT !.op = "fetched", !.captured = IsCaptured(task[p].ord)]]
    /\ UNCHANGED <<bookingRow, paymentRow, gw, queue, sweep>>

\* The payment is linked to the order's row; if it was captured the booking is
\* confirmed in the same transaction.
VerifyWrite(p) ==
    LET o == task[p].ord IN
    /\ task[p].op = "fetched"
    /\ linked' = linked \union {o}
    /\ payStatus' = [payStatus EXCEPT
                        ![o] = IF task[p].captured THEN "CAPTURED" ELSE "AUTHORIZED"]
    /\ status' = IF task[p].captured THEN [status EXCEPT ![forBooking[o]] = "CONFIRMED"]
                 ELSE status
    /\ task' = [task EXCEPT ![p] = Idle]
    /\ UNCHANGED <<deadline, forBooking, gw, queue, sweep>>

-----------------------------------------------------------------------------
(* completeBooking *)

CompleteRead(p, b) ==
    /\ task[p].op = "idle"
    /\ status[b] = "CONFIRMED"
    /\ task' = [task EXCEPT ![p] = [Idle EXCEPT !.op = "complete", !.bk = b]]
    /\ UNCHANGED <<bookingRow, paymentRow, gw, queue, sweep>>

CompleteWrite(p) ==
    /\ task[p].op = "complete"
    /\ status' = [status EXCEPT ![task[p].bk] = "COMPLETED"]
    /\ task' = [task EXCEPT ![p] = Idle]
    /\ UNCHANGED <<deadline, paymentRow, gw, queue, sweep>>

\* A request fails before its write, or its client gives up.
Abort(p) ==
    /\ task[p].op # "idle"
    /\ task' = [task EXCEPT ![p] = Idle]
    /\ UNCHANGED <<bookingRow, paymentRow, gw, queue, sweep>>

-----------------------------------------------------------------------------
(* The gateway: a payment may fail first and be authorized late; an          *)
(* authorized payment is captured.                                           *)

GatewayFails(o) ==
    /\ payStatus[o] # "NONE"
    /\ gw[o] = {}
    /\ gw' = [gw EXCEPT ![o] = {"failed"}]
    /\ UNCHANGED <<bookingRow, paymentRow, queue, task, sweep>>

GatewayAuthorizes(o) ==
    /\ payStatus[o] # "NONE"
    /\ "authorized" \notin gw[o]
    /\ gw' = [gw EXCEPT ![o] = @ \union {"authorized"}]
    /\ UNCHANGED <<bookingRow, paymentRow, queue, task, sweep>>

GatewayCaptures(o) ==
    /\ "authorized" \in gw[o]
    /\ "captured" \notin gw[o]
    /\ gw' = [gw EXCEPT ![o] = @ \union {"captured"}]
    /\ UNCHANGED <<bookingRow, paymentRow, queue, task, sweep>>

\* The fact an event reports.
Fact(type) ==
    IF type = "payment.failed" THEN "failed"
    ELSE IF type = "payment.authorized" THEN "authorized" ELSE "captured"

\* It has happened, so the gateway may deliver the event, at any time, in any
\* order and again and again.
Emitted(e) == Fact(e.type) \in gw[e.ord]

-----------------------------------------------------------------------------
(* processRazorpayWebhook *)

\* A delivery inserts the WebhookEvent row.  A repeated one meets the unique
\* constraint and is answered as a duplicate, without any effect.
Deliver(e) ==
    /\ Emitted(e)
    /\ e \notin stored
    /\ stored' = stored \union {e}
    /\ intake' = intake \union {e}
    /\ UNCHANGED <<bookingRow, paymentRow, gw, processed, tries, stalled, worker,
                   task, sweep>>

Enqueue(e) ==
    /\ e \in intake
    /\ intake' = intake \ {e}
    /\ tries' = [tries EXCEPT ![e] = MaxAttempts]
    /\ UNCHANGED <<bookingRow, paymentRow, gw, stored, processed, stalled, worker,
                   task, sweep>>

\* queue.add throws; the gateway sees an error, but the row stays.
EnqueueFails(e) ==
    /\ e \in intake
    /\ intake' = intake \ {e}
    /\ UNCHANGED <<bookingRow, paymentRow, gw, stored, processed, tries, stalled, worker,
                   task, sweep>>

-----------------------------------------------------------------------------
(* WebhookProcessor *)

Busy(e) == \E w \in Workers : worker[w].at # "free" /\ worker[w].ev = e

\* A worker takes a job no other worker has; an event already processed ends
\* the job at once.
JobStart(w, e) ==
    /\ worker[w] = Free
    /\ tries[e] > 0
    /\ ~Busy(e)
    /\ IF e \in processed
       THEN tries' = [tries EXCEPT ![e] = 0] /\ UNCHANGED worker
       ELSE worker' = [worker EXCEPT ![w] = [at |-> "find", ev |-> e]] /\ UNCHANGED tries
    /\ UNCHANGED <<bookingRow, paymentRow, gw, stored, processed, intake, stalled,
                   task, sweep>>

\* The handler looks the payment up by its providerPaymentId; without one it
\* returns, and the event counts as handled.
HandlerFind(w) ==
    /\ worker[w].at = "find"
    /\ worker' = [worker EXCEPT ![w].at = IF worker[w].ev.ord \in linked THEN "write" ELSE "mark"]
    /\ UNCHANGED <<bookingRow, paymentRow, gw, stored, processed, intake, tries, stalled,
                   task, sweep>>

Confirms(type) == type \in {"payment.captured", "order.paid"}

\* A plausible slip: a failed payment makes the booking a request again.
Reopened == "REQUESTED"

FailedStatus == "PAYMENT_FAILED"

\* The handler's own transaction, written whatever the rows have become.
HandlerWrite(w) ==
    LET e == worker[w].ev
        o == e.ord
        b == forBooking[o]
    IN
    /\ worker[w].at = "write"
    /\ \/ /\ Confirms(e.type)
          /\ payStatus' = [payStatus EXCEPT ![o] = "CAPTURED"]
          /\ status' = [status EXCEPT ![b] = "CONFIRMED"]
       \/ /\ e.type = "payment.authorized"
          /\ payStatus' = [payStatus EXCEPT ![o] = "AUTHORIZED"]
          /\ UNCHANGED status
       \/ /\ e.type = "payment.failed"
          /\ payStatus' = [payStatus EXCEPT ![o] = "FAILED"]
          /\ status' = [status EXCEPT ![b] = FailedStatus]
    /\ worker' = [worker EXCEPT ![w].at = "mark"]
    /\ UNCHANGED <<deadline, forBooking, linked, gw, stored, processed, intake, tries, stalled,
                   task, sweep>>

\* The outer transaction marks the event.
MarkProcessed(w) ==
    /\ worker[w].at = "mark"
    /\ processed' = processed \union {worker[w].ev}
    /\ worker' = [worker EXCEPT ![w].at = "done"]
    /\ UNCHANGED <<bookingRow, paymentRow, gw, stored, intake, tries, stalled,
                   task, sweep>>

\* The queue takes the job as completed.
JobDone(w) ==
    /\ worker[w].at = "done"
    /\ tries' = [tries EXCEPT ![worker[w].ev] = 0]
    /\ worker' = [worker EXCEPT ![w] = Free]
    /\ UNCHANGED <<bookingRow, paymentRow, gw, stored, processed, intake, stalled,
                   task, sweep>>

\* Plausible slips: a failed attempt is not counted, or counted twice.
NeverGivesUp(n) == n

CountsTwice(n) == n - 2

AttemptsLeft(n) == n - 1

\* The job throws, before or after its handler has written (the outer
\* transaction covers only the mark): the queue retries it until the attempts
\* are used up.
JobFails(w) ==
    /\ worker[w].at \in {"find", "write", "mark"}
    /\ tries' = [tries EXCEPT ![worker[w].ev] = AttemptsLeft(tries[worker[w].ev])]
    /\ worker' = [worker EXCEPT ![w] = Free]
    /\ UNCHANGED <<bookingRow, paymentRow, gw, stored, processed, intake, stalled,
                   task, sweep>>

-----------------------------------------------------------------------------
(* expireStaleBookings, the booking's side of it *)

Lapse(b) ==
    /\ deadline[b] = "ahead"
    /\ deadline' = [deadline EXCEPT ![b] = "passed"]
    /\ UNCHANGED <<status, paymentRow, gw, queue, task, sweep>>

\* A plausible slip: the query selects open requests as well.
DueOpen(b) == status[b] \in {"REQUESTED", "AWAITING_PAYMENT"}

Due(b) == status[b] = "AWAITING_PAYMENT" /\ deadline[b] = "passed"

ExpireScan ==
    /\ sweep = {}
    /\ sweep' = {b \in Bookings : Due(b)}
    /\ sweep' # {}
    /\ UNCHANGED <<bookingRow, paymentRow, gw, queue, task>>

ExpireCommit(b) ==
    /\ b \in sweep
    /\ status' = [status EXCEPT ![b] = "EXPIRED"]
    /\ sweep' = sweep \ {b}
    /\ UNCHANGED <<deadline, paymentRow, gw, queue, task>>

ExpireFail(b) ==
    /\ b \in sweep
    /\ sweep' = sweep \ {b}
    /\ UNCHANGED <<bookingRow, paymentRow, gw, queue, task>>

-----------------------------------------------------------------------------
(* What the booking handlers write *)

Request(b) ==
    /\ status[b] = "NONE"
    /\ status' = [status EXCEPT ![b] = "REQUESTED"]
    /\ UNCHANGED <<deadline, paymentRow, gw, queue, task, sweep>>

Accept(b) ==
    /\ status[b] = "REQUESTED"
    /\ status' = [status EXCEPT ![b] = "AWAITING_PAYMENT"]
    /\ deadline' = [deadline EXCEPT ![b] = "ahead"]
    /\ UNCHANGED <<paymentRow, gw, queue, task, sweep>>

\* A confirmation or rejection that was read while the booking was REQUESTED
\* and is written now.
LateDecision(b) ==
    /\ status[b] \notin {"NONE", "REQUESTED"}
    /\ \/ /\ status' = [status EXCEPT ![b] = "AWAITING_PAYMENT"]
          /\ deadline' = [deadline EXCEPT ![b] = "ahead"]
       \/ /\ status' = [status EXCEPT ![b] = "REJECTED"]
          /\ UNCHANGED deadline
    /\ UNCHANGED <<paymentRow, gw, queue, task, sweep>>

\* The server restarts.  Queued jobs survive in Redis.  A job that was running
\* has stalled: it is run again the first time, and failed the second.
Restart ==
    LET running == {e \in Events : Busy(e)} IN
    /\ task' = [p \in Procs |-> Idle]
    /\ worker' = [w \in Workers |-> Free]
    /\ intake' = {}
    /\ sweep' = {}
    /\ stalled' = stalled \union running
    /\ tries' = [e \in Events |-> IF e \in running \intersect stalled THEN 0 ELSE tries[e]]
    /\ UNCHANGED <<bookingRow, paymentRow, gw, stored, processed>>

-----------------------------------------------------------------------------
RequestStep(p) ==
    \/ \E b \in Bookings : CreatePaymentRead(p, b) \/ CompleteRead(p, b)
    \/ \E o \in Orders : VerifyRead(p, o)
    \/ CreatePaymentWrite(p) \/ VerifyFetch(p) \/ VerifyWrite(p)
    \/ CompleteWrite(p) \/ Abort(p)

GatewayStep ==
    \/ \E o \in Orders : GatewayFails(o) \/ GatewayAuthorizes(o) \/ GatewayCaptures(o)
    \/ \E e \in Events : Deliver(e)

IntakeStep == \E e \in Events : Enqueue(e) \/ EnqueueFails(e)

WorkerStep(w) ==
    \/ \E e \in Events : JobStart(w, e)
    \/ HandlerFind(w) \/ HandlerWrite(w) \/ MarkProcessed(w) \/ JobDone(w) \/ JobFails(w)

CronStep == ExpireScan \/ \E b \in Bookings : ExpireCommit(b) \/ ExpireFail(b)

BookingStep == \E b \in Bookings : Request(b) \/ Accept(b) \/ Lapse(b)

\* Requests about one booking's acceptance do not overlap.
OrderlyNext ==
    \/ \E p \in Procs : RequestStep(p)
    \/ \E w \in Workers : WorkerStep(w)
    \/ GatewayStep \/ IntakeStep \/ CronStep \/ BookingStep \/ Restart

Next == OrderlyNext \/ \E b \in Bookings : LateDecision(b)

Spec == Init /\ [][Next]_vars

OrderlySpec == Init /\ [][OrderlyNext]_vars

\* The server goes on with a delivery it has begun, and each worker with jobs.
FairSpec ==
    /\ OrderlySpec
    /\ \A e \in Events : WF_vars(Enqueue(e) \/ EnqueueFails(e))
    /\ \A w \in Workers : WF_vars(WorkerStep(w))

-----------------------------------------------------------------------------
(* Properties under any interleaving *)

HappenedTo(b, what) == \E o \in Orders : forBooking[o] = b /\ what \in gw[o]

\* However late, early, repeated or out of order webhooks and customer callbacks
\* come, and whichever of them race the expiry cron or a restart: a booking is
\* confirmed or completed only if the gateway has captured a payment made for
\* it, and failed only if one has failed.
OutcomeIsReal ==
    \A b \in Bookings :
        /\ status[b] \in {"CONFIRMED", "COMPLETED"} => HappenedTo(b, "captured")
        /\ status[b] = "PAYMENT_FAILED" => HappenedTo(b, "failed")

\* A Payment row, which verifyPayment and three webhook workers write without
\* looking at each other's writes, never claims what did not happen at the
\* gateway.
RecordsMatchGateway ==
    \A o \in Orders :
        /\ payStatus[o] = "CAPTURED" => "captured" \in gw[o]
        /\ payStatus[o] = "AUTHORIZED" => "authorized" \in gw[o]
        /\ payStatus[o] = "FAILED" => "failed" \in gw[o]

TaskGrounded(p) ==
    /\ task[p].op = "pay" => task[p].bk \in Bookings /\ deadline[task[p].bk] # "unset"
    /\ task[p].op \in {"verify", "fetched"} =>
            /\ task[p].ord \in Orders
            /\ payStatus[task[p].ord] # "NONE"
            /\ "authorized" \in gw[task[p].ord]
    /\ task[p].captured => task[p].ord \in Orders /\ "captured" \in gw[task[p].ord]
    /\ task[p].op = "complete" =>
            task[p].bk \in Bookings /\ HappenedTo(task[p].bk, "captured")

JobGrounded(w) ==
    /\ worker[w].at # "free" => Emitted(worker[w].ev)
    /\ worker[w].at = "write" => worker[w].ev.ord \in linked

\* What a request, a worker or the cron knows of the gateway, of the links to its
\* payments and of offers when it reads is still true when it writes: no such fact
\* is ever taken back.  The statuses it read may be stale by then.
CarriedIsGrounded ==
    /\ \A p \in Procs : TaskGrounded(p)
    /\ \A w \in Workers : JobGrounded(w)
    /\ \A b \in sweep : deadline[b] # "unset"

\* A Payment row belongs to an offered booking, and only such a row is linked.
RowsConsistent ==
    /\ \A b \in Bookings : status[b] = "AWAITING_PAYMENT" => deadline[b] # "unset"
    /\ \A o \in Orders :
        IF payStatus[o] = "NONE"
        THEN forBooking[o] = NoBooking /\ o \notin linked
        ELSE forBooking[o] \in Bookings /\ deadline[forBooking[o]] # "unset"

\* A queued event was reported by the gateway, and a job is run by one worker at
\* a time, with an attempt left.
QueueSound ==
    /\ \A e \in Events : e \in intake \/ tries[e] > 0 => Emitted(e)
    /\ \A w \in Workers : worker[w].at # "free" => tries[worker[w].ev] > 0
    /\ \A w1, w2 \in Workers :
        worker[w1].at # "free" /\ worker[w2].at # "free" /\ worker[w1].ev = worker[w2].ev
            => w1 = w2

\* The inductive invariant behind the theorems of Checkout_proofs.
IInv ==
    /\ TypeOK /\ RowsConsistent /\ QueueSound
    /\ CarriedIsGrounded /\ RecordsMatchGateway /\ OutcomeIsReal

\* Every write of a payment handler, worker or cron run is one the lifecycle
\* allows: none of them acts on a booking that was never offered.
LifecycleSpec == Lifecycle!Spec

\* A booking that awaits payment, was paid, failed or expired was offered for
\* payment before: no customer, gateway or cron run brings one that nobody
\* accepted into such a status.
NothingDueBeforeOffer == Lifecycle!NothingDueBeforeOffer

\* Every job leaves the queue: jobs that fail are not retried forever, and jobs
\* a restart interrupts are not run again forever.
JobsFinish == \A e \in Events : tries[e] > 0 ~> tries[e] = 0

-----------------------------------------------------------------------------
(* What a comment of the source says, and the code does not keep *)

\* "Expires AWAITING_PAYMENT bookings that have passed their payment deadline":
\* the cron expires no other booking.
ExpiresOnlyUnpaid ==
    [][\A b \in Bookings :
        status'[b] = "EXPIRED" => status[b] \in {"AWAITING_PAYMENT", "EXPIRED"}]_vars
=============================================================================
