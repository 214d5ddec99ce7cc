--------------------------- MODULE Checkout_proofs ---------------------------
(***************************************************************************)
(* Proofs about Checkout, for every number of bookings, orders, requests,  *)
(* webhook workers, events and attempts: its type invariant, that the      *)
(* database never claims a payment the gateway does not know, and that it  *)
(* implements BookingLifecycle.                                            *)
(***************************************************************************)
EXTENDS Checkout, TLAPS

-----------------------------------------------------------------------------
(* What no step takes back.  The rest of the argument needs of most steps  *)
(* only this: a fact a handler has read stays true until it writes.        *)

Stable ==
    /\ \A o \in Orders : gw[o] \subseteq gw'[o]
    /\ \A o \in Orders : payStatus[o] # "NONE" =>
            payStatus'[o] # "NONE" /\ forBooking'[o] = forBooking[o]
    /\ \A b \in Bookings : deadline[b] # "unset" => deadline'[b] # "unset"
    /\ linked \subseteq linked'

LEMMA StatusNames ==
  /\ Lifecycle!Settled = {"CONFIRMED", "PAYMENT_FAILED", "REFUNDED", "COMPLETED"}
  /\ Lifecycle!Status = {"NONE", "REQUESTED", "REJECTED", "AWAITING_PAYMENT", "EXPIRED"}
                            \union Lifecycle!Settled
  /\ Lifecycle!Deadline = {"unset", "ahead", "passed"}
  BY DEF Lifecycle!Settled, Lifecycle!Status, Lifecycle!Deadline

\* A handler in a request.
LEMMA TaskFields ==
  ASSUME TypeOK, NEW p \in Procs
  PROVE  /\ task[p] \in Task
         /\ task[p].op \in {"idle", "pay", "verify", "fetched", "complete"}
         /\ task[p].bk \in Bookings \union {NoBooking}
         /\ task[p].ord \in Orders \union {NoOrder}
         /\ task[p].captured \in BOOLEAN
  BY DEF TypeOK, Task

\* A worker is free, or has a job for one of the events.
LEMMA WorkerFields ==
  ASSUME TypeOK, NEW w \in Workers, worker[w].at # "free"
  PROVE  /\ worker[w] \in Job
         /\ worker[w].ev \in Events
         /\ worker[w].ev.ord \in Orders
         /\ worker[w].ev.type \in EventType
  <1>1. worker[w] \in Job
    BY DEF TypeOK, Free
  <1> QED
    BY <1>1, CheckoutAssumption DEF Job

LEMMA StableStep == IInv /\ [Next]_vars => Stable
  <1> SUFFICES ASSUME IInv, [Next]_vars PROVE Stable
    OBVIOUS
  <1>t. TypeOK
    BY DEF IInv
  <1> USE <1>t DEF Stable, bookingRow, paymentRow, queue
  <1>1. ASSUME UNCHANGED <<deadline, forBooking, payStatus, linked, gw>> PROVE Stable
    BY <1>1
  <1>2. ASSUME NEW p \in Procs, CreatePaymentWrite(p) PROVE Stable
    BY <1>2 DEF CreatePaymentWrite, TypeOK
  <1>3. ASSUME NEW p \in Procs, VerifyWrite(p) PROVE Stable
    BY <1>3 DEF VerifyWrite, TypeOK
  <1>4. ASSUME NEW o \in Orders, GatewayFails(o) \/ GatewayAuthorizes(o) \/ GatewayCaptures(o)
        PROVE  Stable
    BY <1>4 DEF GatewayFails, GatewayAuthorizes, GatewayCaptures, TypeOK
  <1>5. ASSUME NEW w \in Workers, HandlerWrite(w) PROVE Stable
    BY <1>5 DEF HandlerWrite, FailedStatus, TypeOK
  <1>6. ASSUME NEW b \in Bookings, Lapse(b) \/ Accept(b) \/ LateDecision(b) PROVE Stable
    BY <1>6 DEF Lapse, Accept, LateDecision, TypeOK
  <1>7. ASSUME NEW p \in Procs,
               \/ \E b \in Bookings : CreatePaymentRead(p, b) \/ CompleteRead(p, b)
               \/ \E o \in Orders : VerifyRead(p, o)
               \/ VerifyFetch(p) \/ CompleteWrite(p) \/ Abort(p)
        PROVE  Stable
    BY <1>1, <1>7 DEF CreatePaymentRead, CompleteRead, VerifyRead, VerifyFetch,
                      CompleteWrite, Abort
  <1>8. ASSUME NEW e \in Events,
               \/ Deliver(e) \/ Enqueue(e) \/ EnqueueFails(e)
               \/ \E w \in Workers : JobStart(w, e)
        PROVE  Stable
    BY <1>1, <1>8 DEF Deliver, Enqueue, EnqueueFails, JobStart
  <1>9. ASSUME NEW w \in Workers,
               HandlerFind(w) \/ MarkProcessed(w) \/ JobDone(w) \/ JobFails(w)
        PROVE  Stable
    BY <1>1, <1>9 DEF HandlerFind, MarkProcessed, JobDone, JobFails
  <1>10. ASSUME CronStep \/ Restart \/ (\E b \in Bookings : Request(b)) PROVE Stable
    BY <1>1, <1>10 DEF CronStep, ExpireScan, ExpireCommit, ExpireFail, Restart, Request
  <1>11. CASE UNCHANGED vars
    BY <1>1, <1>11 DEF vars
  <1> QED
    BY <1>2, <1>3, <1>4, <1>5, <1>6, <1>7, <1>8, <1>9, <1>10, <1>11
       DEF Next, OrderlyNext, RequestStep, GatewayStep, IntakeStep, WorkerStep,
           BookingStep

-----------------------------------------------------------------------------
(* Types *)

LEMMA IdleIsTask == Idle \in Task
  BY CheckoutAssumption DEF Idle, Task

\* Counting a failed attempt keeps the count of a running job in its range.
LEMMA AttemptsType ==
  ASSUME IInv, NEW w \in Workers, worker[w].at # "free"
  PROVE  AttemptsLeft(tries[worker[w].ev]) \in 0..MaxAttempts
  <1>1. worker[w].ev \in Events
    BY WorkerFields DEF IInv
  <1>2. tries[worker[w].ev] \in 0..MaxAttempts /\ tries[worker[w].ev] > 0
    BY <1>1 DEF IInv, TypeOK, QueueSound
  <1> QED
    BY <1>2, CheckoutAssumption DEF AttemptsLeft

LEMMA NoAttempts == 0 \in 0..MaxAttempts /\ MaxAttempts \in 0..MaxAttempts
  BY CheckoutAssumption

LEMMA TypeInit == Init => TypeOK
  BY IdleIsTask, StatusNames, CheckoutAssumption DEF Init, TypeOK, PaymentStatus

LEMMA TypeStep == IInv /\ [Next]_vars => TypeOK'
  <1> SUFFICES ASSUME IInv, [Next]_vars PROVE TypeOK'
    OBVIOUS
  <1>t. TypeOK
    BY DEF IInv
  <1> USE <1>t, IdleIsTask, StatusNames, CheckoutAssumption
      DEF TypeOK, bookingRow, paymentRow, queue, PaymentStatus
  <1>1. ASSUME NEW p \in Procs, NEW b \in Bookings, CreatePaymentRead(p, b) PROVE TypeOK'
    <2>1. [Idle EXCEPT !.op = "pay", !.bk = b] \in Task
      BY DEF Idle, Task
    <2> QED
      BY <1>1, <2>1 DEF CreatePaymentRead
  <1>2. ASSUME NEW p \in Procs, CreatePaymentWrite(p) PROVE TypeOK'
    BY <1>2, TaskFields DEF CreatePaymentWrite
  <1>3. ASSUME NEW p \in Procs, NEW o \in Orders, VerifyRead(p, o) PROVE TypeOK'
    <2>1. [Idle EXCEPT !.op = "verify", !.ord = o] \in Task
      BY DEF Idle, Task
    <2> QED
      BY <1>3, <2>1 DEF VerifyRead
  <1>4. ASSUME NEW p \in Procs, VerifyFetch(p) PROVE TypeOK'
    <2>1. [task[p] EXCEPT !.op = "fetched", !.captured = IsCaptured(task[p].ord)] \in Task
      <3>1. IsCaptured(task[p].ord) \in BOOLEAN
        BY DEF IsCaptured
      <3> QED
        BY <3>1, TaskFields DEF Task
    <2> QED
      BY <1>4, <2>1 DEF VerifyFetch
  <1>5. ASSUME NEW p \in Procs, VerifyWrite(p) PROVE TypeOK'
    <2>1. task[p].ord \in Orders
      BY <1>5 DEF VerifyWrite, IInv, CarriedIsGrounded, TaskGrounded
    <2> QED
      BY <1>5, <2>1 DEF VerifyWrite
  <1>6. ASSUME NEW p \in Procs, NEW b \in Bookings, CompleteRead(p, b) PROVE TypeOK'
    <2>1. [Idle EXCEPT !.op = "complete", !.bk = b] \in Task
      BY DEF Idle, Task
    <2> QED
      BY <1>6, <2>1 DEF CompleteRead
  <1>7. ASSUME NEW p \in Procs, CompleteWrite(p) \/ Abort(p) PROVE TypeOK'
    BY <1>7 DEF CompleteWrite, Abort
  <1>8. ASSUME NEW o \in Orders, GatewayFails(o) \/ GatewayAuthorizes(o) \/ GatewayCaptures(o)
        PROVE  TypeOK'
    BY <1>8 DEF GatewayFails, GatewayAuthorizes, GatewayCaptures
  <1>9. ASSUME NEW e \in Events, Deliver(e) \/ Enqueue(e) \/ EnqueueFails(e) PROVE TypeOK'
    BY <1>9 DEF Deliver, Enqueue, EnqueueFails
  <1>10. ASSUME NEW w \in Workers, NEW e \in Events, JobStart(w, e) PROVE TypeOK'
    <2>1. [at |-> "find", ev |-> e] \in Job
      BY DEF Job
    <2>2. worker' \in [Workers -> Job \union {Free}]
      BY <1>10, <2>1 DEF JobStart
    <2>3. tries' \in [Events -> 0..MaxAttempts]
      BY <1>10, NoAttempts DEF JobStart
    <2> QED
      BY <1>10, <2>2, <2>3 DEF JobStart
  <1>11. ASSUME NEW w \in Workers, HandlerFind(w) PROVE TypeOK'
    <2>1. worker[w] \in Job
      BY <1>11, WorkerFields DEF HandlerFind
    <2>2. \A step \in {"write", "mark"} : [worker[w] EXCEPT !.at = step] \in Job
      BY <2>1 DEF Job
    <2> QED
      BY <1>11, <2>2 DEF HandlerFind
  <1>12. ASSUME NEW w \in Workers, HandlerWrite(w) PROVE TypeOK'
    <2>1. worker[w] \in Job /\ worker[w].ev \in Events
      BY <1>12, WorkerFields DEF HandlerWrite
    <2>2. [worker[w] EXCEPT !.at = "mark"] \in Job
      BY <2>1 DEF Job
    <2> QED
      BY <1>12, <2>1, <2>2 DEF HandlerWrite, FailedStatus
  <1>13. ASSUME NEW w \in Workers, MarkProcessed(w) PROVE TypeOK'
    <2>1. worker[w] \in Job /\ worker[w].ev \in Events
      BY <1>13, WorkerFields DEF MarkProcessed
    <2>2. [worker[w] EXCEPT !.at = "done"] \in Job
      BY <2>1 DEF Job
    <2> QED
      BY <1>13, <2>1, <2>2 DEF MarkProcessed
  <1>14. ASSUME NEW w \in Workers, JobDone(w) PROVE TypeOK'
    <2>1. tries' \in [Events -> 0..MaxAttempts]
      BY <1>14, NoAttempts DEF JobDone
    <2>2. worker' \in [Workers -> Job \union {Free}]
      BY <1>14 DEF JobDone
    <2> QED
      BY <1>14, <2>1, <2>2 DEF JobDone
  <1>15. ASSUME NEW w \in Workers, JobFails(w) PROVE TypeOK'
    <2>1. AttemptsLeft(tries[worker[w].ev]) \in 0..MaxAttempts
      BY <1>15, AttemptsType DEF JobFails
    <2> QED
      BY <1>15, <2>1 DEF JobFails
  <1>16. ASSUME CronStep PROVE TypeOK'
    BY <1>16 DEF CronStep, ExpireScan, ExpireCommit, ExpireFail
  <1>17. ASSUME NEW b \in Bookings, Request(b) \/ Accept(b) \/ Lapse(b) \/ LateDecision(b)
         PROVE  TypeOK'
    BY <1>17 DEF Request, Accept, Lapse, LateDecision
  <1>18. ASSUME Restart PROVE TypeOK'
    BY <1>18 DEF Restart
  <1>19. CASE UNCHANGED vars
    BY <1>19 DEF vars
  <1> QED
    BY <1>1, <1>2, <1>3, <1>4, <1>5, <1>6, <1>7, <1>8, <1>9, <1>10, <1>11, <1>12,
       <1>13, <1>14, <1>15, <1>16, <1>17, <1>18, <1>19
       DEF Next, OrderlyNext, RequestStep, GatewayStep, IntakeStep, WorkerStep, BookingStep

-----------------------------------------------------------------------------
(* Facts that stay true *)

LEMMA EmittedStays ==
  ASSUME Stable, NEW e \in Events, Emitted(e)
  PROVE  Emitted(e)'
  BY CheckoutAssumption DEF Stable, Emitted

LEMMA HappenedStays ==
  ASSUME Stable, RowsConsistent, NEW b \in Bookings, NEW what, HappenedTo(b, what)
  PROVE  HappenedTo(b, what)'
  <1>1. PICK o \in Orders : forBooking[o] = b /\ what \in gw[o]
    BY DEF HappenedTo
  <1>2. payStatus[o] # "NONE"
    BY <1>1, CheckoutAssumption DEF RowsConsistent
  <1>3. forBooking'[o] = b /\ what \in gw'[o]
    BY <1>1, <1>2 DEF Stable
  <1> QED
    BY <1>3 DEF HappenedTo

\* A booking with a Payment row has the history of that row's order.
LEMMA RowHistory ==
  ASSUME RowsConsistent, NEW o \in Orders, payStatus[o] # "NONE", NEW what, what \in gw[o]
  PROVE  forBooking[o] \in Bookings /\ HappenedTo(forBooking[o], what)
  BY DEF RowsConsistent, HappenedTo

-----------------------------------------------------------------------------
(* Rows *)

LEMMA RowsInit == Init => RowsConsistent
  BY DEF Init, RowsConsistent

LEMMA RowsStep == IInv /\ [Next]_vars => RowsConsistent'
  <1> SUFFICES ASSUME IInv, [Next]_vars PROVE RowsConsistent'
    OBVIOUS
  <1>t. TypeOK /\ RowsConsistent /\ Stable
    BY StableStep DEF IInv
  <1> USE <1>t DEF RowsConsistent, bookingRow, paymentRow, queue
  <1>1. ASSUME UNCHANGED <<status, deadline, forBooking, payStatus, linked>>
        PROVE  RowsConsistent'
    BY <1>1
  <1>2. ASSUME NEW p \in Procs, CreatePaymentWrite(p) PROVE RowsConsistent'
    <2>1. task[p].bk \in Bookings /\ deadline[task[p].bk] # "unset"
      BY <1>2 DEF CreatePaymentWrite, IInv, CarriedIsGrounded, TaskGrounded
    <2> QED
      BY <1>2, <2>1 DEF CreatePaymentWrite, TypeOK
  <1>3. ASSUME NEW p \in Procs, VerifyWrite(p) PROVE RowsConsistent'
    <2>1. task[p].ord \in Orders /\ payStatus[task[p].ord] # "NONE"
      BY <1>3 DEF VerifyWrite, IInv, CarriedIsGrounded, TaskGrounded
    <2> QED
      BY <1>3, <2>1 DEF VerifyWrite, TypeOK
  <1>4. ASSUME NEW p \in Procs, CompleteWrite(p) PROVE RowsConsistent'
    BY <1>4 DEF CompleteWrite, TypeOK
  <1>5. ASSUME NEW w \in Workers, HandlerWrite(w) PROVE RowsConsistent'
    <2>1. worker[w].ev.ord \in Orders /\ worker[w].ev.ord \in linked
      BY <1>5, WorkerFields DEF HandlerWrite, IInv, CarriedIsGrounded, JobGrounded
    <2>2. payStatus[worker[w].ev.ord] # "NONE"
      BY <2>1
    <2> QED
      BY <1>5, <2>1, <2>2 DEF HandlerWrite, TypeOK
  <1>6. ASSUME NEW b \in Bookings,
               Request(b) \/ Accept(b) \/ Lapse(b) \/ LateDecision(b) \/ ExpireCommit(b)
        PROVE  RowsConsistent'
    BY <1>6 DEF Request, Accept, Lapse, LateDecision, ExpireCommit, TypeOK
  <1>7. ASSUME NEW p \in Procs,
               \/ \E b \in Bookings : CreatePaymentRead(p, b) \/ CompleteRead(p, b)
               \/ \E o \in Orders : VerifyRead(p, o)
               \/ VerifyFetch(p) \/ Abort(p)
        PROVE  RowsConsistent'
    BY <1>1, <1>7 DEF CreatePaymentRead, CompleteRead, VerifyRead, VerifyFetch, Abort
  <1>8. ASSUME GatewayStep \/ IntakeStep PROVE RowsConsistent'
    BY <1>1, <1>8 DEF GatewayStep, IntakeStep, GatewayFails, GatewayAuthorizes,
                      GatewayCaptures, Deliver, Enqueue, EnqueueFails
  <1>9. ASSUME NEW w \in Workers,
               \/ \E e \in Events : JobStart(w, e)
               \/ HandlerFind(w) \/ MarkProcessed(w) \/ JobDone(w) \/ JobFails(w)
        PROVE  RowsConsistent'
    BY <1>1, <1>9 DEF JobStart, HandlerFind, MarkProcessed, JobDone, JobFails
  <1>10. ASSUME ExpireScan \/ Restart \/ (\E b \in Bookings : ExpireFail(b))
         PROVE  RowsConsistent'
    BY <1>1, <1>10 DEF ExpireScan, Restart, ExpireFail
  <1>11. CASE UNCHANGED vars
    BY <1>1, <1>11 DEF vars
  <1> QED
    BY <1>2, <1>3, <1>4, <1>5, <1>6, <1>7, <1>8, <1>9, <1>10, <1>11
       DEF Next, OrderlyNext, RequestStep, WorkerStep, CronStep, BookingStep

-----------------------------------------------------------------------------
(* The job queue *)

LEMMA QueueInit == Init => QueueSound
  BY DEF Init, QueueSound, Free

LEMMA QueueStep == IInv /\ [Next]_vars => QueueSound'
  <1> SUFFICES ASSUME IInv, [Next]_vars PROVE QueueSound'
    OBVIOUS
  <1>t. TypeOK /\ QueueSound /\ Stable
    BY StableStep DEF IInv
  <1>e. \A e \in Events : Emitted(e) => Emitted(e)'
    BY <1>t, EmittedStays
  <1>w. \A w \in Workers : worker[w].at # "free" => worker[w].ev \in Events
    BY <1>t, WorkerFields
  <1> USE <1>t, <1>e, <1>w DEF QueueSound, bookingRow, paymentRow, queue
  <1>1. ASSUME UNCHANGED <<intake, tries, worker>> PROVE QueueSound'
    BY <1>1
  <1>2. ASSUME NEW e \in Events, Deliver(e) \/ Enqueue(e) \/ EnqueueFails(e)
        PROVE  QueueSound'
    <2>1. MaxAttempts > 0
      BY CheckoutAssumption
    <2> QED
      BY <1>2, <2>1 DEF Deliver, Enqueue, EnqueueFails, TypeOK
  <1>3. ASSUME NEW w \in Workers, NEW e \in Events, JobStart(w, e) PROVE QueueSound'
    <2>1. CASE e \in processed
      <3>1. \A v \in Workers : worker[v].at # "free" => worker[v].ev # e
        BY <1>3 DEF JobStart, Busy
      <3> QED
        BY <1>3, <2>1, <3>1 DEF JobStart, TypeOK
    <2>2. CASE e \notin processed
      <3>1. \A v \in Workers : worker[v].at # "free" => worker[v].ev # e
        BY <1>3 DEF JobStart, Busy
      <3> QED
        BY <1>3, <2>2, <3>1 DEF JobStart, TypeOK
    <2> QED
      BY <2>1, <2>2
  <1>4. ASSUME NEW w \in Workers, HandlerFind(w) \/ HandlerWrite(w) \/ MarkProcessed(w)
        PROVE  QueueSound'
    <2>1. /\ worker[w].at # "free" /\ UNCHANGED <<intake, tries>>
          /\ worker'[w].ev = worker[w].ev
          /\ \A v \in Workers : v # w => worker'[v] = worker[v]
      BY <1>4, WorkerFields DEF HandlerFind, HandlerWrite, MarkProcessed, TypeOK, Job
    <2> QED
      BY <2>1
  <1>5. ASSUME NEW w \in Workers, JobDone(w) \/ JobFails(w) PROVE QueueSound'
    <2>1. /\ worker[w].at # "free" /\ UNCHANGED intake
          /\ worker'[w].at = "free"
          /\ \A v \in Workers : v # w => worker'[v] = worker[v]
          /\ \A e \in Events : e # worker[w].ev => tries'[e] = tries[e]
      BY <1>5 DEF JobDone, JobFails, TypeOK, Free
    <2>2. tries[worker[w].ev] > 0
      BY <2>1
    <2> QED
      BY <2>1, <2>2
  <1>6. ASSUME Restart PROVE QueueSound'
    BY <1>6 DEF Restart, Free, TypeOK
  <1>7. ASSUME NEW p \in Procs, RequestStep(p) PROVE QueueSound'
    BY <1>1, <1>7 DEF RequestStep, CreatePaymentRead, CreatePaymentWrite, VerifyRead,
                      VerifyFetch, VerifyWrite, CompleteRead, CompleteWrite, Abort
  <1>8. ASSUME NEW o \in Orders, GatewayFails(o) \/ GatewayAuthorizes(o) \/ GatewayCaptures(o)
        PROVE  QueueSound'
    BY <1>1, <1>8 DEF GatewayFails, GatewayAuthorizes, GatewayCaptures
  <1>9. ASSUME CronStep \/ BookingStep \/ (\E b \in Bookings : LateDecision(b))
        PROVE  QueueSound'
    BY <1>1, <1>9 DEF CronStep, BookingStep, ExpireScan, ExpireCommit, ExpireFail,
                      Request, Accept, Lapse, LateDecision
  <1>10. CASE UNCHANGED vars
    BY <1>1, <1>10 DEF vars
  <1> QED
    BY <1>2, <1>3, <1>4, <1>5, <1>6, <1>7, <1>8, <1>9, <1>10
       DEF Next, OrderlyNext, GatewayStep, IntakeStep, WorkerStep

-----------------------------------------------------------------------------
(* Handlers act on facts *)

LEMMA CarriedInit == Init => CarriedIsGrounded
  BY DEF Init, CarriedIsGrounded, TaskGrounded, JobGrounded, Idle, Free

\* A task that goes on unchanged, or ends, stays grounded.
LEMMA OldTask ==
  ASSUME IInv, Stable, NEW p \in Procs, task'[p] = task[p] \/ task'[p] = Idle
  PROVE  TaskGrounded(p)'
  <1>1. TypeOK /\ RowsConsistent /\ TaskGrounded(p)
    BY DEF IInv, CarriedIsGrounded
  <1>2. CASE task'[p] = Idle
    BY <1>2 DEF TaskGrounded, Idle
  <1>3. CASE task'[p] = task[p]
    <2>1. task[p].op = "complete" => HappenedTo(task[p].bk, "captured")'
      <3>1. ASSUME task[p].op = "complete" PROVE HappenedTo(task[p].bk, "captured")'
        <4>1. task[p].bk \in Bookings /\ HappenedTo(task[p].bk, "captured")
          BY <1>1, <3>1 DEF TaskGrounded
        <4>2. PICK o \in Orders : forBooking[o] = task[p].bk /\ "captured" \in gw[o]
          BY <4>1 DEF HappenedTo
        <4>3. payStatus[o] # "NONE"
          BY <1>1, <4>1, <4>2, CheckoutAssumption DEF RowsConsistent
        <4>4. forBooking'[o] = task'[p].bk /\ "captured" \in gw'[o]
          BY <1>3, <4>2, <4>3 DEF Stable
        <4> QED
          BY <4>4 DEF HappenedTo
      <3> QED
        BY <3>1
    <2> QED
      BY <1>1, <1>3, <2>1 DEF TaskGrounded, Stable
  <1> QED
    BY <1>2, <1>3

\* A job that goes on unchanged, or ends, stays grounded.
LEMMA OldJob ==
  ASSUME IInv, Stable, NEW w \in Workers, worker'[w] = worker[w] \/ worker'[w] = Free
  PROVE  JobGrounded(w)'
  <1>1. TypeOK /\ JobGrounded(w)
    BY DEF IInv, CarriedIsGrounded
  <1>2. CASE worker'[w] = Free
    BY <1>2 DEF JobGrounded, Free
  <1>3. CASE worker'[w] = worker[w] /\ worker[w].at # "free"
    <2>1. worker[w].ev \in Events /\ worker[w].ev.ord \in Orders
      BY <1>1, <1>3, WorkerFields
    <2>2. Fact(worker[w].ev.type) \in gw'[worker[w].ev.ord]
      BY <1>1, <1>3, <2>1 DEF JobGrounded, Emitted, Stable
    <2> QED
      BY <1>1, <1>3, <2>1, <2>2 DEF JobGrounded, Emitted, Stable
  <1>4. CASE worker'[w] = worker[w] /\ worker[w].at = "free"
    BY <1>4 DEF JobGrounded
  <1> QED
    BY <1>2, <1>3, <1>4

LEMMA CarriedStep == IInv /\ [Next]_vars => CarriedIsGrounded'
  <1> SUFFICES ASSUME IInv, [Next]_vars PROVE CarriedIsGrounded'
    OBVIOUS
  <1>t. TypeOK /\ RowsConsistent /\ QueueSound /\ Stable /\ OutcomeIsReal
    BY StableStep DEF IInv
  <1>c. CarriedIsGrounded
    BY DEF IInv
  <1>d. \A b \in sweep : b \in Bookings /\ deadline'[b] # "unset"
    BY <1>t, <1>c DEF CarriedIsGrounded, Stable, TypeOK
  \* Most steps change at most one task, or one job, or the cron's list.
  <1>T. ASSUME UNCHANGED <<worker, sweep>>,
               \A p \in Procs : TaskGrounded(p)'
        PROVE  CarriedIsGrounded'
    <2>1. \A w \in Workers : JobGrounded(w)'
      BY <1>t, <1>T, OldJob
    <2> QED
      BY <1>T, <1>d, <2>1 DEF CarriedIsGrounded
  <1>J. ASSUME UNCHANGED <<task, sweep>>,
               \A w \in Workers : JobGrounded(w)'
        PROVE  CarriedIsGrounded'
    <2>1. \A p \in Procs : TaskGrounded(p)'
      BY <1>t, <1>J, OldTask
    <2> QED
      BY <1>J, <1>d, <2>1 DEF CarriedIsGrounded
  <1> USE DEF bookingRow, paymentRow, queue
  <1>1. ASSUME NEW p \in Procs, NEW b \in Bookings, CreatePaymentRead(p, b)
        PROVE  CarriedIsGrounded'
    <2>1. deadline[b] # "unset"
      BY <1>t, <1>1 DEF CreatePaymentRead, Payable, RowsConsistent
    <2>2. TaskGrounded(p)'
      BY <1>t, <1>1, <2>1 DEF CreatePaymentRead, TaskGrounded, Idle, TypeOK
    <2>3. \A r \in Procs : r # p => TaskGrounded(r)'
      BY <1>t, <1>1, OldTask DEF CreatePaymentRead, TypeOK
    <2> QED
      BY <1>1, <1>T, <2>2, <2>3 DEF CreatePaymentRead
  <1>2. ASSUME NEW p \in Procs, NEW o \in Orders, VerifyRead(p, o)
        PROVE  CarriedIsGrounded'
    <2>1. TaskGrounded(p)'
      BY <1>t, <1>2 DEF VerifyRead, Signed, TaskGrounded, Idle, TypeOK
    <2>2. \A r \in Procs : r # p => TaskGrounded(r)'
      BY <1>t, <1>2, OldTask DEF VerifyRead, TypeOK
    <2> QED
      BY <1>2, <1>T, <2>1, <2>2 DEF VerifyRead
  <1>3. ASSUME NEW p \in Procs, VerifyFetch(p) PROVE CarriedIsGrounded'
    <2>1. /\ task[p].ord \in Orders /\ payStatus[task[p].ord] # "NONE"
          /\ "authorized" \in gw[task[p].ord]
      BY <1>c, <1>3 DEF VerifyFetch, CarriedIsGrounded, TaskGrounded
    <2>2. /\ task'[p].op = "fetched" /\ task'[p].ord = task[p].ord
          /\ task'[p].captured = IsCaptured(task[p].ord)
      BY <1>t, <1>3, TaskFields DEF VerifyFetch, TypeOK, Task
    <2>3. TaskGrounded(p)'
      BY <1>3, <2>1, <2>2 DEF VerifyFetch, TaskGrounded, IsCaptured
    <2>4. \A r \in Procs : r # p => TaskGrounded(r)'
      BY <1>t, <1>3, OldTask DEF VerifyFetch, TypeOK
    <2> QED
      BY <1>3, <1>T, <2>3, <2>4 DEF VerifyFetch
  <1>4. ASSUME NEW p \in Procs, NEW b \in Bookings, CompleteRead(p, b)
        PROVE  CarriedIsGrounded'
    <2>1. HappenedTo(b, "captured")
      BY <1>t, <1>4 DEF CompleteRead, OutcomeIsReal
    <2>2. task'[p].op = "complete" /\ task'[p].bk = b /\ task'[p].captured = FALSE
      BY <1>t, <1>4 DEF CompleteRead, Idle, TypeOK
    <2>3. UNCHANGED <<forBooking, gw>>
      BY <1>4 DEF CompleteRead
    <2>4. TaskGrounded(p)'
      BY <2>1, <2>2, <2>3 DEF TaskGrounded, HappenedTo
    <2>5. \A r \in Procs : r # p => TaskGrounded(r)'
      BY <1>t, <1>4, OldTask DEF CompleteRead, TypeOK
    <2> QED
      BY <1>4, <1>T, <2>4, <2>5 DEF CompleteRead
  <1>5. ASSUME NEW p \in Procs,
               CreatePaymentWrite(p) \/ VerifyWrite(p) \/ CompleteWrite(p) \/ Abort(p)
        PROVE  CarriedIsGrounded'
    <2>1. \A r \in Procs : task'[r] = task[r] \/ task'[r] = Idle
      BY <1>t, <1>5 DEF CreatePaymentWrite, VerifyWrite, CompleteWrite, Abort, TypeOK
    <2>2. \A r \in Procs : TaskGrounded(r)'
      BY <1>t, <2>1, OldTask
    <2> QED
      BY <1>5, <1>T, <2>2 DEF CreatePaymentWrite, VerifyWrite, CompleteWrite, Abort
  <1>6. ASSUME NEW w \in Workers, NEW e \in Events, JobStart(w, e)
        PROVE  CarriedIsGrounded'
    <2>1. Emitted(e)'
      BY <1>t, <1>6, EmittedStays DEF JobStart, QueueSound
    <2>2. worker'[w] = worker[w] \/ worker'[w] = [at |-> "find", ev |-> e]
      BY <1>t, <1>6 DEF JobStart, TypeOK
    <2>3. JobGrounded(w)'
      <3>1. CASE worker'[w] = worker[w]
        BY <1>t, <3>1, OldJob
      <3>2. CASE worker'[w] = [at |-> "find", ev |-> e]
        <4>1. worker'[w].at = "find" /\ worker'[w].ev = e
          BY <3>2
        <4>2. Fact(e.type) \in gw'[e.ord]
          BY <2>1 DEF Emitted
        <4> QED
          BY <4>1, <4>2 DEF JobGrounded, Emitted
      <3> QED
        BY <2>2, <3>1, <3>2
    <2>4. \A v \in Workers : v # w => JobGrounded(v)'
      BY <1>t, <1>6, OldJob DEF JobStart, TypeOK
    <2> QED
      BY <1>6, <1>J, <2>3, <2>4 DEF JobStart
  <1>7. ASSUME NEW w \in Workers, HandlerFind(w) \/ HandlerWrite(w) \/ MarkProcessed(w)
        PROVE  CarriedIsGrounded'
    <2>1. /\ worker[w].at # "free" /\ UNCHANGED <<gw, linked>>
          /\ worker'[w].ev = worker[w].ev
          /\ worker'[w].at = "write" => worker[w].ev.ord \in linked
      BY <1>t, <1>7, WorkerFields DEF HandlerFind, HandlerWrite, MarkProcessed, TypeOK, Job
    <2>2. JobGrounded(w)'
      BY <1>c, <2>1 DEF CarriedIsGrounded, JobGrounded, Emitted
    <2>3. \A v \in Workers : v # w => JobGrounded(v)'
      BY <1>t, <1>7, OldJob DEF HandlerFind, HandlerWrite, MarkProcessed, TypeOK
    <2> QED
      BY <1>7, <1>J, <2>2, <2>3 DEF HandlerFind, HandlerWrite, MarkProcessed
  <1>8. ASSUME NEW w \in Workers, JobDone(w) \/ JobFails(w) PROVE CarriedIsGrounded'
    <2>1. \A v \in Workers : JobGrounded(v)'
      BY <1>t, <1>8, OldJob DEF JobDone, JobFails, TypeOK
    <2> QED
      BY <1>8, <1>J, <2>1 DEF JobDone, JobFails
  <1>9. ASSUME UNCHANGED <<task, worker, sweep>> PROVE CarriedIsGrounded'
    BY <1>t, <1>9, <1>J, OldJob
  <1>10. ASSUME CronStep PROVE CarriedIsGrounded'
    <2>1. UNCHANGED <<task, worker>>
      BY <1>10 DEF CronStep, ExpireScan, ExpireCommit, ExpireFail
    <2>2. \A b \in sweep' : deadline'[b] # "unset"
      BY <1>d, <1>10 DEF CronStep, ExpireScan, ExpireCommit, ExpireFail, Due
    <2> QED
      BY <1>t, <2>1, <2>2, OldJob, OldTask DEF CarriedIsGrounded
  <1>11. ASSUME Restart PROVE CarriedIsGrounded'
    <2>1. /\ \A p \in Procs : task'[p] = Idle
          /\ \A w \in Workers : worker'[w] = Free
          /\ sweep' = {}
      BY <1>11 DEF Restart
    <2> QED
      BY <1>t, <2>1, OldJob, OldTask DEF CarriedIsGrounded
  <1>12. ASSUME GatewayStep \/ IntakeStep PROVE CarriedIsGrounded'
    BY <1>9, <1>12 DEF GatewayStep, IntakeStep, GatewayFails, GatewayAuthorizes,
                       GatewayCaptures, Deliver, Enqueue, EnqueueFails
  <1>13. ASSUME BookingStep \/ (\E b \in Bookings : LateDecision(b))
         PROVE  CarriedIsGrounded'
    BY <1>9, <1>13 DEF BookingStep, Request, Accept, Lapse, LateDecision
  <1>14. CASE UNCHANGED vars
    BY <1>9, <1>14 DEF vars
  <1> QED
    BY <1>1, <1>2, <1>3, <1>4, <1>5, <1>6, <1>7, <1>8, <1>10, <1>11, <1>12, <1>13, <1>14
       DEF Next, OrderlyNext, RequestStep, WorkerStep

-----------------------------------------------------------------------------
(* Rows and statuses tell what happened at the gateway *)

LEMMA RecordsInit == Init => RecordsMatchGateway
  BY DEF Init, RecordsMatchGateway

LEMMA RecordsStep == IInv /\ [Next]_vars => RecordsMatchGateway'
  <1> SUFFICES ASSUME IInv, [Next]_vars PROVE RecordsMatchGateway'
    OBVIOUS
  <1>t. TypeOK /\ RecordsMatchGateway /\ Stable /\ CarriedIsGrounded
    BY StableStep DEF IInv
  <1> USE <1>t DEF bookingRow, paymentRow, queue
  <1>1. ASSUME UNCHANGED payStatus PROVE RecordsMatchGateway'
    BY <1>1 DEF RecordsMatchGateway, Stable
  <1>2. ASSUME NEW p \in Procs, CreatePaymentWrite(p) PROVE RecordsMatchGateway'
    BY <1>2 DEF CreatePaymentWrite, RecordsMatchGateway, Stable, TypeOK
  <1>3. ASSUME NEW p \in Procs, VerifyWrite(p) PROVE RecordsMatchGateway'
    <2>1. /\ task[p].ord \in Orders /\ "authorized" \in gw[task[p].ord]
          /\ task[p].captured => "captured" \in gw[task[p].ord]
      BY <1>3 DEF VerifyWrite, CarriedIsGrounded, TaskGrounded
    <2> QED
      BY <1>3, <2>1 DEF VerifyWrite, RecordsMatchGateway, TypeOK
  <1>4. ASSUME NEW w \in Workers, HandlerWrite(w) PROVE RecordsMatchGateway'
    <2>1. worker[w].ev.ord \in Orders /\ Fact(worker[w].ev.type) \in gw[worker[w].ev.ord]
      BY <1>4, WorkerFields DEF HandlerWrite, CarriedIsGrounded, JobGrounded, Emitted
    <2> QED
      BY <1>4, <2>1 DEF HandlerWrite, FailedStatus, Confirms, Fact, RecordsMatchGateway, TypeOK
  <1>5. ASSUME NEW p \in Procs, RequestStep(p), ~CreatePaymentWrite(p), ~VerifyWrite(p)
        PROVE  UNCHANGED payStatus
    BY <1>5 DEF RequestStep, CreatePaymentRead, VerifyRead, VerifyFetch, CompleteRead,
                CompleteWrite, Abort
  <1>6. ASSUME NEW w \in Workers, WorkerStep(w), ~HandlerWrite(w)
        PROVE  UNCHANGED payStatus
    BY <1>6 DEF WorkerStep, JobStart, HandlerFind, MarkProcessed, JobDone, JobFails
  <1>7. ASSUME GatewayStep \/ IntakeStep PROVE UNCHANGED payStatus
    BY <1>7 DEF GatewayStep, IntakeStep, GatewayFails, GatewayAuthorizes,
                GatewayCaptures, Deliver, Enqueue, EnqueueFails
  <1>8. ASSUME CronStep \/ BookingStep \/ Restart \/ (\E b \in Bookings : LateDecision(b))
        PROVE  UNCHANGED payStatus
    BY <1>8 DEF CronStep, BookingStep, ExpireScan, ExpireCommit, ExpireFail, Request,
                Accept, Lapse, Restart, LateDecision
  <1>9. CASE UNCHANGED vars
    BY <1>1, <1>9 DEF vars
  <1> QED
    BY <1>1, <1>2, <1>3, <1>4, <1>5, <1>6, <1>7, <1>8, <1>9 DEF Next, OrderlyNext

LEMMA OutcomeInit == Init => OutcomeIsReal
  BY DEF Init, OutcomeIsReal

LEMMA OutcomeStep == IInv /\ [Next]_vars => OutcomeIsReal'
  <1> SUFFICES ASSUME IInv, [Next]_vars PROVE OutcomeIsReal'
    OBVIOUS
  <1>t. TypeOK /\ RowsConsistent /\ OutcomeIsReal /\ Stable /\ CarriedIsGrounded
    BY StableStep DEF IInv
  <1> USE <1>t DEF bookingRow, paymentRow, queue
  <1> DEFINE Told == {"CONFIRMED", "COMPLETED", "PAYMENT_FAILED"}
  <1>h. ASSUME NEW b \in Bookings, NEW what, HappenedTo(b, what)
        PROVE  HappenedTo(b, what)'
    BY <1>h, HappenedStays
  \* A step that tells no outcome of a booking leaves what is told true.
  <1>k. ASSUME NEW b \in Bookings, status'[b] = status[b] \/ status'[b] \notin Told
        PROVE  /\ status'[b] \in {"CONFIRMED", "COMPLETED"} => HappenedTo(b, "captured")'
               /\ status'[b] = "PAYMENT_FAILED" => HappenedTo(b, "failed")'
    BY <1>k, <1>h DEF OutcomeIsReal
  <1>1. ASSUME UNCHANGED status PROVE OutcomeIsReal'
    <2>1. \A b \in Bookings : status'[b] = status[b]
      BY <1>1
    <2> QED
      BY <1>k, <2>1 DEF OutcomeIsReal
  <1>2. ASSUME NEW p \in Procs, VerifyWrite(p) PROVE OutcomeIsReal'
    <2> DEFINE o == task[p].ord
    <2>1. CASE ~task[p].captured
      BY <1>1, <1>2, <2>1 DEF VerifyWrite
    <2>2. CASE task[p].captured
      <3>1. PICK b \in Bookings : b = forBooking[o] /\ HappenedTo(b, "captured")
        <4>1. o \in Orders /\ payStatus[o] # "NONE" /\ "captured" \in gw[o]
          BY <1>2, <2>2 DEF VerifyWrite, CarriedIsGrounded, TaskGrounded
        <4> QED
          BY <4>1, RowHistory
      <3>2. HappenedTo(b, "captured")'
        BY <1>h, <3>1
      <3>3. /\ status'[b] = "CONFIRMED"
            /\ \A c \in Bookings : c # b => status'[c] = status[c]
        BY <1>2, <2>2, <3>1 DEF VerifyWrite, TypeOK
      <3> QED
        BY <1>k, <3>2, <3>3 DEF OutcomeIsReal
    <2> QED
      BY <2>1, <2>2
  <1>3. ASSUME NEW p \in Procs, CompleteWrite(p) PROVE OutcomeIsReal'
    <2>1. PICK b \in Bookings : b = task[p].bk /\ HappenedTo(b, "captured")
      BY <1>3 DEF CompleteWrite, CarriedIsGrounded, TaskGrounded
    <2>2. HappenedTo(b, "captured")'
      BY <1>h, <2>1
    <2>3. /\ status'[b] = "COMPLETED"
          /\ \A c \in Bookings : c # b => status'[c] = status[c]
      BY <1>3, <2>1 DEF CompleteWrite, TypeOK
    <2> QED
      BY <1>k, <2>2, <2>3 DEF OutcomeIsReal
  <1>4. ASSUME NEW w \in Workers, HandlerWrite(w) PROVE OutcomeIsReal'
    <2> DEFINE e == worker[w].ev
    <2>1. /\ e.ord \in Orders /\ e.type \in EventType /\ e.ord \in linked
          /\ Fact(e.type) \in gw[e.ord]
      BY <1>4, WorkerFields DEF HandlerWrite, CarriedIsGrounded, JobGrounded, Emitted
    <2>2. PICK b \in Bookings : b = forBooking[e.ord] /\ HappenedTo(b, Fact(e.type))
      <3>1. payStatus[e.ord] # "NONE"
        BY <2>1 DEF RowsConsistent
      <3> QED
        BY <2>1, <3>1, RowHistory
    <2>3. \A c \in Bookings : c # b => status'[c] = status[c]
      BY <1>4, <2>2 DEF HandlerWrite, FailedStatus, TypeOK
    <2>4. CASE Confirms(e.type)
      <3>1. Fact(e.type) = "captured" /\ status'[b] = "CONFIRMED"
        BY <1>4, <2>2, <2>4 DEF HandlerWrite, FailedStatus, Confirms, Fact, TypeOK
      <3>2. HappenedTo(b, "captured")'
        BY <1>h, <2>2, <3>1
      <3> QED
        BY <1>k, <2>3, <3>1, <3>2 DEF OutcomeIsReal
    <2>5. CASE e.type = "payment.authorized"
      BY <1>1, <1>4, <2>5 DEF HandlerWrite, Confirms
    <2>6. CASE e.type = "payment.failed"
      <3>1. Fact(e.type) = "failed" /\ status'[b] = "PAYMENT_FAILED"
        BY <1>4, <2>2, <2>6 DEF HandlerWrite, FailedStatus, Confirms, Fact, TypeOK
      <3>2. HappenedTo(b, "failed")'
        BY <1>h, <2>2, <3>1
      <3> QED
        BY <1>k, <2>3, <3>1, <3>2 DEF OutcomeIsReal
    <2> QED
      BY <2>1, <2>4, <2>5, <2>6 DEF EventType, Confirms
  <1>5. ASSUME NEW b \in Bookings,
               Request(b) \/ Accept(b) \/ Lapse(b) \/ LateDecision(b) \/ ExpireCommit(b)
        PROVE  OutcomeIsReal'
    <2>1. \A c \in Bookings : status'[c] = status[c] \/ status'[c] \notin Told
      BY <1>5 DEF Request, Accept, Lapse, LateDecision, ExpireCommit, TypeOK
    <2> QED
      BY <1>k, <2>1 DEF OutcomeIsReal
  <1>6. ASSUME NEW p \in Procs, RequestStep(p), ~VerifyWrite(p), ~CompleteWrite(p)
        PROVE  UNCHANGED status
    BY <1>6 DEF RequestStep, CreatePaymentRead, CreatePaymentWrite, VerifyRead,
                VerifyFetch, CompleteRead, Abort
  <1>7. ASSUME NEW w \in Workers, WorkerStep(w), ~HandlerWrite(w) PROVE UNCHANGED status
    BY <1>7 DEF WorkerStep, JobStart, HandlerFind, MarkProcessed, JobDone, JobFails
  <1>8. ASSUME GatewayStep \/ IntakeStep PROVE UNCHANGED status
    BY <1>8 DEF GatewayStep, IntakeStep, GatewayFails, GatewayAuthorizes,
                GatewayCaptures, Deliver, Enqueue, EnqueueFails
  <1>9. ASSUME ExpireScan \/ Restart \/ (\E b \in Bookings : ExpireFail(b))
        PROVE  UNCHANGED status
    BY <1>9 DEF ExpireScan, Restart, ExpireFail
  <1>10. CASE UNCHANGED vars
    BY <1>1, <1>10 DEF vars
  <1> QED
    BY <1>1, <1>2, <1>3, <1>4, <1>5, <1>6, <1>7, <1>8, <1>9, <1>10
       DEF Next, OrderlyNext, CronStep, BookingStep

-----------------------------------------------------------------------------
THEOREM InductiveInvariant == Spec => []IInv
  <1>1. Init => IInv
    BY TypeInit, RowsInit, QueueInit, CarriedInit, RecordsInit, OutcomeInit DEF IInv
  <1>2. IInv /\ [Next]_vars => IInv'
    BY TypeStep, RowsStep, QueueStep, CarriedStep, RecordsStep, OutcomeStep DEF IInv
  <1> QED
    BY <1>1, <1>2, PTL DEF Spec

\* Every column, every queued job and every handler's local state keeps its
\* type; in particular no job's attempts go below zero.
THEOREM TypeCorrect == Spec => []TypeOK
  <1>1. IInv => TypeOK
    BY DEF IInv
  <1> QED
    BY <1>1, InductiveInvariant, PTL

\* No interleaving of callbacks, webhooks, retries, cron runs and restarts
\* confirms or completes a booking nobody paid, or fails one whose payments
\* all went well.
THEOREM OutcomesAreReal == Spec => []OutcomeIsReal
  <1>1. IInv => OutcomeIsReal
    BY DEF IInv
  <1> QED
    BY <1>1, InductiveInvariant, PTL

\* A Payment row never claims what did not happen at the gateway.
THEOREM RecordsAreTrue == Spec => []RecordsMatchGateway
  <1>1. IInv => RecordsMatchGateway
    BY DEF IInv
  <1> QED
    BY <1>1, InductiveInvariant, PTL

\* The facts of the gateway and of offers that a handler relies on when it writes
\* hold then; of the statuses it read nothing is said.
THEOREM CarriedFactsHold == Spec => []CarriedIsGrounded
  <1>1. IInv => CarriedIsGrounded
    BY DEF IInv
  <1> QED
    BY <1>1, InductiveInvariant, PTL

-----------------------------------------------------------------------------
(* Checkout implements BookingLifecycle *)

LEMMA LifecycleInit == Init => Lifecycle!Init
  BY DEF Init, Lifecycle!Init

LEMMA LifecycleStep == IInv /\ [Next]_vars => [Lifecycle!Next]_(Lifecycle!vars)
  <1> SUFFICES ASSUME IInv, [Next]_vars
               PROVE  Lifecycle!Next \/ UNCHANGED <<status, deadline>>
    BY DEF Lifecycle!vars
  <1>t. TypeOK /\ RowsConsistent /\ CarriedIsGrounded
    BY DEF IInv
  <1> USE <1>t, StatusNames DEF bookingRow, paymentRow, queue
  <1>s. ASSUME NEW b \in Bookings, deadline[b] # "unset", NEW s \in Lifecycle!Settled,
               status' = [status EXCEPT ![b] = s], UNCHANGED deadline
        PROVE  Lifecycle!Next
    BY <1>s DEF Lifecycle!Next, Lifecycle!Settle, Lifecycle!Offered
  <1>1. ASSUME NEW p \in Procs, VerifyWrite(p), task[p].captured PROVE Lifecycle!Next
    <2>1. /\ forBooking[task[p].ord] \in Bookings
          /\ deadline[forBooking[task[p].ord]] # "unset"
      BY <1>1 DEF VerifyWrite, CarriedIsGrounded, TaskGrounded, RowsConsistent
    <2> QED
      BY <1>1, <1>s, <2>1 DEF VerifyWrite
  <1>2. ASSUME NEW p \in Procs, CompleteWrite(p) PROVE Lifecycle!Next
    <2>1. task[p].bk \in Bookings /\ HappenedTo(task[p].bk, "captured")
      BY <1>2 DEF CompleteWrite, CarriedIsGrounded, TaskGrounded
    <2>2. deadline[task[p].bk] # "unset"
      BY <2>1, CheckoutAssumption DEF HappenedTo, RowsConsistent
    <2> QED
      BY <1>2, <1>s, <2>1, <2>2 DEF CompleteWrite
  <1>3. ASSUME NEW w \in Workers, HandlerWrite(w)
        PROVE  Lifecycle!Next \/ UNCHANGED <<status, deadline>>
    <2>1. worker[w].ev.ord \in Orders /\ worker[w].ev.ord \in linked
      BY <1>3, WorkerFields DEF HandlerWrite, FailedStatus, CarriedIsGrounded, JobGrounded
    <2>2. /\ forBooking[worker[w].ev.ord] \in Bookings
          /\ deadline[forBooking[worker[w].ev.ord]] # "unset"
      BY <2>1 DEF RowsConsistent
    <2> QED
      BY <1>3, <1>s, <2>2 DEF HandlerWrite, FailedStatus
  <1>4. ASSUME NEW b \in Bookings, ExpireCommit(b) PROVE Lifecycle!Next
    BY <1>4 DEF ExpireCommit, CarriedIsGrounded, Lifecycle!Next, Lifecycle!Expire,
                Lifecycle!Expirable, Lifecycle!Offered
  <1>5. ASSUME NEW b \in Bookings, Request(b) PROVE Lifecycle!Next
    BY <1>5 DEF Request, Lifecycle!Next, Lifecycle!Request, Lifecycle!Fresh
  <1>6. ASSUME NEW b \in Bookings, Accept(b) PROVE Lifecycle!Next
    BY <1>6 DEF Accept, Lifecycle!Next, Lifecycle!Offer
  <1>7. ASSUME NEW b \in Bookings, LateDecision(b) PROVE Lifecycle!Next
    BY <1>7 DEF LateDecision, Lifecycle!Next, Lifecycle!Offer, Lifecycle!Decline
  <1>8. ASSUME NEW b \in Bookings, Lapse(b) PROVE Lifecycle!Next
    BY <1>8 DEF Lapse, Lifecycle!Next, Lifecycle!Lapse
  <1>9. ASSUME NEW p \in Procs, RequestStep(p), ~CompleteWrite(p),
               ~(VerifyWrite(p) /\ task[p].captured)
        PROVE  UNCHANGED <<status, deadline>>
    BY <1>9 DEF RequestStep, CreatePaymentRead, CreatePaymentWrite, VerifyRead,
                VerifyFetch, VerifyWrite, CompleteRead, Abort
  <1>10. ASSUME NEW w \in Workers, WorkerStep(w), ~HandlerWrite(w)
         PROVE  UNCHANGED <<status, deadline>>
    BY <1>10 DEF WorkerStep, JobStart, HandlerFind, MarkProcessed, JobDone, JobFails
  <1>11. ASSUME GatewayStep \/ IntakeStep PROVE UNCHANGED <<status, deadline>>
    BY <1>11 DEF GatewayStep, IntakeStep, GatewayFails, GatewayAuthorizes,
                 GatewayCaptures, Deliver, Enqueue, EnqueueFails
  <1>12. ASSUME ExpireScan \/ Restart \/ (\E b \in Bookings : ExpireFail(b))
         PROVE  UNCHANGED <<status, deadline>>
    BY <1>12 DEF ExpireScan, Restart, ExpireFail
  <1>13. CASE UNCHANGED vars
    BY <1>13 DEF vars
  <1> QED
    BY <1>1, <1>2, <1>3, <1>4, <1>5, <1>6, <1>7, <1>8, <1>9, <1>10, <1>11, <1>12, <1>13
       DEF Next, OrderlyNext, CronStep, BookingStep

\* Every step of a payment request, a webhook worker or the cron is a step the
\* booking lifecycle allows, or leaves the booking row alone.
THEOREM ImplementsLifecycle == Spec => LifecycleSpec
  <1> QED
    BY InductiveInvariant, LifecycleInit, LifecycleStep, PTL
       DEF LifecycleSpec, Lifecycle!Spec, Spec

\* The lifecycle's own theorems, read for the variables of Checkout.
Abstract == INSTANCE BookingLifecycle_proofs

\* What the lifecycle promises holds of every run of the detailed
\* specification, because the detailed one implements it.
THEOREM DueAfterOffer == Spec => []NothingDueBeforeOffer
  <1>1. Lifecycle!Init => Abstract!Init
    BY DEF Lifecycle!Init, Abstract!Init
  <1>2. [Lifecycle!Next]_Lifecycle!vars => [Abstract!Next]_Abstract!vars
    BY DEF Lifecycle!Next, Lifecycle!vars, Lifecycle!Request, Lifecycle!Fresh, Lifecycle!Offer,
           Lifecycle!Decline, Lifecycle!Lapse, Lifecycle!Expire, Lifecycle!Expirable,
           Lifecycle!Settle, Lifecycle!Offered, Lifecycle!Settled,
           Abstract!Next, Abstract!vars, Abstract!Request, Abstract!Fresh, Abstract!Offer,
           Abstract!Decline, Abstract!Lapse, Abstract!Expire, Abstract!Expirable,
           Abstract!Settle, Abstract!Offered, Abstract!Settled
  <1>3. Abstract!NothingDueBeforeOffer => NothingDueBeforeOffer
    BY DEF Abstract!NothingDueBeforeOffer, Abstract!Offered, Abstract!Settled,
           NothingDueBeforeOffer, Lifecycle!NothingDueBeforeOffer, Lifecycle!Offered, Lifecycle!Settled
  <1>4. Abstract!Spec => []Abstract!NothingDueBeforeOffer
    BY Abstract!OfferedBeforeDue
  <1> QED
    BY <1>1, <1>2, <1>3, <1>4, ImplementsLifecycle, PTL
       DEF LifecycleSpec, Lifecycle!Spec, Abstract!Spec
=============================================================================
