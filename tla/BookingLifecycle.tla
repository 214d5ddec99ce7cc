-------------------------- MODULE BookingLifecycle --------------------------
(***************************************************************************)
(* What the rest of the backend may rely on about a Booking row, whatever  *)
(* order requests, cron runs and webhook jobs are interleaved in.          *)
(*                                                                         *)
(* Every handler reads the row, decides, and writes it back by id without  *)
(* repeating the check, so a write may land on any status.  What survives  *)
(* is an order between decisions: nothing is due before the provider (or   *)
(* an admin) has offered the booking for payment, which is the one write   *)
(* that sets expiresAt, and a request is never reopened.                   *)
(*                                                                         *)
(* RoomInventory and Checkout are both shown to implement this module.     *)
(***************************************************************************)
CONSTANT Bookings            \* ids a booking request may be given

VARIABLES status,            \* Booking.status, "NONE" before the row exists
          deadline           \* Booking.expiresAt against the clock

vars == <<status, deadline>>

\* The status a booking is given by the payment and back-office handlers.
Settled == {"CONFIRMED", "PAYMENT_FAILED", "REFUNDED", "COMPLETED"}

Status == {"NONE", "REQUESTED", "REJECTED", "AWAITING_PAYMENT", "EXPIRED"}
            \union Settled

Deadline == {"unset", "ahead", "passed"}

TypeOK ==
    /\ status \in [Bookings -> Status]
    /\ deadline \in [Bookings -> Deadline]

Init ==
    /\ status = [b \in Bookings |-> "NONE"]
    /\ deadline = [b \in Bookings |-> "unset"]

-----------------------------------------------------------------------------
Offered(b) == deadline[b] # "unset"

\* A plausible slip: the id of a request that ended is used again.
FreshOrEnded(b) == status[b] \in {"NONE", "REJECTED", "EXPIRED"}

Fresh(b) == status[b] = "NONE"

Request(b) ==
    /\ Fresh(b)
    /\ status' = [status EXCEPT ![b] = "REQUESTED"]
    /\ UNCHANGED deadline

Offer(b) ==
    /\ status[b] # "NONE"
    /\ status' = [status EXCEPT ![b] = "AWAITING_PAYMENT"]
    /\ deadline' = [deadline EXCEPT ![b] = "ahead"]

Decline(b) ==
    /\ status[b] # "NONE"
    /\ status' = [status EXCEPT ![b] = "REJECTED"]
    /\ UNCHANGED deadline

\* The payment window of an offered booking runs out.
Lapse(b) ==
    /\ deadline[b] = "ahead"
    /\ deadline' = [deadline EXCEPT ![b] = "passed"]
    /\ UNCHANGED status

\* A plausible slip: an open request expires too.
ExpirableRequest(b) == status[b] # "NONE"

Expirable(b) == Offered(b)

Expire(b) ==
    /\ Expirable(b)
    /\ status' = [status EXCEPT ![b] = "EXPIRED"]
    /\ UNCHANGED deadline

Settle(b) ==
    /\ Offered(b)
    /\ \E s \in Settled : status' = [status EXCEPT ![b] = s]
    /\ UNCHANGED deadline

Next == \E b \in Bookings :
            \/ Request(b) \/ Offer(b) \/ Decline(b)
            \/ Lapse(b) \/ Expire(b) \/ Settle(b)

Spec == Init /\ [][Next]_vars

-----------------------------------------------------------------------------
\* A booking that awaits payment, was paid, failed, expired or was refunded
\* has been offered before: no payment handler, webhook or cron run acts on
\* a booking nobody accepted.
NothingDueBeforeOffer ==
    \A b \in Bookings :
        status[b] \in Settled \union {"AWAITING_PAYMENT", "EXPIRED"} => Offered(b)

\* A request that was decided is never open again, and an offer is never
\* withdrawn from the row.
DecidedStaysDecided ==
    [][\A b \in Bookings :
        /\ status[b] \notin {"NONE", "REQUESTED"} => status'[b] \notin {"NONE", "REQUESTED"}
        /\ Offered(b) => Offered(b)']_vars
=============================================================================
