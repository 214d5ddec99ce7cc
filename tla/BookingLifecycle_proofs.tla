----------------------- MODULE BookingLifecycle_proofs -----------------------
(***************************************************************************)
(* What the booking lifecycle guarantees, for any number of bookings.      *)
(***************************************************************************)
EXTENDS BookingLifecycle, TLAPS

IInv == TypeOK /\ NothingDueBeforeOffer

LEMMA Inductive == IInv /\ [Next]_vars => IInv'
  <1> SUFFICES ASSUME IInv, [Next]_vars PROVE IInv'
    OBVIOUS
  <1> USE DEF IInv, TypeOK, NothingDueBeforeOffer, Offered, Status, Settled, Deadline
  <1>1. ASSUME NEW b \in Bookings, Request(b) PROVE IInv'
    BY <1>1 DEF Request, Fresh
  <1>2. ASSUME NEW b \in Bookings, Offer(b) PROVE IInv'
    BY <1>2 DEF Offer
  <1>3. ASSUME NEW b \in Bookings, Decline(b) PROVE IInv'
    BY <1>3 DEF Decline
  <1>4. ASSUME NEW b \in Bookings, Lapse(b) PROVE IInv'
    BY <1>4 DEF Lapse
  <1>5. ASSUME NEW b \in Bookings, Expire(b) PROVE IInv'
    BY <1>5 DEF Expire, Expirable
  <1>6. ASSUME NEW b \in Bookings, Settle(b) PROVE IInv'
    BY <1>6 DEF Settle
  <1>7. CASE UNCHANGED vars
    BY <1>7 DEF vars
  <1> QED
    BY <1>1, <1>2, <1>3, <1>4, <1>5, <1>6, <1>7 DEF Next

\* In every run of the lifecycle, only offered bookings are due, paid, failed,
\* refunded or expired.
THEOREM OfferedBeforeDue == Spec => []NothingDueBeforeOffer
  <1>1. Init => IInv
    BY DEF Init, IInv, TypeOK, NothingDueBeforeOffer, Status, Settled, Deadline
  <1>2. IInv => NothingDueBeforeOffer
    BY DEF IInv
  <1> QED
    BY <1>1, <1>2, Inductive, PTL DEF Spec

\* No step of the lifecycle reopens a decided request or withdraws an offer.
LEMMA StepKeepsDecision ==
  ASSUME [Next]_vars, IInv, NEW b \in Bookings
  PROVE  /\ status[b] \notin {"NONE", "REQUESTED"} => status'[b] \notin {"NONE", "REQUESTED"}
         /\ Offered(b) => Offered(b)'
  <1> DEFINE Kept ==
        /\ status[b] \notin {"NONE", "REQUESTED"} => status'[b] \notin {"NONE", "REQUESTED"}
        /\ Offered(b) => Offered(b)'
  <1> USE DEF IInv, TypeOK, Offered
  <1>1. ASSUME NEW c \in Bookings, Request(c) PROVE Kept
    BY <1>1 DEF Request, Fresh
  <1>2. ASSUME NEW c \in Bookings, Offer(c) PROVE Kept
    BY <1>2 DEF Offer
  <1>3. ASSUME NEW c \in Bookings, Decline(c) PROVE Kept
    BY <1>3 DEF Decline
  <1>4. ASSUME NEW c \in Bookings, Lapse(c) PROVE Kept
    BY <1>4 DEF Lapse
  <1>5. ASSUME NEW c \in Bookings, Expire(c) PROVE Kept
    BY <1>5 DEF Expire
  <1>6. ASSUME NEW c \in Bookings, Settle(c) PROVE Kept
    BY <1>6 DEF Settle, Settled
  <1>7. CASE UNCHANGED vars
    BY <1>7 DEF vars
  <1> QED
    BY <1>1, <1>2, <1>3, <1>4, <1>5, <1>6, <1>7 DEF Next

\* A decided request is never reopened and an offer never withdrawn, in any run.
THEOREM DecisionsStand == Spec => DecidedStaysDecided
  <1>1. Init => IInv
    BY DEF Init, IInv, TypeOK, NothingDueBeforeOffer, Status, Settled, Deadline
  <1>2. IInv /\ [Next]_vars =>
          [\A b \in Bookings :
            /\ status[b] \notin {"NONE", "REQUESTED"} => status'[b] \notin {"NONE", "REQUESTED"}
            /\ Offered(b) => Offered(b)']_vars
    BY StepKeepsDecision
  <1> QED
    BY <1>1, <1>2, Inductive, PTL DEF Spec, DecidedStaysDecided
=============================================================================
