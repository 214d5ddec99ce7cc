----------------------------- MODULE MCCheckout -----------------------------
(* Checkout with the webhook events that matter together. *)
EXTENDS Checkout, TLC

CONSTANTS o1, o2

Event(type, o) == [type |-> type, ord |-> o]

\* A late authorization and a failure of one order, the capture of another.
MCTwoOrders == {Event("payment.failed", o1), Event("payment.captured", o2)}

\* Two events of one payment, whose order of arrival matters.
MCOutOfOrder == {Event("payment.authorized", o1), Event("payment.captured", o1)}

MCNoEvents == {}
=============================================================================
