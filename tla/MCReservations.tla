--------------------------- MODULE MCReservations ---------------------------
(* Reservations on small instances. *)
EXTENDS Reservations, TLC

\* Requests and bookings are interchangeable; no liveness is checked.
MCSymmetry == Permutations(Procs) \union Permutations(Bookings)
=============================================================================
