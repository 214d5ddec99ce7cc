--------------------------- MODULE MCCouponSlots ---------------------------
(* CouponSlots for three bookings of two users. *)
EXTENDS CouponSlots, TLC

CONSTANTS b1, b2, b3, u1, u2

\* Two bookings of one user and one of another.
MCOwner == [b \in Bookings |-> IF b = b3 THEN u2 ELSE u1]

MCSymmetry == Permutations(Procs)
=============================================================================
