---------------------------- MODULE MCSettlement ----------------------------
(* Settlement on small instances. *)
EXTENDS Settlement, TLC

\* Requests, refunds and payouts are interchangeable; no liveness is checked.
MCSymmetry == Permutations(Procs) \union Permutations(Refunds) \union Permutations(Payouts)
=============================================================================
