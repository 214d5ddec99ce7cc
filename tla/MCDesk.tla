------------------------------- MODULE MCDesk -------------------------------
(* The smaller services on small instances. *)
EXTENDS Desk, TLC

\* A private percentage off each person's price, and a public amount that is more than the
\* cheaper order costs, also under its cap.
MCTerms ==
    {[percent |-> TRUE, each |-> TRUE, value |-> 50, cap |-> Nothing, private |-> TRUE,
      audience |-> {}, least |-> 0, group |-> 2],
     [percent |-> FALSE, each |-> FALSE, value |-> 9, cap |-> 7, private |-> FALSE,
      audience |-> Pair, least |-> 5, group |-> 0]}

MCOrders == {[unit |-> 3, heads |-> 2], [unit |-> 5, heads |-> 1]}

\* Requests and rows are interchangeable; no liveness is checked.  Two of the Things are
\* enough: with all three the permutations cost more than the states they save.
MCSymmetry ==
    Permutations(Procs) \union Permutations(Pair)
        \union Permutations(Things \ {CHOOSE t \in Things : TRUE})
=============================================================================
