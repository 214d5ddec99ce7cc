----------------------------- MODULE MCAccounts -----------------------------
(* Accounts for one user: no statement of a handler touches two accounts.  *)
EXTENDS Accounts
=============================================================================
