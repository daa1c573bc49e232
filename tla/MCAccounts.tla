----------------------------- MODULE MCAccounts -----------------------------
(* Three users, two invitations and two requests at a time. *)
EXTENDS Accounts, TLC

Interchangeable == Permutations(Users) \cup Permutations(Requests) \cup Permutations(Invitations)
=============================================================================
