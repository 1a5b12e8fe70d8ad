----------------------------- MODULE MCAccounts -----------------------------
(* Two module names, one of them a protocol's, for Accounts. *)
EXTENDS Accounts
=============================================================================
