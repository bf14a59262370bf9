------------------------------ MODULE MCAccounts ------------------------------
(***************************************************************************)
(* One request handler and two consumers, whose messages cross.            *)
(***************************************************************************)
EXTENDS Accounts
=============================================================================
