------------------------------ MODULE MCAccounts ------------------------------
(* A small instance of Accounts: one login whose callback may be repeated. *)
EXTENDS Accounts, TLC

CONSTANTS f1, c1, c2

MCFlowOf == (c1 :> f1) @@ (c2 :> f1)
=============================================================================
