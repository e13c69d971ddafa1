------------------------------ MODULE MCAccounts ------------------------------
EXTENDS Accounts, TLC

(* The places where requests are handled are interchangeable. *)
Interchangeable == Permutations(Worker)
=============================================================================
