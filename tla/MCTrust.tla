-------------------------------- MODULE MCTrust --------------------------------
(* Trust for TLC. *)
EXTENDS Trust
===============================================================================
