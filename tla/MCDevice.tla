------------------------------- MODULE MCDevice -------------------------------
(* Device for TLC: passphrases are interchangeable. *)
EXTENDS Device, TLC
Interchangeable == Permutations(Pass)
===============================================================================
