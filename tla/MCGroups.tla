------------------------------- MODULE MCGroups -------------------------------
(* Groups for TLC: devices are interchangeable. *)
EXTENDS Groups, TLC
Interchangeable == Permutations(Device)
===============================================================================
