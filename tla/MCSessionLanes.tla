---------------------------- MODULE MCSessionLanes ----------------------------
(***************************************************************************)
(* SessionLanes on small instances.                                        *)
(***************************************************************************)
EXTENDS SessionLanes

ThreeTwo == [r \in Role |-> IF r = "initiator" THEN 3 ELSE 2]
=============================================================================
