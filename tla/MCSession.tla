------------------------------- MODULE MCSession -------------------------------
(***************************************************************************)
(* A session on small instances: set up between two devices by Handshake,  *)
(* and in use by the two lanes of each peer, with SessionLanes.  The two   *)
(* parts share no record here; `established' is chosen once and says which *)
(* of them moves.  The devices are interchangeable.                        *)
(***************************************************************************)
EXTENDS Handshake, MCSessionLanes, TLC

VARIABLE established

MCInit == Init /\ LanesInit /\ established \in BOOLEAN
MCNext ==
  /\ IF established THEN LanesNext /\ LanesApart' /\ UNCHANGED vars
                    ELSE CalmNext /\ UNCHANGED lanesVars
  /\ UNCHANGED established
MCSpec == MCInit /\ [][MCNext]_<<vars, lanesVars, established>>

Interchangeable == Permutations(Device)
=============================================================================
