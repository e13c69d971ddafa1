------------------------------ MODULE MCRatchet ------------------------------
(***************************************************************************)
(* Ratchet on small instances, in both of its environments: `calm' is      *)
(* chosen once, and bounds how many messages each peer encrypts.           *)
(***************************************************************************)
EXTENDS Ratchet

VARIABLE calm   \* TurnsSpec rather than Spec

Six == [r \in Role |-> 6]
Uneven == [r \in Role |-> IF r = "initiator" THEN 5 ELSE 2]

MCInit == Init /\ calm \in BOOLEAN
MCNext ==
  /\ IF calm THEN TurnsNext ELSE Next /\ \A r \in Role : serial'[r] <= Uneven[r]
  /\ UNCHANGED calm
MCSpec == MCInit /\ [][MCNext]_<<vars, calm>>

(* While the peers take turns and nothing is lost, every envelope opens when
   its turn comes (ratchetEncrypt and ratchetDecrypt at every change of turn,
   ratchet.ts:189). *)
CalmOpens == calm => NextEnvelopeOpens
=============================================================================
