------------------------------ MODULE MCMailbox ------------------------------
(***************************************************************************)
(* Mailbox on a small instance, in two environments: the initial state     *)
(* chooses between every fault and the calm one, and keeps to it.          *)
(***************************************************************************)
EXTENDS Mailbox, TLC

VARIABLE calm

MCInit == Init /\ calm \in BOOLEAN

MCNext ==
  /\ IF calm THEN CalmNext ELSE Next
  /\ UNCHANGED calm

MCSpec == MCInit /\ [][MCNext]_<<vars, calm>> /\ Fairness

(* In the calm environment the queue and the client implement Delivery: what
   was accepted waits until it is read or too old, is recorded once, and in
   the end it is (send_message, drainInbox, onEnvelope).  Outside it nothing
   is claimed: Delivery stands still. *)
CalmD == INSTANCE Delivery WITH
  posted <- IF calm THEN posted ELSE {},
  waiting <- IF calm THEN queue ELSE {},
  aged <- IF calm THEN aged ELSE {},
  read <- IF calm THEN shown ELSE [m \in Messages |-> 0]

CalmDelivers == CalmD!Spec

(* ... and what has been read is collected: the queue empties
   (ackMessages, WsClient.ack). *)
CalmClears == \A m \in Messages : (calm /\ m \in posted) ~> (m \notin queue)
=============================================================================
