------------------------------- MODULE Delivery -------------------------------
(***************************************************************************)
(* What store-and-forward delivery promises to one recipient: a message    *)
(* that was accepted waits until it has been read or has grown too old,    *)
(* and it is read once.                                                    *)
(***************************************************************************)
EXTENDS Naturals

CONSTANT Messages

VARIABLES
  posted,   \* accepted so far
  waiting,  \* held for the recipient
  aged,     \* past MESSAGE_TTL_SECONDS
  read      \* read[m]: how many times m entered the recipient's history

vars == <<posted, waiting, aged, read>>

Init ==
  /\ posted = {}
  /\ waiting = {}
  /\ aged = {}
  /\ read = [m \in Messages |-> 0]

(* Any touch of the queue sweeps what is too old. *)
Swept == waiting \ aged

Accept(m) ==
  /\ m \notin posted
  /\ posted' = posted \cup {m}
  /\ waiting' = Swept \cup {m}
  /\ UNCHANGED <<aged, read>>

Age(m) ==
  /\ m \in waiting
  /\ aged' = aged \cup {m}
  /\ UNCHANGED <<posted, waiting, read>>

Sweep ==
  /\ waiting' = Swept
  /\ UNCHANGED <<posted, aged, read>>

Read(m) ==
  /\ m \in posted
  /\ read[m] = 0
  /\ read' = [read EXCEPT ![m] = 1]
  /\ UNCHANGED <<posted, waiting, aged>>

(* Only what has been read may be collected. *)
Collect ==
  /\ \E done \in SUBSET {m \in waiting : read[m] = 1} : waiting' = waiting \ done
  /\ UNCHANGED <<posted, aged, read>>

Next ==
  \/ \E m \in Messages : Accept(m) \/ Age(m) \/ Read(m)
  \/ Sweep
  \/ Collect

(* Every accepted message is read, unless it grows too old first. *)
EventuallyRead ==
  \A m \in Messages : (m \in posted) ~> (read[m] = 1 \/ m \in aged)

Spec == Init /\ [][Next]_vars /\ EventuallyRead
=============================================================================
