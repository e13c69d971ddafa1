----------------------------- MODULE SessionLanes -----------------------------
(***************************************************************************)
(* One stored session record per peer and two lanes that load, change and  *)
(* store it: the command lane (Executor.run -> sendRatchetMessage) and the *)
(* receive lane (Executor.rxTail -> processRatchetMessage).  Neither lane  *)
(* waits for the other, and each awaits the store twice: a read, then a    *)
(* write of a record computed from what was read.                          *)
(*                                                                         *)
(*   LanesSpec   the lanes as they are                                     *)
(*   ApartSpec   the same steps, with no lane between its read and its     *)
(*               write while the other is: what Ratchet takes for granted  *)
(***************************************************************************)
EXTENDS RatchetOps

CONSTANTS
  MaxSent,     \* bound: how many messages each peer encrypts
  MaxCrashes   \* bound: how many times a tab is closed

ASSUME LanesBounds == MaxSent \in [Role -> Nat] /\ MaxCrashes \in Nat

VARIABLES
  st,         \* st[r]: the record under session/<peer> in the store of r
  sending,    \* sending[r]: the command lane of r
  receiving,  \* receiving[r]: the receive lane of r
  queued,     \* queued[r]: envelopes waiting for r on the server
  saved,      \* saved[r]: how many messages r has encrypted and saved
  sent,       \* sent[r]: every message r has encrypted and saved (history)
  got,        \* got[r]: messages r has decrypted and saved (history)
  crashes

lanesVars == <<st, sending, receiving, queued, saved, sent, got, crashes>>

(* A lane at rest; a lane that holds the record it has read (`loaded'; the
   receive lane with the envelope it works on); a send that is saved and on
   its way to the server (`posting'); an envelope that opened, saved and not
   yet acknowledged (`opened'). *)
AtRest == [pc |-> "rest"]
Loaded(session) == [pc |-> "loaded", session |-> session]
Posting(m) == [pc |-> "posting", msg |-> m]
LoadedFor(session, m) == [pc |-> "loaded", session |-> session, msg |-> m]
Opened(m) == [pc |-> "opened", msg |-> m]

Holding(lane) == lane.pc = "loaded"

LanesInit ==
  /\ st = [r \in Role |-> InitRatchet(r)]
  /\ sending = [r \in Role |-> AtRest]
  /\ receiving = [r \in Role |-> AtRest]
  /\ queued = [r \in Role |-> {}]
  /\ saved = [r \in Role |-> 0]
  /\ sent = [r \in Role |-> {}]
  /\ got = [r \in Role |-> {}]
  /\ crashes = 0

-----------------------------------------------------------------------------
(* The command lane.  run() refuses a second command while one is in
   flight, so a send starts from rest. *)
LoadToSend(r) ==
  /\ sending[r] = AtRest
  /\ saved[r] < MaxSent[r]
  /\ sending' = [sending EXCEPT ![r] = Loaded(st[r])]
  /\ UNCHANGED <<st, receiving, queued, saved, sent, got, crashes>>

\* Mutant: the message goes out, the advanced record is not written.
MutSaveSend(r) ==
  LET enc == Encrypt(sending[r].session, saved[r] + 1)
  IN  /\ Holding(sending[r])
      /\ saved' = [saved EXCEPT ![r] = @ + 1]
      /\ sent' = [sent EXCEPT ![r] = @ \cup {enc.msg}]
      /\ sending' = [sending EXCEPT ![r] = Posting(enc.msg)]
      /\ UNCHANGED <<st, receiving, queued, got, crashes>>

(* The record is advanced and written before the message goes out. *)
SaveSend(r) ==
  LET enc == Encrypt(sending[r].session, saved[r] + 1)
  IN  /\ Holding(sending[r])
      /\ st' = [st EXCEPT ![r] = enc.state]
      /\ saved' = [saved EXCEPT ![r] = @ + 1]
      /\ sent' = [sent EXCEPT ![r] = @ \cup {enc.msg}]
      /\ sending' = [sending EXCEPT ![r] = Posting(enc.msg)]
      /\ UNCHANGED <<receiving, queued, got, crashes>>

(* The server takes the envelope, or the request fails. *)
Post(r, accepted) ==
  /\ sending[r].pc = "posting"
  /\ queued' = IF accepted THEN [queued EXCEPT ![Peer(r)] = @ \cup {sending[r].msg}]
               ELSE queued
  /\ sending' = [sending EXCEPT ![r] = AtRest]
  /\ UNCHANGED <<st, receiving, saved, sent, got, crashes>>

-----------------------------------------------------------------------------
(* The receive lane handles one envelope at a time.  The server may deliver
   an envelope again until it has its acknowledgement. *)
LoadToRead(r, m) ==
  /\ receiving[r] = AtRest
  /\ m \in queued[r]
  /\ receiving' = [receiving EXCEPT ![r] = LoadedFor(st[r], m)]
  /\ UNCHANGED <<st, sending, queued, saved, sent, got, crashes>>

(* The envelope opens: the advanced record replaces the stored one. *)
SaveRead(r) ==
  /\ Holding(receiving[r])
  /\ Decrypts(receiving[r].session, receiving[r].msg)
  /\ st' = [st EXCEPT ![r] = Decrypt(receiving[r].session, receiving[r].msg)]
  /\ got' = [got EXCEPT ![r] = @ \cup {receiving[r].msg}]
  /\ receiving' = [receiving EXCEPT ![r] = Opened(receiving[r].msg)]
  /\ UNCHANGED <<sending, queued, saved, sent, crashes>>

Acknowledge(r, m, acked) ==
  /\ queued' = IF acked THEN [queued EXCEPT ![r] = @ \ {m}] ELSE queued
  /\ receiving' = [receiving EXCEPT ![r] = AtRest]
  /\ UNCHANGED <<st, sending, saved, sent, got, crashes>>

(* No session opens it: discarded (E505), and acknowledged all the same. *)
Discard(r, acked) ==
  /\ Holding(receiving[r])
  /\ ~Decrypts(receiving[r].session, receiving[r].msg)
  /\ Acknowledge(r, receiving[r].msg, acked)

AckRead(r, acked) ==
  /\ receiving[r].pc = "opened"
  /\ Acknowledge(r, receiving[r].msg, acked)

(* The tab is closed: both lanes lose what they had not written. *)
Crash(r) ==
  /\ crashes < MaxCrashes
  /\ sending[r] # AtRest \/ receiving[r] # AtRest
  /\ sending' = [sending EXCEPT ![r] = AtRest]
  /\ receiving' = [receiving EXCEPT ![r] = AtRest]
  /\ crashes' = crashes + 1
  /\ UNCHANGED <<st, queued, saved, sent, got>>

-----------------------------------------------------------------------------
CommandStep(r) ==
  \/ LoadToSend(r)
  \/ SaveSend(r)
  \/ \E accepted \in BOOLEAN : Post(r, accepted)

ReceiveStep(r) ==
  \/ \E m \in queued[r] : LoadToRead(r, m)
  \/ SaveRead(r)
  \/ \E acked \in BOOLEAN : Discard(r, acked) \/ AckRead(r, acked)

LanesNext == \E r \in Role : CommandStep(r) \/ ReceiveStep(r) \/ Crash(r)

LanesSpec == LanesInit /\ [][LanesNext]_lanesVars

(* At most one lane of a peer is between its read and its write. *)
LanesApart == \A r \in Role : ~(Holding(sending[r]) /\ Holding(receiving[r]))

ApartSpec == LanesInit /\ [][LanesNext /\ LanesApart']_lanesVars

-----------------------------------------------------------------------------
(* Types. *)
CommandLane == {AtRest} \cup [pc : {"loaded"}, session : Session]
                     \cup [pc : {"posting"}, msg : Message]
ReceiveLane == {AtRest} \cup [pc : {"loaded"}, session : Session, msg : Message]
                     \cup [pc : {"opened"}, msg : Message]

LanesTyped ==
  /\ st \in [Role -> Session]
  /\ sending \in [Role -> CommandLane]
  /\ receiving \in [Role -> ReceiveLane]
  /\ queued \in [Role -> SUBSET Message]
  /\ saved \in [Role -> Nat]
  /\ sent \in [Role -> SUBSET Message]
  /\ got \in [Role -> SUBSET Message]
  /\ crashes \in 0..MaxCrashes

(* While the lanes stay apart they implement Ratchet, for which the key and
   replay properties are proved: a load is invisible, the write of a send is
   Ratchet's Send with the envelope already on the wire, a request that then
   fails is an envelope that expires, the write of a receive is a Receive
   whose acknowledgement is outstanding, and the acknowledgement is another
   Receive of an envelope that no longer opens. *)
OnTheWire(r) == IF sending[r].pc = "posting" THEN {sending[r].msg} ELSE {}
Waiting == [r \in Role |-> queued[r] \cup OnTheWire(Peer(r))]

R == INSTANCE Ratchet WITH net <- Waiting, serial <- saved

ImplementsRatchet == R!Spec

(* Why it holds: while the lanes stay apart, what a lane holds is what the
   store holds; a letter on the wire is not at the server yet, and the one
   the receive lane works on is still there; one that has been opened has
   been read, and Ratchet says that it never opens again. *)
Lanes ==
  \A r \in Role :
    /\ Holding(sending[r]) => sending[r].session = st[r] /\ saved[r] < MaxSent[r]
    /\ sending[r].pc = "posting" => sending[r].msg \in sent[r] \ queued[Peer(r)]
    /\ Holding(receiving[r]) => receiving[r].session = st[r]
    /\ receiving[r].pc # "rest" => receiving[r].msg \in queued[r]
    /\ receiving[r].pc = "opened" => receiving[r].msg \in got[r]
    /\ queued[r] \subseteq sent[Peer(r)]

(* "a failed send can never reuse a message key" (messaging.ts, and the
   guidelines on the lanes that "mutate shared ratchet and store state"). *)
NoKeyReuse ==
  \A r \in Role : \A a, b \in sent[r] :
    <<a.chain, a.n>> = <<b.chain, b.n>> => a = b
=============================================================================
