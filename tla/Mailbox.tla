------------------------------- MODULE Mailbox -------------------------------
(***************************************************************************)
(* Delivery to one account: the server's queue and its live connections    *)
(* (routes/messages.py, ws.py), and the client that drains the queue at    *)
(* login and follows it over a WebSocket (messaging.ts, ws.ts, the lanes   *)
(* of Executor).  Every message here is of one established session, and    *)
(* opens unless the stored session has already spent its key; how sessions *)
(* open messages is the subject of Ratchet.                                *)
(*                                                                         *)
(* Row ids grow and are never reused (Postgres); every list of waiting rows *)
(* is in their order.  The server is one process: the steps of its event loop *)
(* interleave where the code awaits, and nowhere else.                     *)
(***************************************************************************)
EXTENDS Naturals, Sequences, FiniteSets

CONSTANTS
  Messages,
  Sockets,     \* bound: connections that exist at one time
  None,        \* no connection
  MaxAck,      \* ACK_MAX_IDS
  QueueCap,    \* MAX_QUEUED_BYTES_PER_RECIPIENT, in envelopes of one size
  MaxAged,     \* bound: messages that outlive MESSAGE_TTL_SECONDS
  MaxFaults    \* bound: locks, closed tabs, drops, failed requests, repeated logins

ASSUME MailboxBounds ==
  /\ None \notin Sockets
  /\ {MaxAck, QueueCap, MaxAged, MaxFaults} \subseteq Nat

VARIABLES
  \* the server
  queue,      \* messages with a row in message_queue
  row,        \* row[m]: the id of that row, 0 before it is inserted
  aged,       \* messages older than MESSAGE_TTL_SECONDS
  hub,        \* connections registered in WsHub
  endpoint,   \* endpoint[s]: "free", "opening" or "serving"
  backlog,    \* backlog[s]: the rows _push_pending has still to send
  pushing,    \* pushing[m]: connections send_message has still to push m to
  \* the wire
  down, up,   \* down[s]: message frames; up[s]: acknowledged ids
  \* the client
  open,       \* the store is unlocked
  ws,         \* this.ws
  rxTail,     \* envelopes waiting in the receive lane
  lane,       \* lane[l]: the envelope lane l is working on
  login,      \* the login command
  spent,      \* message keys the stored session has used up
  shown,      \* shown[m]: how many records of m the history holds
  \* history and bounds
  refused, pushed, opened, faults

server == <<queue, row, aged, hub, endpoint, backlog, pushing>>
wire == <<down, up>>
client == <<open, ws, rxTail, lane, login, spent, shown>>
ghosts == <<refused, pushed, opened, faults>>
vars == <<server, wire, client, ghosts>>

Lanes == {"rx", "login"}
Rest == [pc |-> "rest"]
Loaded(m, keys) == [pc |-> "loaded", msg |-> m, spent |-> keys]
Saved(m) == [pc |-> "saved", msg |-> m]

LoginIdle == [pc |-> "idle"]
LoginPhase(phase) == [pc |-> phase]
Draining(todo, acks) == [pc |-> "draining", todo |-> todo, acks |-> acks]

Init ==
  /\ queue = {} /\ row = [m \in Messages |-> 0] /\ aged = {} /\ hub = {}
  /\ endpoint = [s \in Sockets |-> "free"]
  /\ backlog = [s \in Sockets |-> {}]
  /\ pushing = [m \in Messages |-> {}]
  /\ down = [s \in Sockets |-> <<>>] /\ up = [s \in Sockets |-> {}]
  /\ open = FALSE /\ ws = None /\ rxTail = <<>>
  /\ lane = [l \in Lanes |-> Rest]
  /\ login = LoginIdle
  /\ spent = {} /\ shown = [m \in Messages |-> 0]
  /\ refused = {} /\ pushed = [s \in Sockets |-> {}]
  /\ opened = {} /\ faults = 0

posted == {m \in Messages : row[m] # 0}
NextRow == Cardinality(posted) + 1

(* ORDER BY id: the row that comes first. *)
Leads(m, rows) == m \in rows /\ \A n \in rows : row[m] <= row[n]

(* _sweep_expired. *)
Swept == queue \ aged

-----------------------------------------------------------------------------
(* The server. *)

Age(m) ==
  /\ m \in queue \ aged
  /\ Cardinality(aged) < MaxAged
  /\ aged' = aged \cup {m}
  /\ UNCHANGED <<queue, row, hub, endpoint, backlog, pushing, wire, client, ghosts>>

(* send_message: sweep, refuse over the cap (507), else insert, commit, and
   start pushing to the connections of this moment. *)
Send(m) ==
  /\ m \notin posted \cup refused
  /\ IF Cardinality(Swept) < QueueCap
     THEN /\ queue' = Swept \cup {m}
          /\ row' = [row EXCEPT ![m] = NextRow]
          /\ pushing' = [pushing EXCEPT ![m] = hub]
          /\ UNCHANGED refused
     ELSE /\ queue' = Swept
          /\ refused' = refused \cup {m}
          /\ UNCHANGED <<row, pushing>>
  /\ UNCHANGED <<aged, hub, endpoint, backlog, wire, client,
                 pushed, opened, faults>>

(* A frame reaches the client only while its end is up. *)
Transmit(s, m) ==
  /\ down' = IF ws = s THEN [down EXCEPT ![s] = Append(@, m)] ELSE down
  /\ pushed' = [pushed EXCEPT ![s] = @ \cup {m}]

(* WsHub.push, one connection.  A send on a broken connection may raise,
   which unregisters it. *)
PushLive(m, s) ==
  /\ s \in pushing[m]
  /\ pushing' = [pushing EXCEPT ![m] = @ \ {s}]
  /\ Transmit(s, m)
  /\ hub' \in IF ws = s THEN {hub} ELSE {hub, hub \ {s}}
  /\ UNCHANGED <<queue, row, aged, endpoint, backlog, up, client,
                 refused, opened, faults>>

\* Mutant: the rows are read when the connection opens, before it registers.
MutAttach(s) ==
  /\ endpoint[s] = "opening"
  /\ endpoint' = [endpoint EXCEPT ![s] = "serving"]
  /\ hub' = hub \cup {s}
  /\ queue' = Swept
  /\ UNCHANGED <<row, aged, backlog, pushing, wire, client, ghosts>>

(* ws_endpoint: authenticated, registered, and - with no await in between -
   the waiting rows read by _push_pending. *)
Attach(s) ==
  /\ endpoint[s] = "opening"
  /\ endpoint' = [endpoint EXCEPT ![s] = "serving"]
  /\ hub' = hub \cup {s}
  /\ queue' = Swept
  /\ backlog' = [backlog EXCEPT ![s] = Swept]
  /\ UNCHANGED <<row, aged, pushing, wire, client, ghosts>>

PushBacklog(s, m) ==
  /\ Leads(m, backlog[s])
  /\ backlog' = [backlog EXCEPT ![s] = @ \ {m}]
  /\ Transmit(s, m)
  /\ UNCHANGED <<queue, row, aged, hub, endpoint, pushing, up, client,
                 refused, opened, faults>>

(* The endpoint reads frames once the backlog is out.  An ack deletes the
   account's own rows. *)
HandleAck(s, m) ==
  /\ endpoint[s] = "serving" /\ backlog[s] = {}
  /\ m \in up[s]
  /\ up' = [up EXCEPT ![s] = @ \ {m}]
  /\ queue' = queue \ {m}
  /\ UNCHANGED <<row, aged, hub, endpoint, backlog, pushing, down, client, ghosts>>

(* The endpoint's `finally': the connection is over, with all it carried. *)
Release(s) ==
  /\ endpoint' = [endpoint EXCEPT ![s] = "free"]
  /\ hub' = hub \ {s}
  /\ backlog' = [backlog EXCEPT ![s] = {}]
  /\ pushing' = [m \in Messages |-> pushing[m] \ {s}]
  /\ down' = [down EXCEPT ![s] = <<>>]
  /\ up' = [up EXCEPT ![s] = {}]
  /\ pushed' = [pushed EXCEPT ![s] = {}]
  /\ UNCHANGED <<queue, row, aged, refused, opened>>

(* The server notices that the client has closed its end. *)
Detach(s) ==
  /\ endpoint[s] # "free" /\ ws # s
  /\ Release(s)
  /\ UNCHANGED <<client, faults>>

-----------------------------------------------------------------------------
(* The client: one envelope through a lane. *)

(* onEnvelope: the frame joins the receive lane. *)
Deliver(s) ==
  /\ ws = s /\ down[s] # <<>>
  /\ down' = [down EXCEPT ![s] = Tail(@)]
  /\ rxTail' = Append(rxTail, Head(down[s]))
  /\ UNCHANGED <<server, up, open, ws, lane, login, spent, shown, ghosts>>

(* Take the next envelope: load the session, unless the store is locked, in
   which case the envelope is skipped, unacknowledged. *)
Begin(l, m) ==
  /\ lane[l] = Rest
  /\ lane' = IF open THEN [lane EXCEPT ![l] = Loaded(m, spent)] ELSE lane
  /\ UNCHANGED <<server, wire, open, ws, spent, shown, ghosts>>

BeginLive ==
  /\ rxTail # <<>>
  /\ rxTail' = Tail(rxTail)
  /\ Begin("rx", Head(rxTail))
  /\ UNCHANGED login

\* Mutant: the id joins the acknowledgements before the envelope is handled.
MutBeginDrained(m) ==
  /\ login.pc = "draining" /\ Leads(m, login.todo)
  /\ login' = [login EXCEPT !.todo = @ \ {m}, !.acks = @ \cup {m}]
  /\ Begin("login", m)
  /\ UNCHANGED rxTail

BeginDrained(m) ==
  /\ login.pc = "draining" /\ Leads(m, login.todo)
  /\ login' = [login EXCEPT !.todo = @ \ {m}]
  /\ Begin("login", m)
  /\ UNCHANGED rxTail

(* processRatchetMessage opens the envelope on the session it loaded, and
   writes that session back. *)
Save(l) ==
  /\ lane[l].pc = "loaded"
  /\ lane[l].msg \notin lane[l].spent
  /\ spent' = lane[l].spent \cup {lane[l].msg}
  /\ lane' = [lane EXCEPT ![l] = Saved(lane[l].msg)]
  /\ opened' = opened \cup {lane[l].msg}
  /\ UNCHANGED <<server, wire, open, ws, rxTail, login, shown,
                 refused, pushed, faults>>

(* "ack": over this.ws if it is connected, or with the others at the end of
   the drain.  A connection still opening may not take it. *)
Answer(l, m) ==
  IF l = "login"
  THEN login' = [login EXCEPT !.acks = @ \cup {m}] /\ UNCHANGED up
  ELSE /\ UNCHANGED login
       /\ IF ws = None THEN UNCHANGED up
          ELSE \/ up' = [up EXCEPT ![ws] = @ \cup {m}]
               \/ endpoint[ws] = "opening" /\ UNCHANGED up

\* Mutant: an envelope that nothing opens is left on the server.
MutDiscard(l) ==
  /\ lane[l].pc = "loaded"
  /\ lane[l].msg \in lane[l].spent
  /\ lane' = [lane EXCEPT ![l] = Rest]
  /\ UNCHANGED <<server, wire, open, ws, rxTail, login, spent, shown, ghosts>>

(* Nothing opens it: discarded (E505). *)
Discard(l) ==
  /\ lane[l].pc = "loaded"
  /\ lane[l].msg \in lane[l].spent
  /\ Answer(l, lane[l].msg)
  /\ lane' = [lane EXCEPT ![l] = Rest]
  /\ UNCHANGED <<server, down, open, ws, rxTail, spent, shown, ghosts>>

(* recordMessage, then the answer. *)
Record(l) ==
  /\ lane[l].pc = "saved" /\ open
  /\ shown' = [shown EXCEPT ![lane[l].msg] = @ + 1]
  /\ Answer(l, lane[l].msg)
  /\ lane' = [lane EXCEPT ![l] = Rest]
  /\ UNCHANGED <<server, down, open, ws, rxTail, spent, ghosts>>

(* ... which throws on a locked store.  The receive lane reports E509; a
   login ends there, its acknowledgements never sent. *)
RecordFails(l) ==
  /\ lane[l].pc = "saved" /\ ~open
  /\ IF l = "rx" THEN UNCHANGED login ELSE login' = LoginIdle
  /\ lane' = [lane EXCEPT ![l] = Rest]
  /\ UNCHANGED <<server, wire, open, ws, rxTail, spent, shown,
                 refused, pushed, opened, faults>>

-----------------------------------------------------------------------------
(* /login: unlock, drain the queue, acknowledge, go live.  A login while a
   connection is up counts among the faults. *)

Fault == faults < MaxFaults /\ faults' = faults + 1

LoginStart ==
  /\ login = LoginIdle
  /\ login' = LoginPhase("fetching")
  /\ open' = TRUE
  /\ IF ws = None THEN UNCHANGED faults ELSE Fault
  /\ UNCHANGED <<server, wire, ws, rxTail, lane, spent, shown,
                 refused, pushed, opened>>

\* Mutant: a fetch also deletes what it returns.
MutFetch ==
  /\ login.pc = "fetching"
  /\ queue' = {}
  /\ login' = Draining(Swept, {})
  /\ UNCHANGED <<row, aged, hub, endpoint, backlog, pushing, wire, open, ws,
                 rxTail, lane, spent, shown, ghosts>>

Fetch ==
  /\ login.pc = "fetching"
  /\ queue' = Swept
  /\ login' = Draining(Swept, {})
  /\ UNCHANGED <<row, aged, hub, endpoint, backlog, pushing, wire, open, ws,
                 rxTail, lane, spent, shown, ghosts>>

Drained == login.pc = "draining" /\ login.todo = {} /\ lane["login"] = Rest

(* ackMessages sends every id at once, and the server refuses a request with
   more than MaxAck of them: the login ends before it goes live. *)
AckDrained ==
  /\ Drained
  /\ IF Cardinality(login.acks) <= MaxAck
     THEN queue' = queue \ login.acks /\ login' = LoginPhase("connecting")
     ELSE queue' = queue /\ login' = LoginIdle
  /\ UNCHANGED <<row, aged, hub, endpoint, backlog, pushing, wire, open, ws,
                 rxTail, lane, spent, shown, ghosts>>

(* connectWs replaces the previous connection. *)
ConnectWs(s) ==
  /\ login.pc = "connecting"
  /\ endpoint[s] = "free"
  /\ endpoint' = [endpoint EXCEPT ![s] = "opening"]
  /\ ws' = s
  /\ login' = LoginIdle
  /\ UNCHANGED <<queue, row, aged, hub, backlog, pushing, wire, open, rxTail, lane,
                 spent, shown, ghosts>>

-----------------------------------------------------------------------------
(* Faults. *)

(* /lock, or the idle timer: the connection is closed and the epoch moves
   on, so an envelope that was being opened is skipped.  A login that is
   under way is not stopped. *)
Lock ==
  /\ Fault
  /\ open
  /\ open' = FALSE
  /\ ws' = None
  /\ lane' = [l \in Lanes |-> IF lane[l].pc = "loaded" THEN Rest ELSE lane[l]]
  /\ UNCHANGED <<server, wire, rxTail, login, spent, shown,
                 refused, pushed, opened>>

CloseTab ==
  /\ Fault
  /\ open
  /\ open' = FALSE
  /\ ws' = None
  /\ lane' = [l \in Lanes |-> Rest]
  /\ rxTail' = <<>>
  /\ login' = LoginIdle
  /\ UNCHANGED <<server, wire, spent, shown,
                 refused, pushed, opened>>

(* The connection breaks, or the server ends it (idle, frame budget,
   restart). *)
Drop(s) ==
  /\ Fault
  /\ ws = s
  /\ ws' = None
  /\ Release(s)
  /\ UNCHANGED <<open, rxTail, lane, login, spent, shown>>

(* The fetch or the acknowledgement of a drain fails. *)
LoginFails ==
  /\ Fault
  /\ login.pc = "fetching" \/ Drained
  /\ login' = LoginIdle
  /\ UNCHANGED <<server, wire, open, ws, rxTail, lane, spent, shown,
                 refused, pushed, opened>>

-----------------------------------------------------------------------------
ServerWork ==
  \/ \E m \in Messages, s \in Sockets : PushLive(m, s) \/ PushBacklog(s, m) \/ HandleAck(s, m)
  \/ \E s \in Sockets : Attach(s) \/ Detach(s)

LaneWork ==
  \/ \E s \in Sockets : Deliver(s)
  \/ BeginLive \/ \E m \in Messages : BeginDrained(m)
  \/ \E l \in Lanes : Save(l) \/ Discard(l) \/ Record(l) \/ RecordFails(l)

LoginWork == Fetch \/ AckDrained \/ \E s \in Sockets : ConnectWs(s)

Outside == \E m \in Messages : Send(m) \/ Age(m)

Next ==
  \/ ServerWork \/ LaneWork \/ LoginWork \/ Outside
  \/ LoginStart
  \/ Lock \/ CloseTab \/ LoginFails \/ \E s \in Sockets : Drop(s)

Spec == Init /\ [][Next]_vars

(* The calm environment: a login starts while live delivery is down and the
   receive lane is idle, /lock is not typed while a login is under way, and
   the store is not locked, nor the tab closed, between the two writes of one
   message. *)
LaneIdle == ws = None /\ rxTail = <<>> /\ lane["rx"] = Rest
BetweenWrites == \E l \in Lanes : lane[l].pc = "saved"

CalmNext ==
  \/ ServerWork \/ LaneWork \/ LoginWork \/ Outside
  \/ LaneIdle /\ LoginStart
  \/ ~BetweenWrites /\ CloseTab
  \/ ~BetweenWrites /\ login = LoginIdle /\ Lock
  \/ LoginFails \/ \E s \in Sockets : Drop(s)

(* Fairness: the event loops of both sides run, and a user who is not
   connected logs in again. *)
Fairness ==
  /\ WF_vars(ServerWork)
  /\ WF_vars(LaneWork)
  /\ WF_vars(LoginWork)
  /\ WF_vars(LaneIdle /\ LoginStart)

CalmSpec == Init /\ [][CalmNext]_vars /\ Fairness

-----------------------------------------------------------------------------
LaneType ==
  {Rest} \cup [pc : {"loaded"}, msg : posted, spent : SUBSET opened]
         \cup [pc : {"saved"}, msg : opened]
LoginType ==
  [pc : {"idle", "fetching", "connecting"}]
  \cup [pc : {"draining"}, todo : SUBSET posted, acks : SUBSET opened]

TypeOK ==
  /\ row \in [Messages -> Nat] /\ IsFiniteSet(posted)
  /\ queue \subseteq posted /\ aged \subseteq posted
  /\ endpoint \in [Sockets -> {"free", "opening", "serving"}]
  /\ hub \subseteq {s \in Sockets : endpoint[s] = "serving"}
  /\ backlog \in [Sockets -> SUBSET posted]
  /\ pushing \in [Messages -> SUBSET Sockets] /\ \A m \in Messages \ posted : pushing[m] = {}
  /\ down \in [Sockets -> Seq(posted)] /\ up \in [Sockets -> SUBSET opened]
  /\ open \in BOOLEAN /\ ws \in Sockets \cup {None}
  /\ rxTail \in Seq(posted)
  /\ lane \in [Lanes -> LaneType] /\ login \in LoginType
  /\ lane["login"] # Rest => login.pc = "draining"
  /\ spent \subseteq opened /\ opened \subseteq posted
  /\ shown \in [Messages -> Nat]
  /\ refused \subseteq Messages \ posted
  /\ pushed \in [Sockets -> SUBSET posted]
  /\ faults \in 0..MaxFaults

(* An envelope leaves the queue only once its message has been opened or has
   grown too old, whatever locks, closed tabs, dropped connections, repeated
   pushes and overlapping logins happen ("torn down while decrypting; leave
   queued server-side", processRatchetMessage). *)
UnopenedStaysQueued ==
  \A m \in posted : m \in queue \/ m \in opened \/ m \in aged

(* Nothing falls between the backlog and the live push: a connected client
   has been sent every waiting row, or is about to be (register before
   _push_pending, commit before WsHub.push). *)
NothingMissed ==
  \A s \in hub : ws = s =>
    \A m \in queue :
      \/ m \in pushed[s] \cup backlog[s]
      \/ s \in pushing[m]

(* In the calm environment the queue and the client do what Delivery
   promises, step by step: what was accepted waits until it is read or too
   old, and it is recorded once.  That it is read in the end is for TLC. *)
D == INSTANCE Delivery WITH waiting <- queue, read <- shown

DeliversSafely == D!Init /\ [][D!Next]_(D!vars)

-----------------------------------------------------------------------------
(* The strengthening that makes the invariants inductive, in every
   environment and in the calm one. *)
IInv == TypeOK /\ UnopenedStaysQueued /\ NothingMissed

(* One lane works at a time, on an open store. *)
OneLane ==
  /\ login # LoginIdle => LaneIdle
  /\ \A l \in Lanes : lane[l] # Rest => open

(* A key is spent for a message that is recorded, or just about to be. *)
Recorded(m) == shown[m] = 1
SpentOnRecords ==
  /\ \A m \in Messages : shown[m] \in {0, 1} /\ (Recorded(m) => m \in spent)
  /\ \A m \in spent : Recorded(m) \/ \E l \in Lanes : lane[l] = Saved(m)
  /\ \A l \in Lanes :
       /\ lane[l].pc = "loaded" => lane[l].spent = spent
       /\ lane[l].pc = "saved" => lane[l].msg \in spent /\ ~Recorded(lane[l].msg)

(* Only what is recorded is acknowledged. *)
AcksAreRecords ==
  /\ \A s \in Sockets : \A m \in up[s] : Recorded(m)
  /\ login.pc = "draining" => \A m \in login.acks : Recorded(m)

CalmInv == TypeOK /\ OneLane /\ SpentOnRecords /\ AcksAreRecords
=============================================================================
