------------------------------ MODULE Transcript -------------------------------
(***************************************************************************)
(* What two devices keep of their conversation: the time each message is   *)
(* shown under and the time its deadlines count from (records.ts), the     *)
(* disappearing timer both ends should agree on, the local retention cap,  *)
(* and the deletion of one's own messages at both ends (lifecycle.ts).     *)
(*                                                                         *)
(* The session is established and what is sent under it opens at the other *)
(* end (Ratchet), in any order and within the server's time limit          *)
(* (Mailbox).  A command runs up to each of its requests; the reading of a *)
(* message by the receive lane is one step.  Each device has a clock of    *)
(* its own, which may be wrong and may be set while it runs.               *)
(***************************************************************************)
EXTENDS Integers

CONSTANTS
  A, B,           \* the devices
  MaxQueueAge,    \* MAX_QUEUE_AGE_MS and the server's limit
  MaxClockSkew,   \* MAX_CLOCK_SKEW_MS
  Durations,      \* what a timer or a cap may be set to; Off is none
  MaxTime,        \* bound: how long it goes on
  MaxWrong,       \* bound: how far ahead a clock may be
  MaxCommands,    \* bound: commands run
  MaxFaults       \* bound: failed requests, closed tabs, clocks set

Off == 0

ASSUME TranscriptBounds ==
  /\ A # B
  /\ {MaxQueueAge, MaxClockSkew, MaxTime, MaxWrong, MaxCommands, MaxFaults} \subseteq Nat
  /\ Durations \subseteq Nat \ {Off}

VARIABLES
  timer,     \* the contact's timerSeconds, at each device
  cap,       \* settings/purge
  store,     \* msg/<uid>: the records of the conversation
  lastTs,    \* the session's lastTs
  ns, heard, \* the session's send counter, and how far it has received
  wire,      \* what is on its way to each device
  cmd,       \* the command each device runs
  clock, ahead,   \* the time, and how far ahead of it each device's clock is
  \* history and bounds
  erased,    \* the messages /delete was run for
  untold,    \* those the peer was not told of, or told before it had them
  crossed,   \* timers crossed, or the sending of one failed
  turned,    \* the devices whose clock was set
  commands, faults

Device == {A, B}
Peer(d) == IF d = A THEN B ELSE A
Now(d) == clock + ahead[d]

session == <<ns, heard, lastTs, wire>>
time == <<clock, ahead, turned>>
vars == <<timer, cap, store, session, cmd, time, erased, untold, crossed, commands, faults>>

NoMid == 0
Rest == [pc |-> "rest", op |-> "none", mid |-> NoMid, timer |-> Off, sentAt |-> 0, deletes |-> {}]

Init ==
  /\ timer = [d \in Device |-> Off] /\ cap = [d \in Device |-> Off]
  /\ store = [d \in Device |-> {}]
  /\ ns = [d \in Device |-> 0] /\ heard = [d \in Device |-> 0]
  /\ lastTs = [d \in Device |-> 0] /\ wire = [d \in Device |-> {}]
  /\ cmd = [d \in Device |-> Rest]
  /\ clock = 0 /\ ahead \in [Device -> 0 .. MaxWrong] /\ turned = {}
  /\ erased = {} /\ untold = {} /\ crossed = FALSE /\ commands = 0 /\ faults = 0

Command(d) == cmd[d] = Rest /\ commands < MaxCommands /\ commands' = commands + 1
Become(d, c) == cmd' = [cmd EXCEPT ![d] = c]
Fault == faults < MaxFaults /\ faults' = faults + 1

-----------------------------------------------------------------------------
(* Records. *)

AtLeast(low, t) == IF t < low THEN low ELSE t
AtMost(high, t) == IF t > high THEN high ELSE t
Travelled(sentAt, now) == AtLeast(now - MaxQueueAge, sentAt)

(* Mutant: the clamp has no ceiling. *)
MutStamp(sentAt, now, floor) == AtLeast(floor, Travelled(sentAt, now))

(* Mutant: the time of the message before is no floor. *)
MutStampLoose(sentAt, now, floor) == AtMost(now + MaxClockSkew, Travelled(sentAt, now))

(* stampIncoming: what the sender says, within what is possible. *)
Stamp(sentAt, now, floor) ==
  AtMost(now + MaxClockSkew, AtLeast(floor, Travelled(sentAt, now)))

(* Mutant: the deadline counts from the time shown. *)
MutDeadline(ts, at, seconds) == IF seconds = Off THEN Off ELSE ts + seconds

(* The deadline counts from arrival. *)
Deadline(ts, at, seconds) == IF seconds = Off THEN Off ELSE at + seconds

(* recordMessage; n, late, said and kept are what the properties compare it with. *)
Recorded(d, mine, mid, ts, at, n, late, said) ==
  [mine |-> mine, mid |-> mid, ts |-> ts, at |-> at,
   due |-> Deadline(ts, at, timer'[d]),
   n |-> n, late |-> late, said |-> said, kept |-> timer'[d]]

Expired(d, r) ==
  \/ r.due # Off /\ Now(d) >= r.due
  \/ cap'[d] # Off /\ Now(d) >= r.at + cap'[d]

(* purgeExpired *)
Swept(d, records) == {r \in records : ~Expired(d, r)}
Sweep(d, records) == store' = [store EXCEPT ![d] = Swept(d, records)]

Own(d) == {r \in store[d] : r.mine}

-----------------------------------------------------------------------------
(* Commands. *)

(* A text is dated, and given the timer its sender has now. *)
SendText(d) ==
  /\ Command(d)
  /\ Become(d, [Rest EXCEPT !.pc = "post", !.op = "text", !.mid = commands + 1,
                            !.timer = timer[d], !.sentAt = Now(d)])
  /\ UNCHANGED <<timer, cap, store, session, time, erased, untold, crossed, faults>>

SetTimer(d, seconds) ==
  /\ Command(d)
  /\ timer' = [timer EXCEPT ![d] = seconds]
  /\ Become(d, [Rest EXCEPT !.pc = "post", !.op = "timer", !.timer = seconds, !.sentAt = Now(d)])
  /\ UNCHANGED <<cap, store, session, time, erased, untold, crossed, faults>>

PurgeSet(d, seconds) ==
  /\ Command(d)
  /\ cap' = [cap EXCEPT ![d] = seconds]
  /\ Sweep(d, store[d])
  /\ UNCHANGED <<timer, session, cmd, time, erased, untold, crossed, faults>>

PurgeNow(d) ==
  /\ Command(d)
  /\ store' = [store EXCEPT ![d] = {}]
  /\ UNCHANGED <<timer, cap, session, cmd, time, erased, untold, crossed, faults>>

(* /delete last, N or all: the newest of one's own go here at once, ... *)
Delete(d) ==
  /\ Command(d)
  /\ \E victims \in SUBSET Own(d) \ {{}} :
       /\ \A r \in victims, q \in Own(d) \ victims : q.ts <= r.ts
       /\ store' = [store EXCEPT ![d] = @ \ victims]
       /\ LET mids == {r.mid : r \in victims} IN
            /\ erased' = erased \cup mids
            /\ Become(d, [Rest EXCEPT !.pc = "ask", !.op = "delete", !.deletes = mids])
  /\ UNCHANGED <<timer, cap, session, time, untold, crossed, faults>>

(* ... and then the peer is asked to do the same: requestPeerDeletion. *)
Ask(d) ==
  /\ cmd[d].pc = "ask"
  /\ Become(d, [cmd[d] EXCEPT !.pc = "post", !.timer = timer[d], !.sentAt = Now(d)])
  /\ UNCHANGED <<timer, cap, store, session, time, erased, untold, crossed, commands, faults>>

(* encodeAppPayload *)
Message(d) ==
  [n |-> ns[d] + 1, mid |-> cmd[d].mid, timer |-> cmd[d].timer, sentAt |-> cmd[d].sentAt,
   deletes |-> cmd[d].deletes, left |-> clock]

Goes(d) ==
  /\ wire' = [wire EXCEPT ![Peer(d)] = @ \cup {Message(d)}]
  /\ crossed' = \/ crossed \/ cmd[d].timer # timer[d]
                \/ \E m \in wire[d] : m.timer # cmd[d].timer

(* What the peer has not learnt of a command that ends before it has sent. *)
Unsent(d) ==
  /\ untold' = untold \cup cmd[d].deletes
  /\ crossed' = (crossed \/ cmd[d].op = "timer")

(* sendRatchetMessage: the session advances whether or not the request gets
   through; a text is recorded once it has, and what has expired is swept. *)
Post(d) ==
  /\ cmd[d].pc = "post"
  /\ ns' = [ns EXCEPT ![d] = @ + 1]
  /\ Goes(d)
  /\ UNCHANGED <<timer, cap>>
  /\ \/ /\ cmd[d].op = "text" /\ Become(d, [cmd[d] EXCEPT !.pc = "record"])
        /\ UNCHANGED store
     \/ cmd[d].op # "text" /\ Become(d, Rest) /\ Sweep(d, store[d])
  /\ UNCHANGED <<heard, lastTs, time, erased, untold, commands, faults>>

(* The request or its answer is lost. *)
PostFails(d) ==
  /\ cmd[d].pc = "post" /\ Fault
  /\ ns' = [ns EXCEPT ![d] = @ + 1]
  /\ Become(d, Rest)
  /\ \/ Goes(d) /\ UNCHANGED untold
     \/ UNCHANGED wire /\ Unsent(d)
  /\ UNCHANGED <<timer, cap, store, heard, lastTs, time, erased, commands>>

Record(d) ==
  /\ cmd[d].pc = "record"
  /\ UNCHANGED <<timer, cap>>
  /\ Sweep(d, store[d] \cup {Recorded(d, TRUE, cmd[d].mid, cmd[d].sentAt, cmd[d].sentAt, ns[d],
                                      FALSE, cmd[d].sentAt)})
  /\ Become(d, Rest)
  /\ UNCHANGED <<session, time, erased, untold, crossed, commands, faults>>

-----------------------------------------------------------------------------
(* processRatchetMessage *)

(* Mutant: a timer that is off is not taken over. *)
MutAdopted(d, m) == IF m.timer = Off THEN timer[d] ELSE m.timer

(* applyIncomingTimer *)
Adopted(d, m) == m.timer

(* Mutant: the records one wrote oneself are looked through. *)
MutObeyed(records, mids) == {r \in records : ~(r.mine /\ r.mid \in mids)}

(* applyIncomingDeletion: what the peer sent and names goes. *)
Obeyed(records, mids) == {r \in records : ~(~r.mine /\ r.mid \in mids)}

(* Mutant: the floor holds for a late message too. *)
MutFloor(d, m) == lastTs[d]

(* One that extends the frontier comes no earlier than those before it. *)
Extends(d, m) == m.n > heard[d]
Floor(d, m) == IF Extends(d, m) THEN lastTs[d] ELSE 0

Deliver(d) ==
  \E m \in wire[d] :
    LET ts == Stamp(m.sentAt, Now(d), Floor(d, m)) IN
    /\ wire' = [wire EXCEPT ![d] = @ \ {m}]
    /\ IF Extends(d, m)
       THEN heard' = [heard EXCEPT ![d] = m.n] /\ lastTs' = [lastTs EXCEPT ![d] = ts]
       ELSE UNCHANGED <<heard, lastTs>>
    /\ timer' = [timer EXCEPT ![d] = Adopted(d, m)] /\ UNCHANGED cap
    /\ LET left == Obeyed(store[d], m.deletes) IN
         Sweep(d, IF m.mid = NoMid THEN left
                  ELSE left \cup {Recorded(d, FALSE, m.mid, ts, Now(d), m.n, ~Extends(d, m),
                                           m.sentAt)})
    /\ crossed' = (crossed \/ (~Extends(d, m) /\ m.timer # timer[d]))
    /\ untold' = untold \cup (m.deletes \cap {w.mid : w \in wire[d]})
    /\ UNCHANGED <<ns, cmd, time, erased, commands, faults>>

-----------------------------------------------------------------------------
(* Time passes while messages wait, up to the server's limit, and not while
   one that is dated has yet to be posted. *)
Tick ==
  /\ clock < MaxTime
  /\ \A d \in Device :
       cmd[d].pc # "post" /\ \A m \in wire[d] : clock - m.left < MaxQueueAge
  /\ clock' = clock + 1
  /\ UNCHANGED <<timer, cap, store, session, cmd, ahead, turned, erased, untold, crossed, commands,
                 faults>>

SetClock(d) ==
  /\ Fault
  /\ \E by \in 0 .. MaxWrong : by # ahead[d] /\ ahead' = [ahead EXCEPT ![d] = by]
  /\ turned' = turned \cup {d}
  /\ UNCHANGED <<timer, cap, store, session, cmd, clock, erased, untold, crossed, commands>>

(* What was sent and not recorded is not in the sender's history. *)
Close(d) ==
  /\ cmd[d] # Rest /\ Fault
  /\ Become(d, Rest) /\ Unsent(d)
  /\ UNCHANGED <<timer, cap, store, session, time, erased, commands>>

Next ==
  \/ \E d \in Device :
       \/ SendText(d) \/ PurgeNow(d) \/ Delete(d) \/ Ask(d) \/ Post(d) \/ PostFails(d) \/ Record(d)
       \/ \E seconds \in Durations \cup {Off} : SetTimer(d, seconds) \/ PurgeSet(d, seconds)
       \/ Deliver(d) \/ SetClock(d) \/ Close(d)
  \/ Tick

Spec == Init /\ [][Next]_vars

-----------------------------------------------------------------------------
Settings == Durations \cup {Off}
Times == 0 .. MaxTime + MaxWrong
Mids == 1 .. MaxCommands

RecordType ==
  [mine : BOOLEAN, mid : Mids, ts : Nat, at : Times, due : Nat, n : Nat, late : BOOLEAN,
   said : Times, kept : Settings]
MessageType ==
  [n : Nat, mid : Mids \cup {NoMid}, timer : Settings, sentAt : Times, deletes : SUBSET Mids,
   left : 0 .. MaxTime]
CmdType ==
  [pc : {"rest", "ask", "post", "record"}, op : {"none", "text", "timer", "delete"},
   mid : Mids \cup {NoMid}, timer : Settings, sentAt : Times, deletes : SUBSET Mids]

(* The types; and no time shown is ahead of what a fast clock may say. *)
TypeOK ==
  /\ timer \in [Device -> Settings] /\ cap \in [Device -> Settings]
  /\ store \in [Device -> SUBSET RecordType]
  /\ \A d \in Device : \A r \in store[d] :
       r.ts <= r.at + MaxClockSkew /\ (~r.mine => r.n <= heard[d])
  /\ ns \in [Device -> Nat] /\ lastTs \in [Device -> Nat] /\ heard \in [Device -> Nat]
  /\ wire \in [Device -> SUBSET MessageType]
  /\ \A d \in Device : heard[d] <= ns[Peer(d)] /\ \A m \in wire[d] : m.n \in 1 .. ns[Peer(d)]
  /\ cmd \in [Device -> CmdType]
  /\ clock \in 0 .. MaxTime /\ ahead \in [Device -> 0 .. MaxWrong] /\ turned \subseteq Device
  /\ erased \subseteq Mids /\ untold \subseteq Mids /\ crossed \in BOOLEAN
  /\ commands \in 0 .. MaxCommands /\ faults \in 0 .. MaxFaults

(* What the peer wrote later is not shown before what it wrote earlier, be its
   clock set back or wrong, as long as it was not overtaken on the way and
   this device's own clock was left alone (records.ts:161). *)
TranscriptInOrder ==
  \A d \in Device \ turned : \A r, q \in store[d] :
    ~r.mine /\ ~q.mine /\ ~r.late /\ ~q.late /\ r.n < q.n => r.ts <= q.ts

(* However long a message waited and whatever overtook it, it is shown under
   its sender's own time, or later by no more than the sender's clock is
   behind, if that clock is not too far ahead (messaging.ts:765). *)
HonestTimesKept ==
  turned = {} =>
    \A d \in Device : \A r \in store[d] :
      LET behind == ahead[d] - ahead[Peer(d)] IN
      ~r.mine /\ -behind <= MaxClockSkew => r.ts \in r.said .. r.said + AtLeast(0, behind)

(* A text that is read is kept, and nothing is swept before it has been held
   here for its timer or the cap, however long it waited at the server
   (lifecycle.ts:56). *)
HeldItsTime ==
  [][\A d \in Device :
       /\ \A m \in wire[d] \ wire'[d] : m.mid # NoMid => \E r \in store'[d] : r.mid = m.mid
       /\ d \notin turned => \A r \in store[d] \ store'[d] :
            \/ PurgeNow(d) \/ r.mid \in erased'
            \/ r.kept # Off /\ Now(d) - r.at >= r.kept
            \/ cap'[d] # Off /\ Now(d) - r.at >= cap'[d]]_vars

Quiet == \A d \in Device : wire[d] = {} /\ cmd[d] = Rest

(* Once all is delivered both ends have the same timer, unless two messages
   with different ones crossed or one overtook another (lifecycle.ts:90). *)
TimersAgree == Quiet /\ ~crossed => timer[A] = timer[B]

(* Once all is delivered a message its sender deleted is nowhere, unless the
   request for it failed or overtook the message (lifecycle.ts:177). *)
DeletedEverywhere ==
  Quiet => \A d \in Device : \A r \in store[d] : r.mid \notin erased \ untold

-----------------------------------------------------------------------------
(* The strengthening that makes these invariants inductive (TranscriptProofs). *)

(* What a command and a message carry: a text, a request for deletion, or
   neither. *)
Shaped ==
  \A d \in Device :
    /\ cmd[d].op = "text" <=> cmd[d].mid # NoMid
    /\ cmd[d].pc = "record" => cmd[d].op = "text"
    /\ cmd[d].op # "delete" => cmd[d].deletes = {} /\ cmd[d].pc # "ask"
    /\ cmd[d].pc # "rest" => cmd[d].op # "none"
    /\ \A m \in wire[d] : m.mid # NoMid => m.deletes = {}
    /\ \A r \in store[d] : r.due = Deadline(r.ts, r.at, r.kept)

(* The floor has not passed the ceiling, and nothing in order is above it. *)
FloorHolds ==
  \A d \in Device \ turned :
    /\ lastTs[d] <= Now(d) + MaxClockSkew
    /\ \A r \in store[d] : ~r.mine /\ ~r.late => r.ts <= lastTs[d]

(* Messages wait no longer than the server keeps them, and leave in order. *)
LeftInOrder ==
  \A d \in Device : \A m \in wire[d] :
    /\ m.left <= clock /\ clock - m.left <= MaxQueueAge
    /\ \A w \in wire[d] : m.n < w.n => m.left <= w.left

(* While no clock is set, what is dated is posted at that moment, and no floor
   lies above what is still to come. *)
Behind(d) == AtLeast(0, ahead[d] - ahead[Peer(d)])
DatedWhenLeft ==
  turned = {} =>
    \A d \in Device :
      /\ cmd[d].pc = "post" => cmd[d].sentAt = Now(d)
      /\ lastTs[d] <= Now(Peer(d)) + Behind(d)
      /\ \A m \in wire[d] :
           /\ m.sentAt = m.left + ahead[Peer(d)]
           /\ m.n > heard[d] => lastTs[d] <= m.sentAt + Behind(d)

(* The newest message on its way carries the timer of its sender, who may just
   have set another; and a difference is about to be told. *)
Telling(d) == cmd[d].op = "timer"
Unheard(d) == {m \in wire[d] : m.n > heard[d]}
Newest(d, m) == m \in Unheard(d) /\ \A w \in wire[d] : w.n <= m.n
TimersTold ==
  ~crossed =>
    /\ \A m \in wire[A], w \in wire[B] : m.timer = w.timer
    /\ \A d \in Device : \A m \in wire[d] :
         Newest(d, m) => m.timer = timer[Peer(d)] \/ Telling(Peer(d))
    /\ \/ timer[A] = timer[B]
       \/ \E d \in Device : Telling(d) \/ Unheard(d) # {}

(* The messages a device has written, wherever they are. *)
Given(m) == m.deletes \cup ({m.mid} \ {NoMid})
Written(d) ==
  {r.mid : r \in Own(d)} \cup Given(cmd[d]) \cup (UNION {Given(m) : m \in wire[Peer(d)]})
  \cup {r.mid : r \in {q \in store[Peer(d)] : ~q.mine}}
Asked(d) == cmd[d].deletes \cup (UNION {m.deletes : m \in wire[Peer(d)]})

OwnWords ==
  /\ Written(A) \cap Written(B) = {} /\ \A x \in erased : x <= commands
  /\ \A d \in Device :
       /\ \A x \in Written(d) : x <= commands
       /\ cmd[d].mid \notin erased \cup {r.mid : r \in Own(d)}
       /\ cmd[d].deletes \subseteq erased /\ \A m \in wire[d] : m.deletes \subseteq erased
       /\ \A r, q \in Own(d) : r.mid = q.mid => r = q
       /\ \A r \in Own(d) : r.mid \notin erased

(* A message that was deleted where it was written, and is still elsewhere, is
   about to be asked for. *)
DeletionUnderWay ==
  \A d \in Device :
    /\ \A r \in store[Peer(d)] : ~r.mine /\ r.mid \in erased \ untold => r.mid \in Asked(d)
    /\ \A m \in wire[Peer(d)] : m.mid \in erased \ untold => m.mid \in Asked(d)

(* All of it: what every step keeps of records, messages, clocks, timers and
   deletions; nothing but the clamps of stampIncoming (records.ts:161), the
   order of the two counters and the sweeps of purgeExpired keeps the times. *)
IInv ==
  /\ TypeOK /\ Shaped /\ TranscriptInOrder /\ FloorHolds
  /\ LeftInOrder /\ DatedWhenLeft /\ HonestTimesKept
  /\ TimersTold /\ OwnWords /\ DeletionUnderWay
===============================================================================
