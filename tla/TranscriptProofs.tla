--------------------------- MODULE TranscriptProofs ---------------------------
(***************************************************************************)
(* For any clocks, limits, durations and number of messages, commands and  *)
(* faults: types, the order and the honesty of the times shown, timers     *)
(* that agree, and deletions that reach the other end.                     *)
(***************************************************************************)
EXTENDS Transcript, TLAPS

LEMMA Bounds ==
  /\ MaxQueueAge \in Nat /\ MaxClockSkew \in Nat /\ MaxTime \in Nat /\ MaxWrong \in Nat
  /\ MaxCommands \in Nat /\ MaxFaults \in Nat
  /\ Settings \subseteq Nat /\ Off \in Settings /\ Off = 0 /\ NoMid = 0
  /\ \A s \in Settings : s # Off => s > 0
  /\ Times \subseteq Nat /\ Mids \subseteq Nat /\ NoMid \notin Mids
BY TranscriptBounds DEF Settings, Off, Times, Mids, NoMid

LEMMA Peers ==
  \A d \in Device :
    /\ Peer(d) \in Device /\ Peer(d) # d /\ Peer(Peer(d)) = d
    /\ \A e \in Device : e = d \/ e = Peer(d)
BY TranscriptBounds DEF Device, Peer

LEMMA NowTyped ==
  ASSUME TypeOK, NEW d \in Device
  PROVE  Now(d) \in Times /\ Now(d) \in Nat /\ Now(d) = clock + ahead[d]
<1>1. clock \in 0 .. MaxTime /\ ahead[d] \in 0 .. MaxWrong
  BY DEF TypeOK
<1> QED BY <1>1, Bounds DEF Now, Times

(* The time shown is the sender's within what is possible here. *)
LEMMA StampBounds ==
  ASSUME NEW sentAt \in Nat, NEW now \in Nat, NEW floor \in Nat
  PROVE  LET ts == Stamp(sentAt, now, floor) IN
         /\ ts \in Nat /\ ts <= now + MaxClockSkew
         /\ floor <= now + MaxClockSkew => floor <= ts
         /\ sentAt <= now + MaxClockSkew => sentAt <= ts
         /\ \A u \in Int : sentAt <= u /\ now - MaxQueueAge <= u /\ floor <= u => ts <= u
BY Bounds DEF Stamp, AtMost, AtLeast, Travelled

-----------------------------------------------------------------------------
(* Forms of what a command carries and of what it sends. *)

LEMMA RestForm ==
  /\ Rest \in CmdType /\ Rest.pc = "rest" /\ Rest.op = "none" /\ Rest.mid = NoMid
  /\ Rest.timer = Off /\ Rest.deletes = {}
<1>1. 0 \in Times
  BY Bounds DEF Times
<1> QED BY <1>1, Bounds DEF Rest, CmdType

LEMMA CmdForms ==
  ASSUME NEW c \in CmdType
  PROVE  /\ c.pc \in {"rest", "ask", "post", "record"} /\ c.op \in {"none", "text", "timer", "delete"}
         /\ c.mid \in Mids \cup {NoMid} /\ c.timer \in Settings /\ c.sentAt \in Times
         /\ c.deletes \in SUBSET Mids
BY DEF CmdType

LEMMA MessageForms ==
  ASSUME NEW m \in MessageType
  PROVE  /\ m.n \in Nat /\ m.mid \in Mids \cup {NoMid} /\ m.timer \in Settings /\ m.sentAt \in Times
         /\ m.deletes \in SUBSET Mids /\ m.left \in Nat
BY Bounds DEF MessageType

LEMMA RecordForms ==
  ASSUME NEW r \in RecordType
  PROVE  /\ r.mine \in BOOLEAN /\ r.mid \in Mids /\ r.ts \in Nat /\ r.at \in Times /\ r.at \in Nat
         /\ r.due \in Nat /\ r.n \in Nat /\ r.late \in BOOLEAN /\ r.said \in Times /\ r.said \in Nat
         /\ r.kept \in Settings
BY Bounds DEF RecordType

(* What is sent. *)
LEMMA Sent ==
  ASSUME TypeOK, NEW d \in Device
  PROVE  /\ Message(d) \in MessageType /\ Message(d).n = ns[d] + 1 /\ Message(d).mid = cmd[d].mid
         /\ Message(d).timer = cmd[d].timer /\ Message(d).sentAt = cmd[d].sentAt
         /\ Message(d).deletes = cmd[d].deletes /\ Message(d).left = clock
<1>1. cmd[d] \in CmdType /\ ns[d] + 1 \in Nat /\ clock \in 0 .. MaxTime
  BY DEF TypeOK
<1> QED BY <1>1, CmdForms DEF Message, MessageType

LEMMA SweepKeeps ==
  ASSUME TypeOK, NEW d \in Device, NEW records, Sweep(d, records)
  PROVE  /\ store' = [store EXCEPT ![d] = Swept(d, records)]
         /\ store'[d] = Swept(d, records) /\ store'[d] \subseteq records
         /\ \A r \in records \ store'[d] : Expired(d, r)
         /\ \A e \in Device \ {d} : store'[e] = store[e]
BY DEF Sweep, Swept, TypeOK

LEMMA Going ==
  ASSUME TypeOK, NEW d \in Device, Goes(d)
  PROVE  /\ wire' = [wire EXCEPT ![Peer(d)] = @ \cup {Message(d)}]
         /\ wire'[Peer(d)] = wire[Peer(d)] \cup {Message(d)} /\ wire'[d] = wire[d]
         /\ crossed' \in BOOLEAN
         /\ ~crossed' => /\ ~crossed /\ cmd[d].timer = timer[d]
                         /\ \A m \in wire[d] : m.timer = cmd[d].timer
<1>1. wire' = [wire EXCEPT ![Peer(d)] = @ \cup {Message(d)}]
      /\ crossed' = \/ crossed \/ cmd[d].timer # timer[d]
                    \/ \E m \in wire[d] : m.timer # cmd[d].timer
  BY DEF Goes
<1>2. crossed' \in BOOLEAN
  BY <1>1 DEF TypeOK
<1>3. ~crossed' => /\ ~crossed /\ cmd[d].timer = timer[d]
                   /\ \A m \in wire[d] : m.timer = cmd[d].timer
  BY <1>1
<1> QED BY <1>1, <1>2, <1>3, Peers DEF TypeOK

-----------------------------------------------------------------------------
(* What each step does, field by field. *)

LEMMA SendTextDoes ==
  ASSUME TypeOK, NEW d \in Device, SendText(d)
  PROVE  /\ UNCHANGED <<timer, cap, store, ns, heard, lastTs, wire, clock, ahead, turned, erased,
                        untold, crossed, faults>>
         /\ cmd[d] = Rest /\ cmd' \in [Device -> CmdType] /\ \A e \in Device \ {d} : cmd'[e] = cmd[e]
         /\ cmd'[d].pc = "post" /\ cmd'[d].op = "text" /\ cmd'[d].mid = commands + 1
         /\ cmd'[d].timer = timer[d] /\ cmd'[d].sentAt = Now(d) /\ cmd'[d].deletes = {}
         /\ commands' = commands + 1 /\ commands' \in 0 .. MaxCommands
<1> DEFINE c == [Rest EXCEPT !.pc = "post", !.op = "text", !.mid = commands + 1,
                             !.timer = timer[d], !.sentAt = Now(d)]
<1>1. /\ UNCHANGED <<timer, cap, store, ns, heard, lastTs, wire, clock, ahead, turned, erased,
                     untold, crossed, faults>>
      /\ cmd[d] = Rest /\ commands < MaxCommands /\ commands' = commands + 1
      /\ cmd' = [cmd EXCEPT ![d] = [Rest EXCEPT !.pc = "post", !.op = "text", !.mid = commands + 1,
                                                !.timer = timer[d], !.sentAt = Now(d)]]
  BY DEF SendText, Command, Become, session, time
<1>2. cmd' = [cmd EXCEPT ![d] = c]
  BY <1>1
<1>3. commands + 1 \in Mids /\ commands' \in 0 .. MaxCommands
  BY <1>1, Bounds DEF TypeOK, Mids
<1>4. timer[d] \in Settings /\ Now(d) \in Times
  BY NowTyped DEF TypeOK
<1>6. /\ c \in CmdType /\ c.pc = "post" /\ c.op = "text" /\ c.mid = commands + 1
      /\ c.timer = timer[d] /\ c.sentAt = Now(d) /\ c.deletes = Rest.deletes
  BY <1>3, <1>4, RestForm DEF CmdType
<1> HIDE DEF c
<1>5. cmd' \in [Device -> CmdType] /\ cmd'[d] = c /\ \A e \in Device \ {d} : cmd'[e] = cmd[e]
  BY <1>2, <1>6 DEF TypeOK
<1> QED BY <1>1, <1>3, <1>5, <1>6, RestForm

LEMMA SetTimerDoes ==
  ASSUME TypeOK, NEW d \in Device, NEW seconds \in Settings, SetTimer(d, seconds)
  PROVE  /\ UNCHANGED <<cap, store, ns, heard, lastTs, wire, clock, ahead, turned, erased,
                        untold, crossed, faults>>
         /\ timer' = [timer EXCEPT ![d] = seconds]
         /\ cmd[d] = Rest /\ cmd' \in [Device -> CmdType] /\ \A e \in Device \ {d} : cmd'[e] = cmd[e]
         /\ cmd'[d].pc = "post" /\ cmd'[d].op = "timer" /\ cmd'[d].mid = NoMid
         /\ cmd'[d].timer = seconds /\ cmd'[d].sentAt = Now(d) /\ cmd'[d].deletes = {}
         /\ commands' = commands + 1 /\ commands' \in 0 .. MaxCommands
<1> DEFINE c == [Rest EXCEPT !.pc = "post", !.op = "timer", !.timer = seconds, !.sentAt = Now(d)]
<1>1. /\ UNCHANGED <<cap, store, ns, heard, lastTs, wire, clock, ahead, turned, erased,
                     untold, crossed, faults>>
      /\ timer' = [timer EXCEPT ![d] = seconds]
      /\ cmd[d] = Rest /\ commands < MaxCommands /\ commands' = commands + 1
      /\ cmd' = [cmd EXCEPT ![d] = [Rest EXCEPT !.pc = "post", !.op = "timer",
                                                !.timer = seconds, !.sentAt = Now(d)]]
  BY DEF SetTimer, Command, Become, session, time
<1>2. cmd' = [cmd EXCEPT ![d] = c]
  BY <1>1
<1>3. commands' \in 0 .. MaxCommands
  BY <1>1, Bounds DEF TypeOK
<1>4. Now(d) \in Times
  BY NowTyped
<1>6. /\ c \in CmdType /\ c.pc = "post" /\ c.op = "timer" /\ c.mid = Rest.mid
      /\ c.timer = seconds /\ c.sentAt = Now(d) /\ c.deletes = Rest.deletes
  BY <1>4, RestForm DEF CmdType
<1> HIDE DEF c
<1>5. cmd' \in [Device -> CmdType] /\ cmd'[d] = c /\ \A e \in Device \ {d} : cmd'[e] = cmd[e]
  BY <1>2, <1>6 DEF TypeOK
<1> QED BY <1>1, <1>3, <1>5, <1>6, RestForm

LEMMA PurgeDoes ==
  ASSUME TypeOK, NEW d \in Device, PurgeNow(d) \/ \E seconds \in Settings : PurgeSet(d, seconds)
  PROVE  /\ UNCHANGED <<timer, ns, heard, lastTs, wire, cmd, clock, ahead, turned, erased,
                        untold, crossed, faults>>
         /\ cap' \in [Device -> Settings]
         /\ store' \in [Device -> SUBSET RecordType]
         /\ store'[d] \subseteq store[d] /\ \A e \in Device \ {d} : store'[e] = store[e]
         /\ \A r \in store[d] \ store'[d] : PurgeNow(d) \/ Expired(d, r)
         /\ commands' = commands + 1 /\ commands' \in 0 .. MaxCommands
<1>1. /\ UNCHANGED <<timer, ns, heard, lastTs, wire, cmd, clock, ahead, turned, erased,
                     untold, crossed, faults>>
      /\ commands < MaxCommands /\ commands' = commands + 1
  BY DEF PurgeNow, PurgeSet, Command, session, time
<1>2. commands' \in 0 .. MaxCommands
  BY <1>1, Bounds DEF TypeOK
<1>3. CASE PurgeNow(d)
  <2>1. cap' = cap /\ store' = [store EXCEPT ![d] = {}]
    BY <1>3 DEF PurgeNow
  <2> QED BY <1>1, <1>2, <1>3, <2>1 DEF TypeOK
<1>4. ASSUME NEW seconds \in Settings, PurgeSet(d, seconds)
      PROVE  /\ cap' \in [Device -> Settings]
             /\ store' \in [Device -> SUBSET RecordType]
             /\ store'[d] \subseteq store[d] /\ \A e \in Device \ {d} : store'[e] = store[e]
             /\ \A r \in store[d] \ store'[d] : Expired(d, r)
  <2>1. cap' = [cap EXCEPT ![d] = seconds] /\ Sweep(d, store[d])
    BY <1>4 DEF PurgeSet
  <2> QED BY <2>1, SweepKeeps DEF TypeOK
<1> QED BY <1>1, <1>2, <1>3, <1>4

LEMMA DeleteDoes ==
  ASSUME TypeOK, NEW d \in Device, Delete(d)
  PROVE  /\ UNCHANGED <<timer, cap, ns, heard, lastTs, wire, clock, ahead, turned,
                        untold, crossed, faults>>
         /\ \E victims \in SUBSET Own(d) :
              /\ store' = [store EXCEPT ![d] = @ \ victims]
              /\ cmd'[d].deletes = {r.mid : r \in victims} /\ erased' = erased \cup {r.mid : r \in victims}
         /\ store' \in [Device -> SUBSET RecordType] /\ erased' \subseteq Mids /\ erased \subseteq erased'
         /\ store'[d] \subseteq store[d] /\ \A e \in Device \ {d} : store'[e] = store[e]
         /\ cmd[d] = Rest /\ cmd' \in [Device -> CmdType] /\ \A e \in Device \ {d} : cmd'[e] = cmd[e]
         /\ cmd'[d].pc = "ask" /\ cmd'[d].op = "delete" /\ cmd'[d].mid = NoMid
         /\ commands' = commands + 1 /\ commands' \in 0 .. MaxCommands
<1>1. PICK victims \in SUBSET Own(d) :
        /\ store' = [store EXCEPT ![d] = @ \ victims]
        /\ erased' = erased \cup {r.mid : r \in victims}
        /\ cmd' = [cmd EXCEPT ![d] = [Rest EXCEPT !.pc = "ask", !.op = "delete",
                                                  !.deletes = {r.mid : r \in victims}]]
  BY DEF Delete, Become
<1> DEFINE mids == {r.mid : r \in victims}
           c == [Rest EXCEPT !.pc = "ask", !.op = "delete", !.deletes = mids]
<1>2. /\ UNCHANGED <<timer, cap, ns, heard, lastTs, wire, clock, ahead, turned,
                     untold, crossed, faults>>
      /\ cmd[d] = Rest /\ commands < MaxCommands /\ commands' = commands + 1
  BY DEF Delete, Command, session, time
<1>3. cmd' = [cmd EXCEPT ![d] = c]
  BY <1>1
<1>4. commands' \in 0 .. MaxCommands
  BY <1>2, Bounds DEF TypeOK
<1>5. mids \subseteq Mids
  BY RecordForms DEF Own, TypeOK
<1> HIDE DEF mids
<1>7. /\ c \in CmdType /\ c.pc = "ask" /\ c.op = "delete" /\ c.mid = Rest.mid /\ c.deletes = mids
  BY <1>5, RestForm DEF CmdType
<1> HIDE DEF c
<1>8. cmd' \in [Device -> CmdType] /\ cmd'[d] = c /\ \A e \in Device \ {d} : cmd'[e] = cmd[e]
  BY <1>3, <1>7 DEF TypeOK
<1>9. /\ store' \in [Device -> SUBSET RecordType] /\ erased' \subseteq Mids
      /\ store'[d] \subseteq store[d] /\ \A e \in Device \ {d} : store'[e] = store[e]
  BY <1>1, <1>5 DEF TypeOK, mids
<1>11. cmd'[d].deletes = {r.mid : r \in victims}
  BY <1>7, <1>8 DEF mids
<1>12. \E v \in SUBSET Own(d) :
         /\ store' = [store EXCEPT ![d] = @ \ v]
         /\ cmd'[d].deletes = {r.mid : r \in v} /\ erased' = erased \cup {r.mid : r \in v}
  BY <1>1, <1>11
<1>13. erased \subseteq erased'
  BY <1>1
<1> QED BY <1>2, <1>4, <1>7, <1>8, <1>9, <1>12, <1>13, RestForm

LEMMA AskDoes ==
  ASSUME TypeOK, NEW d \in Device, Ask(d)
  PROVE  /\ UNCHANGED <<timer, cap, store, ns, heard, lastTs, wire, clock, ahead, turned, erased,
                        untold, crossed, commands, faults>>
         /\ cmd[d].pc = "ask"
         /\ cmd' \in [Device -> CmdType] /\ \A e \in Device \ {d} : cmd'[e] = cmd[e]
         /\ cmd'[d].pc = "post" /\ cmd'[d].op = cmd[d].op /\ cmd'[d].mid = cmd[d].mid
         /\ cmd'[d].timer = timer[d] /\ cmd'[d].sentAt = Now(d) /\ cmd'[d].deletes = cmd[d].deletes
<1>1. /\ UNCHANGED <<timer, cap, store, ns, heard, lastTs, wire, clock, ahead, turned, erased,
                     untold, crossed, commands, faults>>
      /\ cmd[d].pc = "ask"
      /\ cmd' = [cmd EXCEPT ![d] = [cmd[d] EXCEPT !.pc = "post", !.timer = timer[d], !.sentAt = Now(d)]]
  BY DEF Ask, Become, session, time
<1> DEFINE c == [cmd[d] EXCEPT !.pc = "post", !.timer = timer[d], !.sentAt = Now(d)]
<1>2. cmd[d] \in CmdType /\ timer[d] \in Settings /\ Now(d) \in Times
  BY NowTyped DEF TypeOK
<1>3. /\ c \in CmdType /\ c.pc = "post" /\ c.op = cmd[d].op /\ c.mid = cmd[d].mid
      /\ c.timer = timer[d] /\ c.sentAt = Now(d) /\ c.deletes = cmd[d].deletes
  BY <1>2 DEF CmdType
<1> HIDE DEF c
<1>4. cmd' = [cmd EXCEPT ![d] = c]
  BY <1>1 DEF c
<1>5. cmd' \in [Device -> CmdType] /\ cmd'[d] = c /\ \A e \in Device \ {d} : cmd'[e] = cmd[e]
  BY <1>3, <1>4 DEF TypeOK
<1> QED BY <1>1, <1>3, <1>5

(* Post, and PostFails in its two forms: the message went, or it did not. *)
LEMMA PostDoes ==
  ASSUME TypeOK, NEW d \in Device, Post(d)
  PROVE  /\ UNCHANGED <<timer, cap, heard, lastTs, clock, ahead, turned, erased, untold, commands,
                        faults>>
         /\ cmd[d].pc = "post" /\ Goes(d) /\ ns' = [ns EXCEPT ![d] = @ + 1]
         /\ store' \in [Device -> SUBSET RecordType]
         /\ store'[d] \subseteq store[d] /\ \A e \in Device \ {d} : store'[e] = store[e]
         /\ \A r \in store[d] \ store'[d] : Expired(d, r)
         /\ cmd' \in [Device -> CmdType] /\ \A e \in Device \ {d} : cmd'[e] = cmd[e]
         /\ IF cmd[d].op = "text"
            THEN /\ cmd'[d].pc = "record" /\ cmd'[d].op = "text" /\ cmd'[d].mid = cmd[d].mid
                 /\ cmd'[d].deletes = cmd[d].deletes
            ELSE cmd'[d] = Rest
<1>1. /\ UNCHANGED <<timer, cap, heard, lastTs, clock, ahead, turned, erased, untold, commands, faults>>
      /\ cmd[d].pc = "post" /\ Goes(d) /\ ns' = [ns EXCEPT ![d] = @ + 1]
  BY DEF Post, time
<1>2. CASE cmd[d].op = "text"
  <2> DEFINE c == [cmd[d] EXCEPT !.pc = "record"]
  <2>1. store' = store /\ cmd' = [cmd EXCEPT ![d] = c]
    BY <1>2 DEF Post, Become
  <2>2. /\ c \in CmdType /\ c.pc = "record" /\ c.op = cmd[d].op /\ c.mid = cmd[d].mid
        /\ c.deletes = cmd[d].deletes
    <3>1. cmd[d] \in CmdType
      BY DEF TypeOK
    <3> QED BY <3>1 DEF CmdType
  <2> HIDE DEF c
  <2>3. cmd' \in [Device -> CmdType] /\ cmd'[d] = c /\ \A e \in Device \ {d} : cmd'[e] = cmd[e]
    BY <2>1, <2>2 DEF TypeOK
  <2> QED BY <1>1, <1>2, <2>1, <2>2, <2>3 DEF TypeOK
<1>3. CASE cmd[d].op # "text"
  <2>1. cmd' = [cmd EXCEPT ![d] = Rest] /\ Sweep(d, store[d])
    BY <1>3 DEF Post, Become
  <2>2. cmd' \in [Device -> CmdType] /\ cmd'[d] = Rest /\ \A e \in Device \ {d} : cmd'[e] = cmd[e]
    BY <2>1, RestForm DEF TypeOK
  <2>3. /\ store' \in [Device -> SUBSET RecordType]
        /\ store'[d] \subseteq store[d] /\ \A e \in Device \ {d} : store'[e] = store[e]
        /\ \A r \in store[d] \ store'[d] : Expired(d, r)
    BY <2>1, SweepKeeps DEF TypeOK
  <2> QED BY <1>1, <1>3, <2>2, <2>3
<1> QED BY <1>2, <1>3

LEMMA PostFailsDoes ==
  ASSUME TypeOK, NEW d \in Device, PostFails(d)
  PROVE  /\ UNCHANGED <<timer, cap, store, heard, lastTs, clock, ahead, turned, erased, commands>>
         /\ cmd[d].pc = "post" /\ ns' = [ns EXCEPT ![d] = @ + 1] /\ faults' \in 0 .. MaxFaults
         /\ cmd' \in [Device -> CmdType] /\ cmd'[d] = Rest /\ \A e \in Device \ {d} : cmd'[e] = cmd[e]
         /\ \/ Goes(d) /\ untold' = untold
            \/ wire' = wire /\ Unsent(d)
<1>1. /\ UNCHANGED <<timer, cap, store, heard, lastTs, clock, ahead, turned, erased, commands>>
      /\ cmd[d].pc = "post" /\ ns' = [ns EXCEPT ![d] = @ + 1]
      /\ faults < MaxFaults /\ faults' = faults + 1
      /\ cmd' = [cmd EXCEPT ![d] = Rest]
      /\ \/ Goes(d) /\ untold' = untold
         \/ wire' = wire /\ Unsent(d)
  BY DEF PostFails, Fault, Become, time
<1>2. faults' \in 0 .. MaxFaults
  BY <1>1, Bounds DEF TypeOK
<1>3. cmd' \in [Device -> CmdType] /\ cmd'[d] = Rest /\ \A e \in Device \ {d} : cmd'[e] = cmd[e]
  BY <1>1, RestForm DEF TypeOK
<1> QED BY <1>1, <1>2, <1>3

LEMMA RecordDoes ==
  ASSUME TypeOK, Shaped, NEW d \in Device, Record(d)
  PROVE  /\ UNCHANGED <<timer, cap, ns, heard, lastTs, wire, clock, ahead, turned, erased, untold,
                        crossed, commands, faults>>
         /\ cmd[d].pc = "record" /\ cmd[d].op = "text"
         /\ cmd' \in [Device -> CmdType] /\ cmd'[d] = Rest /\ \A e \in Device \ {d} : cmd'[e] = cmd[e]
         /\ store' \in [Device -> SUBSET RecordType] /\ \A e \in Device \ {d} : store'[e] = store[e]
         /\ \E r \in RecordType :
              /\ store'[d] \subseteq store[d] \cup {r} /\ \A q \in store[d] \ store'[d] : Expired(d, q)
              /\ r.mine = TRUE /\ r.mid = cmd[d].mid /\ r.ts = r.at
              /\ r.due = Deadline(r.ts, r.at, r.kept)
<1>1. /\ UNCHANGED <<timer, cap, ns, heard, lastTs, wire, clock, ahead, turned, erased, untold,
                     crossed, commands, faults>>
      /\ cmd[d].pc = "record" /\ cmd' = [cmd EXCEPT ![d] = Rest]
      /\ Sweep(d, store[d] \cup {Recorded(d, TRUE, cmd[d].mid, cmd[d].sentAt, cmd[d].sentAt, ns[d],
                                          FALSE, cmd[d].sentAt)})
  BY DEF Record, Become, session, time
<1>2. cmd[d].op = "text"
  BY <1>1 DEF Shaped
<1>3. cmd' \in [Device -> CmdType] /\ cmd'[d] = Rest /\ \A e \in Device \ {d} : cmd'[e] = cmd[e]
  BY <1>1, RestForm DEF TypeOK
<1>4. cmd[d] \in CmdType /\ ns[d] \in Nat /\ timer'[d] \in Settings
  BY <1>1 DEF TypeOK
<1>5. cmd[d].sentAt \in Times /\ cmd[d].sentAt \in Nat /\ cmd[d].mid \in Mids
  BY <1>2, <1>4, CmdForms, Bounds DEF Shaped
<1> DEFINE r == Recorded(d, TRUE, cmd[d].mid, cmd[d].sentAt, cmd[d].sentAt, ns[d], FALSE, cmd[d].sentAt)
<1>6. /\ r \in RecordType /\ r.mine = TRUE /\ r.mid = cmd[d].mid /\ r.ts = r.at
      /\ r.due = Deadline(r.ts, r.at, r.kept)
  <2>1. timer'[d] \in Nat
    BY <1>4, Bounds
  <2>2. Deadline(cmd[d].sentAt, cmd[d].sentAt, timer'[d]) \in Nat
    BY <1>5, <2>1, Bounds DEF Deadline
  <2> QED BY <1>4, <1>5, <2>2 DEF Recorded, RecordType
<1> HIDE DEF r
<1>7. /\ store' = [store EXCEPT ![d] = Swept(d, store[d] \cup {r})]
      /\ store'[d] \subseteq store[d] \cup {r} /\ \A q \in store[d] \ store'[d] : Expired(d, q)
      /\ \A e \in Device \ {d} : store'[e] = store[e]
  <2>1. Sweep(d, store[d] \cup {r})
    BY <1>1 DEF r
  <2> QED BY <2>1, SweepKeeps
<1>8. store' \in [Device -> SUBSET RecordType]
  BY <1>6, <1>7 DEF TypeOK
<1> QED BY <1>1, <1>2, <1>3, <1>6, <1>7, <1>8

LEMMA CloseDoes ==
  ASSUME TypeOK, NEW d \in Device, Close(d)
  PROVE  /\ UNCHANGED <<timer, cap, store, ns, heard, lastTs, wire, clock, ahead, turned, erased,
                        commands>>
         /\ cmd' \in [Device -> CmdType] /\ cmd'[d] = Rest /\ \A e \in Device \ {d} : cmd'[e] = cmd[e]
         /\ Unsent(d) /\ faults' \in 0 .. MaxFaults
<1>1. /\ UNCHANGED <<timer, cap, store, ns, heard, lastTs, wire, clock, ahead, turned, erased, commands>>
      /\ cmd' = [cmd EXCEPT ![d] = Rest] /\ Unsent(d) /\ faults < MaxFaults /\ faults' = faults + 1
  BY DEF Close, Become, Fault, session, time
<1>2. faults' \in 0 .. MaxFaults
  BY <1>1, Bounds DEF TypeOK
<1>3. cmd' \in [Device -> CmdType] /\ cmd'[d] = Rest /\ \A e \in Device \ {d} : cmd'[e] = cmd[e]
  BY <1>1, RestForm DEF TypeOK
<1> QED BY <1>1, <1>2, <1>3

LEMMA SetClockDoes ==
  ASSUME TypeOK, NEW d \in Device, SetClock(d)
  PROVE  /\ UNCHANGED <<timer, cap, store, ns, heard, lastTs, wire, cmd, clock, erased, untold,
                        crossed, commands>>
         /\ turned' = turned \cup {d} /\ turned' \subseteq Device
         /\ ahead' \in [Device -> 0 .. MaxWrong] /\ \A e \in Device \ {d} : ahead'[e] = ahead[e]
         /\ faults' \in 0 .. MaxFaults
<1>1. /\ UNCHANGED <<timer, cap, store, ns, heard, lastTs, wire, cmd, clock, erased, untold,
                     crossed, commands>>
      /\ turned' = turned \cup {d} /\ faults < MaxFaults /\ faults' = faults + 1
      /\ \E by \in 0 .. MaxWrong : ahead' = [ahead EXCEPT ![d] = by]
  BY DEF SetClock, Fault, session
<1>2. faults' \in 0 .. MaxFaults
  BY <1>1, Bounds DEF TypeOK
<1>3. ahead' \in [Device -> 0 .. MaxWrong] /\ \A e \in Device \ {d} : ahead'[e] = ahead[e]
  BY <1>1 DEF TypeOK
<1>4. turned' \subseteq Device
  BY <1>1 DEF TypeOK
<1> QED BY <1>1, <1>2, <1>3, <1>4

LEMMA TickDoes ==
  ASSUME TypeOK, Tick
  PROVE  /\ UNCHANGED <<timer, cap, store, ns, heard, lastTs, wire, cmd, ahead, turned, erased, untold,
                        crossed, commands, faults>>
         /\ clock' = clock + 1 /\ clock' \in 0 .. MaxTime
         /\ \A d \in Device : cmd[d].pc # "post" /\ \A m \in wire[d] : clock - m.left < MaxQueueAge
<1>1. /\ UNCHANGED <<timer, cap, store, ns, heard, lastTs, wire, cmd, ahead, turned, erased, untold,
                     crossed, commands, faults>>
      /\ clock < MaxTime /\ clock' = clock + 1
      /\ \A d \in Device : cmd[d].pc # "post" /\ \A m \in wire[d] : clock - m.left < MaxQueueAge
  BY DEF Tick, session
<1>2. clock' \in 0 .. MaxTime
  BY <1>1, Bounds DEF TypeOK
<1> QED BY <1>1, <1>2

(* The record of a text that was read, and all that its reading does. *)
Fresh(d, m, r) ==
  /\ m.mid # NoMid /\ r \in RecordType
  /\ r.mine = FALSE /\ r.mid = m.mid /\ r.n = m.n /\ (r.late <=> ~(m.n > heard[d]))
  /\ r.ts = Stamp(m.sentAt, Now(d), Floor(d, m)) /\ r.at = Now(d) /\ r.said = m.sentAt
  /\ r.kept = m.timer /\ r.due = Deadline(r.ts, r.at, r.kept)

Taken(d, m) ==
  /\ m \in wire[d] /\ m \in MessageType
  /\ UNCHANGED <<cap, ns, cmd, clock, ahead, turned, erased, commands, faults>>
  /\ wire' \in [Device -> SUBSET MessageType]
  /\ wire'[d] = wire[d] \ {m} /\ \A e \in Device \ {d} : wire'[e] = wire[e]
  /\ heard' \in [Device -> Nat] /\ \A e \in Device \ {d} : heard'[e] = heard[e]
  /\ lastTs' \in [Device -> Nat] /\ \A e \in Device \ {d} : lastTs'[e] = lastTs[e]
  /\ IF m.n > heard[d]
     THEN heard'[d] = m.n /\ lastTs'[d] = Stamp(m.sentAt, Now(d), lastTs[d])
     ELSE heard'[d] = heard[d] /\ lastTs'[d] = lastTs[d]
  /\ timer' \in [Device -> Settings] /\ timer'[d] = m.timer
  /\ \A e \in Device \ {d} : timer'[e] = timer[e]
  /\ store' \in [Device -> SUBSET RecordType] /\ \A e \in Device \ {d} : store'[e] = store[e]
  /\ \A r \in store'[d] : (r \in store[d] /\ (r.mine \/ r.mid \notin m.deletes)) \/ Fresh(d, m, r)
  /\ \A r \in store[d] \ store'[d] : r.mid \in m.deletes \/ Expired(d, r)
  /\ m.mid # NoMid => \E r : Fresh(d, m, r) /\ (r \in store'[d] \/ Expired(d, r))
  /\ crossed' \in BOOLEAN
  /\ ~crossed' => ~crossed /\ (m.n > heard[d] \/ m.timer = timer[d])
  /\ untold' = untold \cup (m.deletes \cap {w.mid : w \in wire[d]}) /\ untold' \subseteq Mids

LEMMA DeliverDoes ==
  ASSUME TypeOK, NEW d \in Device, Deliver(d)
  PROVE  \E m : Taken(d, m)
<1>1. PICK m \in wire[d] :
        LET ts == Stamp(m.sentAt, Now(d), Floor(d, m)) IN
        /\ wire' = [wire EXCEPT ![d] = @ \ {m}]
        /\ IF Extends(d, m)
           THEN heard' = [heard EXCEPT ![d] = m.n] /\ lastTs' = [lastTs EXCEPT ![d] = ts]
           ELSE UNCHANGED <<heard, lastTs>>
        /\ timer' = [timer EXCEPT ![d] = m.timer] /\ UNCHANGED cap
        /\ Sweep(d, IF m.mid = NoMid THEN Obeyed(store[d], m.deletes)
                    ELSE Obeyed(store[d], m.deletes)
                         \cup {Recorded(d, FALSE, m.mid, ts, Now(d), m.n, ~Extends(d, m), m.sentAt)})
        /\ crossed' = (crossed \/ (~Extends(d, m) /\ m.timer # timer[d]))
        /\ untold' = untold \cup (m.deletes \cap {w.mid : w \in wire[d]})
        /\ UNCHANGED <<ns, cmd, clock, ahead, turned, erased, commands, faults>>
  BY DEF Deliver, Adopted, time
<1> DEFINE ts == Stamp(m.sentAt, Now(d), Floor(d, m))
           r == Recorded(d, FALSE, m.mid, ts, Now(d), m.n, ~Extends(d, m), m.sentAt)
           left == Obeyed(store[d], m.deletes)
<1>2. m \in MessageType
  BY DEF TypeOK
<1>3. /\ m.n \in Nat /\ m.mid \in Mids \cup {NoMid} /\ m.timer \in Settings /\ m.sentAt \in Times
      /\ m.deletes \in SUBSET Mids
  BY <1>2, MessageForms
<1>4. Now(d) \in Times /\ Now(d) \in Nat /\ lastTs[d] \in Nat /\ m.sentAt \in Nat /\ m.timer \in Nat
  BY <1>3, NowTyped, Bounds DEF TypeOK
<1>5. Floor(d, m) \in Nat
  BY <1>4 DEF Floor
<1>6. ts \in Nat
  BY <1>4, <1>5, StampBounds
<1>7. timer' \in [Device -> Settings] /\ timer'[d] = m.timer
      /\ \A e \in Device \ {d} : timer'[e] = timer[e]
  BY <1>1, <1>3 DEF TypeOK
<1>8. m.mid # NoMid => Fresh(d, m, r)
  <2> HAVE m.mid # NoMid
  <2>1. Deadline(ts, Now(d), timer'[d]) \in Nat
    BY <1>4, <1>6, <1>7, Bounds DEF Deadline
  <2>2. m.mid \in Mids
    BY <1>3
  <2> HIDE DEF ts
  <2>3. CASE Extends(d, m)
    <3>1. r = [mine |-> FALSE, mid |-> m.mid, ts |-> ts, at |-> Now(d),
               due |-> Deadline(ts, Now(d), timer'[d]),
               n |-> m.n, late |-> FALSE, said |-> m.sentAt, kept |-> timer'[d]]
      BY <2>3 DEF Recorded
    <3> HIDE DEF r
    <3>2. /\ r \in RecordType /\ r.mine = FALSE /\ r.mid = m.mid /\ r.n = m.n /\ r.late = FALSE
          /\ r.ts = ts /\ r.at = Now(d) /\ r.said = m.sentAt /\ r.kept = timer'[d]
          /\ r.due = Deadline(ts, Now(d), timer'[d])
      BY <1>3, <1>4, <1>6, <1>7, <2>1, <2>2, <3>1 DEF RecordType
    <3> QED BY <1>7, <2>3, <3>2 DEF Fresh, Extends, ts
  <2>4. CASE ~Extends(d, m)
    <3>1. r = [mine |-> FALSE, mid |-> m.mid, ts |-> ts, at |-> Now(d),
               due |-> Deadline(ts, Now(d), timer'[d]),
               n |-> m.n, late |-> TRUE, said |-> m.sentAt, kept |-> timer'[d]]
      BY <2>4 DEF Recorded
    <3> HIDE DEF r
    <3>2. /\ r \in RecordType /\ r.mine = FALSE /\ r.mid = m.mid /\ r.n = m.n /\ r.late = TRUE
          /\ r.ts = ts /\ r.at = Now(d) /\ r.said = m.sentAt /\ r.kept = timer'[d]
          /\ r.due = Deadline(ts, Now(d), timer'[d])
      BY <1>3, <1>4, <1>6, <1>7, <2>1, <2>2, <3>1 DEF RecordType
    <3> QED BY <1>7, <2>4, <3>2 DEF Fresh, Extends, ts
  <2> QED BY <2>3, <2>4
<1>9. Sweep(d, IF m.mid = NoMid THEN left ELSE left \cup {r})
  BY <1>1
<1> HIDE DEF r
<1>10. /\ left \subseteq store[d]
       /\ \A q \in left : q.mine \/ q.mid \notin m.deletes
       /\ \A q \in store[d] \ left : q.mid \in m.deletes
  BY DEF Obeyed
<1> HIDE DEF left
<1>11. /\ store' \in [Device -> SUBSET RecordType] /\ \A e \in Device \ {d} : store'[e] = store[e]
       /\ \A q \in store'[d] : (q \in store[d] /\ (q.mine \/ q.mid \notin m.deletes)) \/ Fresh(d, m, q)
       /\ \A q \in store[d] \ store'[d] : q.mid \in m.deletes \/ Expired(d, q)
       /\ m.mid # NoMid => \E q : Fresh(d, m, q) /\ (q \in store'[d] \/ Expired(d, q))
  <2>1. CASE m.mid = NoMid
    <3>1. Sweep(d, left)
      BY <1>9, <2>1
    <3>2. store' = [store EXCEPT ![d] = Swept(d, left)] /\ store'[d] \subseteq left
          /\ \A q \in left \ store'[d] : Expired(d, q)
          /\ \A e \in Device \ {d} : store'[e] = store[e]
      BY <3>1, SweepKeeps
    <3>3. store' \in [Device -> SUBSET RecordType]
      BY <1>10, <3>2 DEF TypeOK
    <3>4. \A q \in store'[d] : q \in store[d] /\ (q.mine \/ q.mid \notin m.deletes)
      BY <1>10, <3>2
    <3>5. \A q \in store[d] \ store'[d] : q.mid \in m.deletes \/ Expired(d, q)
      <4> TAKE q \in store[d] \ store'[d]
      <4>1. q \in left => q \in left \ store'[d]
        OBVIOUS
      <4>2. q \notin left => q.mid \in m.deletes
        BY <1>10
      <4> QED BY <3>2, <4>1, <4>2
    <3> QED BY <2>1, <3>2, <3>3, <3>4, <3>5
  <2>2. CASE m.mid # NoMid
    <3>1. Sweep(d, left \cup {r})
      BY <1>9, <2>2
    <3>2. store' = [store EXCEPT ![d] = Swept(d, left \cup {r})] /\ store'[d] \subseteq left \cup {r}
          /\ \A q \in (left \cup {r}) \ store'[d] : Expired(d, q)
          /\ \A e \in Device \ {d} : store'[e] = store[e]
      BY <3>1, SweepKeeps
    <3>3. r \in RecordType
      BY <1>8, <2>2 DEF Fresh
    <3>4. store' \in [Device -> SUBSET RecordType]
      BY <1>10, <3>2, <3>3 DEF TypeOK
    <3>5. \A q \in store'[d] : (q \in store[d] /\ (q.mine \/ q.mid \notin m.deletes)) \/ q = r
      BY <1>10, <3>2
    <3>6. \A q \in store[d] \ store'[d] : q.mid \in m.deletes \/ Expired(d, q)
      <4> TAKE q \in store[d] \ store'[d]
      <4>1. q \in left => q \in (left \cup {r}) \ store'[d]
        OBVIOUS
      <4>2. q \notin left => q.mid \in m.deletes
        BY <1>10
      <4> QED BY <3>2, <4>1, <4>2
    <3>7. Fresh(d, m, r) /\ (r \in store'[d] \/ Expired(d, r))
      BY <1>8, <2>2, <3>2
    <3> QED BY <3>2, <3>4, <3>5, <3>6, <3>7
  <2> QED BY <2>1, <2>2
<1>12. /\ heard' \in [Device -> Nat] /\ \A e \in Device \ {d} : heard'[e] = heard[e]
       /\ lastTs' \in [Device -> Nat] /\ \A e \in Device \ {d} : lastTs'[e] = lastTs[e]
       /\ IF m.n > heard[d]
          THEN heard'[d] = m.n /\ lastTs'[d] = Stamp(m.sentAt, Now(d), lastTs[d])
          ELSE heard'[d] = heard[d] /\ lastTs'[d] = lastTs[d]
  <2>1. CASE m.n > heard[d]
    <3>1. heard' = [heard EXCEPT ![d] = m.n] /\ lastTs' = [lastTs EXCEPT ![d] = ts]
      BY <1>1, <2>1 DEF Extends
    <3>2. ts = Stamp(m.sentAt, Now(d), lastTs[d])
      BY <2>1 DEF Floor, Extends
    <3> HIDE DEF ts
    <3> QED BY <1>3, <1>6, <2>1, <3>1, <3>2 DEF TypeOK
  <2>2. CASE ~(m.n > heard[d])
    <3>1. heard' = heard /\ lastTs' = lastTs
      BY <1>1, <2>2 DEF Extends
    <3> QED BY <2>2, <3>1 DEF TypeOK
  <2> QED BY <2>1, <2>2
<1>13. /\ wire' \in [Device -> SUBSET MessageType]
       /\ wire'[d] = wire[d] \ {m} /\ \A e \in Device \ {d} : wire'[e] = wire[e]
  BY <1>1 DEF TypeOK
<1>14. /\ crossed' \in BOOLEAN
       /\ ~crossed' => ~crossed /\ (m.n > heard[d] \/ m.timer = timer[d])
  BY <1>1 DEF Extends, TypeOK
<1>15. /\ untold' = untold \cup (m.deletes \cap {w.mid : w \in wire[d]}) /\ untold' \subseteq Mids
  BY <1>1, <1>3 DEF TypeOK
<1>16. UNCHANGED <<cap, ns, cmd, clock, ahead, turned, erased, commands, faults>>
  BY <1>1
<1> QED BY <1>2, <1>7, <1>11, <1>12, <1>13, <1>14, <1>15, <1>16 DEF Taken

-----------------------------------------------------------------------------
(* Types, and what commands and messages carry. *)

LEMMA InitTyped ==
  ASSUME Init
  PROVE  TypeOK /\ Shaped
<1>1. /\ timer \in [Device -> Settings] /\ cap \in [Device -> Settings]
      /\ ns \in [Device -> Nat] /\ lastTs \in [Device -> Nat] /\ heard \in [Device -> Nat]
  BY Bounds DEF Init
<1>7. /\ clock \in 0 .. MaxTime /\ commands \in 0 .. MaxCommands /\ faults \in 0 .. MaxFaults
  BY Bounds DEF Init
<1>8. /\ ahead \in [Device -> 0 .. MaxWrong] /\ turned \subseteq Device
      /\ erased \subseteq Mids /\ untold \subseteq Mids /\ crossed \in BOOLEAN
  BY DEF Init
<1>2. store = [d \in Device |-> {}] /\ wire = [d \in Device |-> {}]
  BY DEF Init
<1>3. cmd \in [Device -> CmdType] /\ \A d \in Device : cmd[d] = Rest
  BY RestForm DEF Init
<1>4. \A d \in Device : heard[d] = 0 /\ ns[Peer(d)] = 0
  BY Peers DEF Init
<1>5. TypeOK
  BY <1>1, <1>2, <1>3, <1>4, <1>7, <1>8 DEF TypeOK
<1>6. Shaped
  BY <1>2, <1>3, RestForm DEF Shaped
<1> QED BY <1>5, <1>6

(* A message that goes out. *)
LEMMA GoingTyped ==
  ASSUME TypeOK, NEW d \in Device, Goes(d), ns' = [ns EXCEPT ![d] = @ + 1], heard' = heard
  PROVE  /\ ns' \in [Device -> Nat] /\ wire' \in [Device -> SUBSET MessageType]
         /\ \A e \in Device : heard'[e] <= ns'[Peer(e)] /\ \A m \in wire'[e] : m.n \in 1 .. ns'[Peer(e)]
<1>1. Peer(d) \in Device /\ Peer(d) # d /\ Peer(Peer(d)) = d /\ \A e \in Device : e = d \/ e = Peer(d)
  BY Peers
<1>2. /\ wire' = [wire EXCEPT ![Peer(d)] = @ \cup {Message(d)}]
      /\ wire'[Peer(d)] = wire[Peer(d)] \cup {Message(d)} /\ wire'[d] = wire[d]
  BY Going
<1>3. Message(d) \in MessageType /\ Message(d).n = ns[d] + 1
  BY Sent
<1>4. ns \in [Device -> Nat] /\ heard \in [Device -> Nat] /\ wire \in [Device -> SUBSET MessageType]
      /\ \A e \in Device : heard[e] <= ns[Peer(e)] /\ \A m \in wire[e] : m.n \in 1 .. ns[Peer(e)]
  BY DEF TypeOK
<1>5. ns' \in [Device -> Nat] /\ ns'[d] = ns[d] + 1 /\ ns'[Peer(d)] = ns[Peer(d)]
  BY <1>1, <1>4
<1>6. wire' \in [Device -> SUBSET MessageType]
  BY <1>1, <1>2, <1>3, <1>4
<1>7. heard'[d] <= ns'[Peer(d)] /\ \A m \in wire'[d] : m.n \in 1 .. ns'[Peer(d)]
  BY <1>1, <1>2, <1>4, <1>5
<1>8. heard'[Peer(d)] <= ns'[d] /\ \A m \in wire'[Peer(d)] : m.n \in 1 .. ns'[d]
  <2>1. heard[Peer(d)] <= ns[d] /\ \A m \in wire[Peer(d)] : m.n \in 1 .. ns[d]
    BY <1>1, <1>4
  <2>2. ns[d] \in Nat /\ heard[Peer(d)] \in Nat
    BY <1>1, <1>4
  <2> QED BY <1>2, <1>3, <1>5, <2>1, <2>2
<1> QED BY <1>1, <1>5, <1>6, <1>7, <1>8

LEMMA TypeOKStep ==
  ASSUME TypeOK, Shaped, Next
  PROVE  TypeOK'
<1>1. ASSUME NEW d \in Device, SendText(d) PROVE TypeOK'
  BY <1>1, SendTextDoes DEF TypeOK
<1>2. ASSUME NEW d \in Device, NEW seconds \in Settings, SetTimer(d, seconds) PROVE TypeOK'
  BY SMTT(20), <1>2, SetTimerDoes DEF TypeOK
<1>3. ASSUME NEW d \in Device, PurgeNow(d) \/ \E seconds \in Settings : PurgeSet(d, seconds)
      PROVE  TypeOK'
  BY <1>3, PurgeDoes DEF TypeOK
<1>4. ASSUME NEW d \in Device, Delete(d) PROVE TypeOK'
  <2>1. \A e \in Device : store'[e] \subseteq store[e]
    BY <1>4, DeleteDoes
  <2> QED BY <1>4, <2>1, DeleteDoes DEF TypeOK
<1>5. ASSUME NEW d \in Device, Ask(d) PROVE TypeOK'
  BY <1>5, AskDoes DEF TypeOK
<1>6. ASSUME NEW d \in Device, Post(d) PROVE TypeOK'
  <2>1. \A e \in Device : store'[e] \subseteq store[e]
    BY <1>6, PostDoes
  <2>2. crossed' \in BOOLEAN
    BY <1>6, PostDoes, Going
  <2>3. /\ ns' \in [Device -> Nat] /\ wire' \in [Device -> SUBSET MessageType]
        /\ \A e \in Device : heard'[e] <= ns'[Peer(e)] /\ \A m \in wire'[e] : m.n \in 1 .. ns'[Peer(e)]
    BY <1>6, PostDoes, GoingTyped
  <2>4. /\ store' \in [Device -> SUBSET RecordType] /\ cmd' \in [Device -> CmdType]
        /\ UNCHANGED <<timer, cap, heard, lastTs, clock, ahead, turned, erased, untold, commands, faults>>
    BY <1>6, PostDoes
  <2> QED BY <2>1, <2>2, <2>3, <2>4 DEF TypeOK
<1>7. ASSUME NEW d \in Device, PostFails(d) PROVE TypeOK'
  <2>1. crossed' \in BOOLEAN /\ untold' \subseteq Mids
    <3>1. cmd[d].deletes \subseteq Mids
      BY CmdForms DEF TypeOK
    <3>2. CASE Goes(d) /\ untold' = untold
      BY <3>2, Going DEF TypeOK
    <3>3. CASE Unsent(d)
      BY <3>1, <3>3 DEF TypeOK, Unsent
    <3> QED BY <1>7, <3>2, <3>3, PostFailsDoes
  <2>2. /\ ns' \in [Device -> Nat] /\ wire' \in [Device -> SUBSET MessageType]
        /\ \A e \in Device : heard'[e] <= ns'[Peer(e)] /\ \A m \in wire'[e] : m.n \in 1 .. ns'[Peer(e)]
    <3>1. CASE Goes(d)
      BY <1>7, <3>1, PostFailsDoes, GoingTyped
    <3>2. CASE wire' = wire
      <4>1. ns' = [ns EXCEPT ![d] = @ + 1] /\ heard' = heard
        BY <1>7, PostFailsDoes
      <4>2. ns \in [Device -> Nat] /\ heard \in [Device -> Nat] /\ wire \in [Device -> SUBSET MessageType]
        BY DEF TypeOK
      <4>3. ns' \in [Device -> Nat] /\ \A e \in Device : ns[e] \in Nat /\ ns'[e] \in Nat /\ ns[e] <= ns'[e]
        BY <4>1, <4>2
      <4>4. ASSUME NEW e \in Device
            PROVE  heard'[e] <= ns'[Peer(e)] /\ \A m \in wire'[e] : m.n \in 1 .. ns'[Peer(e)]
        <5>1. heard[e] <= ns[Peer(e)] /\ heard[e] \in Nat /\ \A m \in wire[e] : m.n \in 1 .. ns[Peer(e)]
          BY DEF TypeOK
        <5>2. Peer(e) \in Device
          BY Peers
        <5> QED BY <3>2, <4>1, <4>3, <5>1, <5>2
      <4> QED BY <3>2, <4>2, <4>3, <4>4
    <3> QED BY <1>7, <3>1, <3>2, PostFailsDoes
  <2>3. /\ cmd' \in [Device -> CmdType] /\ faults' \in 0 .. MaxFaults
        /\ UNCHANGED <<timer, cap, store, heard, lastTs, clock, ahead, turned, erased, commands>>
    BY <1>7, PostFailsDoes
  <2> QED BY <2>1, <2>2, <2>3 DEF TypeOK
<1>8. ASSUME NEW d \in Device, Record(d) PROVE TypeOK'
  <2>1. /\ UNCHANGED <<timer, cap, ns, heard, lastTs, wire, clock, ahead, turned, erased, untold,
                       crossed, commands, faults>>
        /\ cmd' \in [Device -> CmdType] /\ store' \in [Device -> SUBSET RecordType]
    BY <1>8, RecordDoes
  <2>2. ASSUME NEW e \in Device, NEW r \in store'[e], r \notin store[e]
        PROVE  r.ts <= r.at + MaxClockSkew /\ r.mine
    <3>1. r \in RecordType /\ r.mine = TRUE /\ r.ts = r.at
      <4>1. e = d
        BY <1>8, <2>2, RecordDoes
      <4>2. PICK q \in RecordType : /\ store'[d] \subseteq store[d] \cup {q}
                                   /\ q.mine = TRUE /\ q.ts = q.at
        BY <1>8, RecordDoes
      <4> QED BY <2>2, <4>1, <4>2
    <3>2. r.at \in Nat
      BY <3>1, RecordForms
    <3> QED BY <3>1, <3>2, Bounds
  <2>3. \A e \in Device : \A r \in store'[e] : r.ts <= r.at + MaxClockSkew /\ (~r.mine => r.n <= heard'[e])
    BY <2>1, <2>2 DEF TypeOK
  <2> QED BY <2>1, <2>3 DEF TypeOK
<1>9. ASSUME NEW d \in Device, Deliver(d) PROVE TypeOK'
  <2>1. PICK m : Taken(d, m)
    BY <1>9, DeliverDoes
  <2>2. /\ UNCHANGED <<cap, ns, cmd, clock, ahead, turned, erased, commands, faults>>
        /\ timer' \in [Device -> Settings] /\ heard' \in [Device -> Nat] /\ lastTs' \in [Device -> Nat]
        /\ wire' \in [Device -> SUBSET MessageType] /\ store' \in [Device -> SUBSET RecordType]
        /\ crossed' \in BOOLEAN /\ untold' \subseteq Mids
    BY <2>1 DEF Taken
  <2>3. heard \in [Device -> Nat] /\ m.n \in Nat /\ m \in wire[d] /\ m.n \in 1 .. ns[Peer(d)]
    BY <2>1, MessageForms DEF Taken, TypeOK
  <2>4. \A e \in Device : heard[e] <= heard'[e] /\ (heard'[e] = heard[e] \/ (e = d /\ heard'[e] = m.n))
    BY <2>1, <2>3 DEF Taken
  <2>5. \A e \in Device : heard'[e] <= ns'[Peer(e)] /\ \A w \in wire'[e] : w.n \in 1 .. ns'[Peer(e)]
    <3>1. \A e \in Device : heard[e] <= ns[Peer(e)] /\ \A w \in wire[e] : w.n \in 1 .. ns[Peer(e)]
      BY DEF TypeOK
    <3>2. \A e \in Device : wire'[e] \subseteq wire[e]
      BY <2>1 DEF Taken
    <3> QED BY <2>2, <2>3, <2>4, <3>1, <3>2
  <2>6. ASSUME NEW e \in Device, NEW r \in store'[e]
        PROVE  r.ts <= r.at + MaxClockSkew /\ (~r.mine => r.n <= heard'[e])
    <3>1. CASE r \in store[e]
      <4>1. r.ts <= r.at + MaxClockSkew /\ (~r.mine => r.n <= heard[e]) /\ r \in RecordType
        BY <3>1 DEF TypeOK
      <4>2. r.n \in Nat /\ heard[e] \in Nat /\ heard'[e] \in Nat /\ heard[e] <= heard'[e]
        BY <2>2, <2>3, <2>4, <4>1, RecordForms
      <4> QED BY <4>1, <4>2
    <3>2. CASE r \notin store[e]
      <4>1. e = d /\ Fresh(d, m, r)
        BY <2>1, <3>2 DEF Taken
      <4>2. /\ r.n = m.n /\ r.at = Now(d) /\ r.ts = Stamp(m.sentAt, Now(d), Floor(d, m))
        BY <4>1 DEF Fresh
      <4>3. m.sentAt \in Nat /\ Now(d) \in Nat /\ lastTs[d] \in Nat
        BY <2>1, NowTyped, MessageForms, Bounds DEF Taken, TypeOK
      <4>4. Floor(d, m) \in Nat
        BY <4>3 DEF Floor
      <4>5. r.ts <= r.at + MaxClockSkew
        BY ZenonT(40), <4>2, <4>3, <4>4, StampBounds
      <4>6. r.n <= heard'[e]
        BY <2>1, <2>3, <4>1, <4>2 DEF Taken
      <4> QED BY <4>5, <4>6
    <3> QED BY <3>1, <3>2
  <2> QED BY <2>2, <2>5, <2>6 DEF TypeOK
<1>10. ASSUME NEW d \in Device, SetClock(d) PROVE TypeOK'
  BY <1>10, SetClockDoes DEF TypeOK
<1>11. ASSUME NEW d \in Device, Close(d) PROVE TypeOK'
  <2>1. cmd[d].deletes \subseteq Mids
    BY CmdForms DEF TypeOK
  <2>2. crossed' \in BOOLEAN /\ untold' \subseteq Mids
    BY <1>11, <2>1, CloseDoes DEF TypeOK, Unsent
  <2> QED BY <1>11, <2>2, CloseDoes DEF TypeOK
<1>12. ASSUME Tick PROVE TypeOK'
  BY <1>12, TickDoes DEF TypeOK
<1> QED BY <1>1, <1>2, <1>3, <1>4, <1>5, <1>6, <1>7, <1>8, <1>9, <1>10, <1>11, <1>12 DEF Next, Settings

(* What every step but the reading of a message leaves as it is, and what it
   adds. *)
Unread ==
  /\ heard' = heard /\ lastTs' = lastTs /\ turned \subseteq turned'
  /\ \A d \in Device \ turned' : ahead'[d] = ahead[d]
  /\ \/ clock' = clock
     \/ /\ clock' = clock + 1 /\ wire' = wire
        /\ \A d \in Device : \A m \in wire[d] : clock - m.left < MaxQueueAge
  /\ \A d \in Device : cmd'[d].pc = "post" => clock' = clock /\ (cmd'[d] = cmd[d] \/ cmd'[d].sentAt = Now(d))
  /\ \A d \in Device : \A m \in wire'[d] : m \in wire[d] \/ (m = Message(Peer(d)) /\ cmd[Peer(d)].pc = "post")
  /\ \A d \in Device : \A r \in store'[d] :
       r \in store[d] \/ (r.mine /\ r.due = Deadline(r.ts, r.at, r.kept))

LEMMA NotRead ==
  ASSUME TypeOK, Shaped, Next, \A d \in Device : ~Deliver(d)
  PROVE  Unread
<1>1. ASSUME NEW d \in Device, SendText(d) PROVE Unread
  BY <1>1, SendTextDoes DEF Unread
<1>2. ASSUME NEW d \in Device, NEW seconds \in Settings, SetTimer(d, seconds) PROVE Unread
  BY <1>2, SetTimerDoes DEF Unread
<1>3. ASSUME NEW d \in Device, PurgeNow(d) \/ \E seconds \in Settings : PurgeSet(d, seconds) PROVE Unread
  BY <1>3, PurgeDoes DEF Unread
<1>4. ASSUME NEW d \in Device, Delete(d) PROVE Unread
  BY <1>4, DeleteDoes DEF Unread
<1>5. ASSUME NEW d \in Device, Ask(d) PROVE Unread
  BY <1>5, AskDoes DEF Unread
<1>6. ASSUME NEW d \in Device, Post(d) PROVE Unread
  <2>1. /\ UNCHANGED <<heard, lastTs, clock, ahead, turned>> /\ cmd[d].pc = "post"
        /\ \A e \in Device : store'[e] \subseteq store[e]
        /\ cmd'[d].pc # "post" /\ \A e \in Device \ {d} : cmd'[e] = cmd[e]
    BY <1>6, PostDoes, RestForm
  <2>2. wire'[Peer(d)] = wire[Peer(d)] \cup {Message(d)} /\ wire'[d] = wire[d]
    BY <1>6, PostDoes, Going
  <2>3. \A e \in Device : \A m \in wire'[e] : m \in wire[e] \/ (m = Message(Peer(e)) /\ cmd[Peer(e)].pc = "post")
    BY <2>1, <2>2, Peers
  <2> QED BY <2>1, <2>3 DEF Unread
<1>7. ASSUME NEW d \in Device, PostFails(d) PROVE Unread
  <2>1. /\ UNCHANGED <<heard, lastTs, clock, ahead, turned, store>> /\ cmd[d].pc = "post"
        /\ cmd'[d].pc # "post" /\ \A e \in Device \ {d} : cmd'[e] = cmd[e]
    BY <1>7, PostFailsDoes, RestForm
  <2>2. \/ wire'[Peer(d)] = wire[Peer(d)] \cup {Message(d)} /\ wire'[d] = wire[d]
        \/ wire' = wire
    BY <1>7, PostFailsDoes, Going
  <2>3. \A e \in Device : \A m \in wire'[e] : m \in wire[e] \/ (m = Message(Peer(e)) /\ cmd[Peer(e)].pc = "post")
    BY <2>1, <2>2, Peers
  <2> QED BY <2>1, <2>3 DEF Unread
<1>8. ASSUME NEW d \in Device, Record(d) PROVE Unread
  <2>1. /\ UNCHANGED <<heard, lastTs, clock, ahead, turned, wire>>
        /\ cmd'[d].pc # "post" /\ \A e \in Device \ {d} : cmd'[e] = cmd[e]
    BY <1>8, RecordDoes, RestForm
  <2>2. \A e \in Device : \A r \in store'[e] :
          r \in store[e] \/ (r.mine /\ r.due = Deadline(r.ts, r.at, r.kept))
    BY ZenonT(40), <1>8, RecordDoes
  <2> QED BY <2>1, <2>2 DEF Unread
<1>9. ASSUME NEW d \in Device, SetClock(d) PROVE Unread
  BY <1>9, SetClockDoes DEF Unread
<1>10. ASSUME NEW d \in Device, Close(d) PROVE Unread
  BY <1>10, CloseDoes, RestForm DEF Unread
<1>11. ASSUME Tick PROVE Unread
  BY <1>11, TickDoes DEF Unread
<1> QED BY <1>1, <1>2, <1>3, <1>4, <1>5, <1>6, <1>7, <1>8, <1>9, <1>10, <1>11 DEF Next, Settings

(* One device's command, after each step. *)
CmdShaped(c) ==
  /\ c.op = "text" <=> c.mid # NoMid
  /\ c.pc = "record" => c.op = "text"
  /\ c.op # "delete" => c.deletes = {} /\ c.pc # "ask"
  /\ c.pc # "rest" => c.op # "none"

LEMMA CmdStep ==
  ASSUME TypeOK, Shaped, Next, NEW e \in Device
  PROVE  CmdShaped(cmd'[e])
<1>1. CmdShaped(cmd[e])
  BY DEF Shaped, CmdShaped
<1>2. CmdShaped(Rest)
  BY RestForm DEF CmdShaped
<1>3. ASSUME NEW d \in Device, SendText(d) PROVE CmdShaped(cmd'[e])
  <2>1. commands + 1 # NoMid
    BY Bounds DEF TypeOK
  <2> QED BY <1>1, <1>3, <2>1, SendTextDoes DEF CmdShaped
<1>4. ASSUME NEW d \in Device, NEW seconds \in Settings, SetTimer(d, seconds) PROVE CmdShaped(cmd'[e])
  BY <1>1, <1>4, SetTimerDoes DEF CmdShaped
<1>5. ASSUME NEW d \in Device, PurgeNow(d) \/ \E seconds \in Settings : PurgeSet(d, seconds)
      PROVE  CmdShaped(cmd'[e])
  BY <1>1, <1>5, PurgeDoes
<1>6. ASSUME NEW d \in Device, Delete(d) PROVE CmdShaped(cmd'[e])
  BY <1>1, <1>6, DeleteDoes DEF CmdShaped
<1>7. ASSUME NEW d \in Device, Ask(d) PROVE CmdShaped(cmd'[e])
  BY <1>1, <1>7, AskDoes DEF CmdShaped
<1>8. ASSUME NEW d \in Device, Post(d) PROVE CmdShaped(cmd'[e])
  <2>1. CASE cmd[d].op = "text"
    BY <1>1, <1>8, <2>1, PostDoes DEF CmdShaped
  <2>2. CASE cmd[d].op # "text"
    BY <1>1, <1>2, <1>8, <2>2, PostDoes
  <2> QED BY <2>1, <2>2
<1>9. ASSUME NEW d \in Device, PostFails(d) PROVE CmdShaped(cmd'[e])
  BY <1>1, <1>2, <1>9, PostFailsDoes
<1>10. ASSUME NEW d \in Device, Record(d) PROVE CmdShaped(cmd'[e])
  BY <1>1, <1>2, <1>10, RecordDoes
<1>11. ASSUME NEW d \in Device, Deliver(d) PROVE CmdShaped(cmd'[e])
  BY <1>1, <1>11, DeliverDoes DEF Taken
<1>12. ASSUME NEW d \in Device, SetClock(d) PROVE CmdShaped(cmd'[e])
  BY <1>1, <1>12, SetClockDoes
<1>13. ASSUME NEW d \in Device, Close(d) PROVE CmdShaped(cmd'[e])
  BY <1>1, <1>2, <1>13, CloseDoes
<1>14. ASSUME Tick PROVE CmdShaped(cmd'[e])
  BY <1>1, <1>14, TickDoes
<1> QED BY <1>3, <1>4, <1>5, <1>6, <1>7, <1>8, <1>9, <1>10, <1>11, <1>12, <1>13, <1>14 DEF Next, Settings

LEMMA ShapedStep ==
  ASSUME TypeOK, Shaped, Next
  PROVE  Shaped'
<1>1. \A e \in Device : CmdShaped(cmd'[e])
  BY CmdStep
<1>2. ASSUME NEW e \in Device
      PROVE  /\ \A m \in wire'[e] : m.mid # NoMid => m.deletes = {}
             /\ \A r \in store'[e] : r.due = Deadline(r.ts, r.at, r.kept)
  <2>1. /\ \A m \in wire[e] : m.mid # NoMid => m.deletes = {}
        /\ \A r \in store[e] : r.due = Deadline(r.ts, r.at, r.kept)
    BY DEF Shaped
  <2>2. CASE \A d \in Device : ~Deliver(d)
    <3>1. Unread
      BY <2>2, NotRead
    <3>2. /\ \A m \in wire'[e] : m \in wire[e] \/ m = Message(Peer(e))
          /\ \A r \in store'[e] : r \in store[e] \/ r.due = Deadline(r.ts, r.at, r.kept)
      BY <3>1 DEF Unread
    <3>3. Message(Peer(e)).mid # NoMid => Message(Peer(e)).deletes = {}
      BY Peers, Sent DEF Shaped
    <3> QED BY <2>1, <3>2, <3>3
  <2>3. ASSUME NEW d \in Device, Deliver(d)
        PROVE  /\ \A m \in wire'[e] : m.mid # NoMid => m.deletes = {}
               /\ \A r \in store'[e] : r.due = Deadline(r.ts, r.at, r.kept)
    <3>1. PICK m : Taken(d, m)
      BY <2>3, DeliverDoes
    <3>2. wire'[e] \subseteq wire[e] /\ \A r \in store'[e] : r \in store[e] \/ Fresh(d, m, r)
      BY <3>1 DEF Taken
    <3> QED BY <2>1, <3>2 DEF Fresh
  <2> QED BY <2>2, <2>3
<1> QED BY <1>1, <1>2 DEF Shaped, CmdShaped

-----------------------------------------------------------------------------
(* The order of the times shown: a text that extends the frontier is shown no
   earlier than the floor, which nothing shown in order has passed. *)

LEMMA OrderStep ==
  ASSUME TypeOK, Shaped, TranscriptInOrder, FloorHolds, Next
  PROVE  TranscriptInOrder' /\ FloorHolds'
<1>1. TypeOK'
  BY TypeOKStep
<1>2. CASE \A d \in Device : ~Deliver(d)
  <2>1. Unread
    BY <1>2, NotRead
  <2>2. ASSUME NEW d \in Device \ turned'
        PROVE  /\ lastTs'[d] <= Now(d)' + MaxClockSkew
               /\ \A r \in store'[d] : ~r.mine => r \in store[d]
               /\ lastTs'[d] = lastTs[d] /\ d \in Device \ turned
    <3>1. d \in Device \ turned /\ ahead'[d] = ahead[d] /\ lastTs'[d] = lastTs[d]
          /\ (clock' = clock \/ clock' = clock + 1)
      BY <2>1 DEF Unread
    <3>2. \A r \in store'[d] : ~r.mine => r \in store[d]
      BY <2>1 DEF Unread
    <3>3. lastTs[d] <= Now(d) + MaxClockSkew
      BY <3>1 DEF FloorHolds
    <3>4. lastTs[d] \in Nat /\ clock \in Nat /\ ahead[d] \in Nat
      BY Bounds DEF TypeOK
    <3>5. lastTs'[d] <= Now(d)' + MaxClockSkew
      BY <3>1, <3>3, <3>4, Bounds DEF Now
    <3> QED BY <3>1, <3>2, <3>5
  <2>3. TranscriptInOrder'
    BY <2>2 DEF TranscriptInOrder
  <2>4. FloorHolds'
    BY <2>2 DEF FloorHolds
  <2> QED BY <2>3, <2>4
<1>3. ASSUME NEW d \in Device, Deliver(d)
      PROVE  TranscriptInOrder' /\ FloorHolds'
  <2>1. PICK m : Taken(d, m)
    BY <1>3, DeliverDoes
  <2>2. /\ turned' = turned /\ clock' = clock /\ ahead' = ahead
        /\ \A e \in Device \ {d} : store'[e] = store[e] /\ lastTs'[e] = lastTs[e]
        /\ \A r \in store'[d] : r \in store[d] \/ Fresh(d, m, r)
        /\ IF m.n > heard[d] THEN lastTs'[d] = Stamp(m.sentAt, Now(d), lastTs[d])
           ELSE lastTs'[d] = lastTs[d]
    BY <2>1 DEF Taken
  <2>3. Now(d)' = Now(d) /\ \A e \in Device : Now(e)' = Now(e)
    BY <2>2 DEF Now
  <2>4. Now(d) \in Nat /\ lastTs[d] \in Nat /\ m.sentAt \in Nat
    BY <2>1, NowTyped, MessageForms, Bounds DEF TypeOK, Taken
  <2>5. ASSUME d \notin turned
        PROVE  /\ lastTs[d] <= lastTs'[d] /\ lastTs'[d] <= Now(d) + MaxClockSkew
               /\ \A r \in store[d] : ~r.mine /\ ~r.late => r.ts <= lastTs[d]
    <3>1. lastTs[d] <= Now(d) + MaxClockSkew
          /\ \A r \in store[d] : ~r.mine /\ ~r.late => r.ts <= lastTs[d]
      BY <2>5 DEF FloorHolds
    <3>2. CASE m.n > heard[d]
      <4>1. lastTs'[d] = Stamp(m.sentAt, Now(d), lastTs[d])
        BY <2>2, <3>2
      <4> QED BY <2>4, <3>1, <4>1, StampBounds
    <3>3. CASE ~(m.n > heard[d])
      BY <2>2, <2>4, <3>1, <3>3
    <3> QED BY <3>1, <3>2, <3>3
  <2>6. ASSUME d \notin turned, NEW r \in store'[d], ~r.mine, ~r.late, r \notin store[d]
        PROVE  r.ts = lastTs'[d] /\ r.n = m.n /\ m.n > heard[d]
    BY <2>2, <2>6 DEF Fresh, Floor, Extends
  <2>7. ASSUME NEW r \in store[d]
        PROVE  r.ts \in Nat /\ r.n \in Nat /\ (~r.mine => r.n <= heard[d])
    BY RecordForms DEF TypeOK
  <2>8. FloorHolds'
    <3>1. ASSUME NEW e \in Device \ turned'
          PROVE  /\ lastTs'[e] <= Now(e)' + MaxClockSkew
                 /\ \A r \in store'[e] : ~r.mine /\ ~r.late => r.ts <= lastTs'[e]
      <4>1. CASE e # d
        <5>1. /\ lastTs[e] <= Now(e) + MaxClockSkew
              /\ \A r \in store[e] : ~r.mine /\ ~r.late => r.ts <= lastTs[e]
          BY <2>2 DEF FloorHolds
        <5> QED BY <2>2, <2>3, <4>1, <5>1
      <4>2. CASE e = d
        <5>1. d \notin turned /\ lastTs'[d] \in Nat
          BY <1>1, <2>2, <4>2 DEF TypeOK
        <5>2. ASSUME NEW r \in store'[d], ~r.mine, ~r.late
              PROVE  r.ts <= lastTs'[d]
          <6>1. CASE r \in store[d]
            BY <2>4, <2>5, <2>7, <5>1, <5>2, <6>1
          <6>2. CASE r \notin store[d]
            BY <2>6, <5>1, <5>2, <6>2
          <6> QED BY <6>1, <6>2
        <5> QED BY <2>3, <2>5, <4>2, <5>1, <5>2
      <4> QED BY <4>1, <4>2
    <3> QED BY <3>1 DEF FloorHolds
  <2>9. TranscriptInOrder'
    <3>1. ASSUME NEW e \in Device \ turned', NEW r \in store'[e], NEW q \in store'[e],
                 ~r.mine, ~q.mine, ~r.late, ~q.late, r.n < q.n
          PROVE  r.ts <= q.ts
      <4>1. CASE r \in store[e] /\ q \in store[e]
        BY <2>2, <3>1, <4>1 DEF TranscriptInOrder
      <4>2. CASE ~(r \in store[e] /\ q \in store[e])
        <5>1. e = d /\ d \notin turned
          BY <2>2, <4>2
        <5>2. CASE r \notin store[d]
          <6>1. r.n = m.n /\ m.n > heard[d]
            BY <2>6, <3>1, <5>1, <5>2
          <6>2. m.n \in Nat /\ heard[d] \in Nat
            BY <2>1, MessageForms DEF Taken, TypeOK
          <6>3. q \in store[d] => q.n <= heard[d] /\ q.n \in Nat
            BY <2>7, <3>1
          <6>4. q \notin store[d] => q.n = m.n
            BY <2>6, <3>1, <5>1
          <6> QED BY <3>1, <6>1, <6>2, <6>3, <6>4
        <5>3. CASE r \in store[d]
          <6>1. q \notin store[d]
            BY <4>2, <5>1, <5>3
          <6>2. q.ts = lastTs'[d]
            BY <2>6, <3>1, <5>1, <6>1
          <6>3. r.ts <= lastTs[d] /\ lastTs[d] <= lastTs'[d]
            BY <2>5, <3>1, <5>1, <5>3
          <6>4. lastTs'[d] \in Nat /\ r.ts \in Nat
            BY <1>1, <2>7, <5>3 DEF TypeOK
          <6> QED BY <2>4, <6>2, <6>3, <6>4
        <5> QED BY <5>2, <5>3
      <4> QED BY <4>1, <4>2
    <3> QED BY <3>1 DEF TranscriptInOrder
  <2> QED BY <2>8, <2>9
<1> QED BY <1>2, <1>3

-----------------------------------------------------------------------------
(* The honesty of the times shown. *)

LEMMA LeftStep ==
  ASSUME TypeOK, Shaped, LeftInOrder, Next
  PROVE  LeftInOrder'
<1>1. ASSUME NEW d \in Device, NEW m \in wire[d]
      PROVE  /\ m.n \in Nat /\ m.left \in Nat /\ m.n <= ns[Peer(d)] /\ ns[Peer(d)] \in Nat
             /\ m.left <= clock /\ clock - m.left <= MaxQueueAge
  BY MessageForms, Peers DEF TypeOK, LeftInOrder
<1>2. clock \in Nat
  BY Bounds DEF TypeOK
<1>3. CASE \A d \in Device : ~Deliver(d)
  <2>1. Unread
    BY <1>3, NotRead
  <2>2. ASSUME NEW d \in Device, NEW m \in wire'[d]
        PROVE  m.left <= clock' /\ clock' - m.left <= MaxQueueAge
    <3>1. CASE m \in wire[d]
      BY <1>1, <1>2, <2>1, <3>1, Bounds DEF Unread
    <3>2. CASE m \notin wire[d]
      <4>1. m = Message(Peer(d)) /\ cmd[Peer(d)].pc = "post" /\ Peer(d) \in Device
        BY <2>1, <3>2, Peers DEF Unread
      <4>2. m.left = clock
        BY <4>1, Sent
      <4>3. clock' = clock
        BY <2>1, <3>2 DEF Unread
      <4> QED BY <1>2, <4>2, <4>3, Bounds
    <3> QED BY <3>1, <3>2
  <2>3. ASSUME NEW d \in Device, NEW m \in wire'[d], NEW w \in wire'[d], m.n < w.n
        PROVE  m.left <= w.left
    <3>1. Message(Peer(d)).n = ns[Peer(d)] + 1 /\ Message(Peer(d)).left = clock /\ ns[Peer(d)] \in Nat
      BY Peers, Sent DEF TypeOK
    <3>2. CASE m \in wire[d] /\ w \in wire[d]
      BY <2>3, <3>2 DEF LeftInOrder
    <3>3. CASE m \notin wire[d]
      <4>1. m.n = ns[Peer(d)] + 1
        BY <2>1, <3>1, <3>3 DEF Unread
      <4>2. w \in wire[d]
        BY <2>1, <2>3, <3>1, <4>1 DEF Unread
      <4> QED BY <1>1, <2>3, <3>1, <4>1, <4>2
    <3>4. CASE m \in wire[d] /\ w \notin wire[d]
      <4>1. w.left = clock
        BY <2>1, <3>1, <3>4 DEF Unread
      <4> QED BY <1>1, <3>4, <4>1
    <3> QED BY <3>2, <3>3, <3>4
  <2> QED BY <2>2, <2>3 DEF LeftInOrder
<1>4. ASSUME NEW d \in Device, Deliver(d) PROVE LeftInOrder'
  <2>1. PICK m : Taken(d, m)
    BY <1>4, DeliverDoes
  <2>2. clock' = clock /\ \A e \in Device : wire'[e] \subseteq wire[e]
    BY <2>1 DEF Taken
  <2> QED BY <2>2 DEF LeftInOrder
<1> QED BY <1>3, <1>4

(* When a text is read, no clock having been set: the floor, and what has
   waited as long as the server allows, stay below its sender's own time as a
   clock ahead of the sender's would have it. *)
LEMMA ReadInTime ==
  ASSUME TypeOK, LeftInOrder, DatedWhenLeft, turned = {}, NEW d \in Device, NEW m \in wire[d]
  PROVE  LET u == m.sentAt + Behind(d) IN
         /\ m.sentAt \in Nat /\ Behind(d) \in Nat /\ m.left \in Nat /\ u <= Now(Peer(d)) + Behind(d)
         /\ m.sentAt = m.left + ahead[Peer(d)]
         /\ Stamp(m.sentAt, Now(d), 0) <= u
         /\ m.n > heard[d] => Stamp(m.sentAt, Now(d), lastTs[d]) <= u
         /\ \A w \in wire[d] : m.n > heard[d] /\ m.n < w.n =>
              Stamp(m.sentAt, Now(d), lastTs[d]) <= w.sentAt + Behind(d)
         /\ -(ahead[d] - ahead[Peer(d)]) <= MaxClockSkew => m.sentAt <= Now(d) + MaxClockSkew
<1>1. /\ clock \in Nat /\ ahead[d] \in Nat /\ ahead[Peer(d)] \in Nat /\ Peer(d) \in Device
      /\ lastTs[d] \in Nat /\ heard[d] \in Nat
  BY Peers, Bounds DEF TypeOK
<1>2. /\ Now(d) = clock + ahead[d] /\ Now(Peer(d)) = clock + ahead[Peer(d)]
  BY DEF Now
<1>3. /\ Behind(d) \in Nat /\ ahead[d] <= ahead[Peer(d)] + Behind(d)
  BY <1>1 DEF Behind, AtLeast
<1>4. ASSUME NEW w \in wire[d]
      PROVE  /\ w.left \in Nat /\ w.sentAt \in Nat /\ w.n \in Nat /\ w.left <= clock
             /\ clock - w.left <= MaxQueueAge /\ w.sentAt = w.left + ahead[Peer(d)]
             /\ w.n > heard[d] => lastTs[d] <= w.sentAt + Behind(d)
             /\ m.n < w.n => m.left <= w.left
  BY MessageForms, Bounds DEF TypeOK, LeftInOrder, DatedWhenLeft
<1>5. Now(d) \in Nat /\ MaxQueueAge \in Nat /\ MaxClockSkew \in Nat /\ 0 \in Nat
  BY NowTyped, Bounds
<1>6. m.sentAt <= m.sentAt + Behind(d) /\ Now(d) - MaxQueueAge <= m.sentAt + Behind(d)
      /\ 0 <= m.sentAt + Behind(d) /\ m.sentAt + Behind(d) <= Now(Peer(d)) + Behind(d)
      /\ m.sentAt + Behind(d) \in Int
  BY <1>1, <1>2, <1>3, <1>4, <1>5
<1>7. Stamp(m.sentAt, Now(d), 0) <= m.sentAt + Behind(d)
  BY <1>4, <1>5, <1>6, StampBounds
<1>8. m.n > heard[d] => Stamp(m.sentAt, Now(d), lastTs[d]) <= m.sentAt + Behind(d)
  BY <1>1, <1>4, <1>5, <1>6, StampBounds
<1>9. ASSUME NEW w \in wire[d], m.n > heard[d], m.n < w.n
      PROVE  Stamp(m.sentAt, Now(d), lastTs[d]) <= w.sentAt + Behind(d)
  <2>1. w.n > heard[d] /\ m.left <= w.left
    BY <1>1, <1>4, <1>9
  <2>2. /\ m.sentAt <= w.sentAt + Behind(d) /\ Now(d) - MaxQueueAge <= w.sentAt + Behind(d)
        /\ lastTs[d] <= w.sentAt + Behind(d) /\ w.sentAt + Behind(d) \in Int
    BY <1>1, <1>2, <1>3, <1>4, <1>5, <2>1
  <2> QED BY <1>1, <1>4, <1>5, <2>2, StampBounds
<1>10. -(ahead[d] - ahead[Peer(d)]) <= MaxClockSkew => m.sentAt <= Now(d) + MaxClockSkew
  BY <1>1, <1>2, <1>4, <1>5
<1> QED BY <1>3, <1>4, <1>6, <1>7, <1>8, <1>9, <1>10

LEMMA HonestStep ==
  ASSUME TypeOK, Shaped, LeftInOrder, DatedWhenLeft, HonestTimesKept, Next
  PROVE  DatedWhenLeft' /\ HonestTimesKept'
<1> SUFFICES ASSUME turned' = {}
             PROVE  DatedWhenLeft' /\ HonestTimesKept'
  BY DEF DatedWhenLeft, HonestTimesKept
<1>1. ASSUME NEW d \in Device
      PROVE  /\ clock \in Nat /\ ahead[d] \in Nat /\ ahead[Peer(d)] \in Nat /\ Peer(d) \in Device
             /\ lastTs[d] \in Nat /\ heard[d] \in Nat /\ Behind(d) \in Nat
             /\ Now(Peer(d)) = clock + ahead[Peer(d)] /\ Now(d) = clock + ahead[d]
  <2>1. clock \in Nat /\ ahead[d] \in Nat /\ ahead[Peer(d)] \in Nat /\ Peer(d) \in Device
        /\ lastTs[d] \in Nat /\ heard[d] \in Nat
    BY Peers, Bounds DEF TypeOK
  <2> QED BY <2>1 DEF Now, Behind, AtLeast
<1>2. CASE \A d \in Device : ~Deliver(d)
  <2>1. Unread
    BY <1>2, NotRead
  <2>2. /\ turned = {} /\ \A d \in Device : ahead'[d] = ahead[d] /\ ahead'[Peer(d)] = ahead[Peer(d)]
        /\ clock' = clock \/ clock' = clock + 1
    BY <2>1, Peers DEF Unread
  <2>3. \A d \in Device : Behind(d)' = Behind(d)
    BY <2>2 DEF Behind
  <2>4. ASSUME NEW d \in Device
        PROVE  /\ cmd'[d].pc = "post" => cmd'[d].sentAt = Now(d)'
               /\ lastTs'[d] <= Now(Peer(d))' + Behind(d)'
               /\ \A m \in wire'[d] :
                    /\ m.sentAt = m.left + ahead'[Peer(d)]
                    /\ m.n > heard'[d] => lastTs'[d] <= m.sentAt + Behind(d)'
    <3>1. /\ cmd[d].pc = "post" => cmd[d].sentAt = Now(d)
          /\ lastTs[d] <= Now(Peer(d)) + Behind(d)
          /\ \A m \in wire[d] :
               /\ m.sentAt = m.left + ahead[Peer(d)]
               /\ m.n > heard[d] => lastTs[d] <= m.sentAt + Behind(d)
          /\ cmd[Peer(d)].pc = "post" => cmd[Peer(d)].sentAt = Now(Peer(d))
      BY <1>1, <2>2 DEF DatedWhenLeft
    <3>2. cmd'[d].pc = "post" => cmd'[d].sentAt = Now(d)'
      BY <2>1, <2>2, <3>1 DEF Unread, Now
    <3>3. Now(Peer(d))' = clock' + ahead[Peer(d)]
      BY <1>1, <2>2 DEF Now
    <3>4. lastTs'[d] <= Now(Peer(d))' + Behind(d)'
      BY <1>1, <2>1, <2>2, <2>3, <3>1, <3>3 DEF Unread
    <3>5. ASSUME NEW m \in wire'[d]
          PROVE  /\ m.sentAt = m.left + ahead'[Peer(d)]
                 /\ m.n > heard'[d] => lastTs'[d] <= m.sentAt + Behind(d)'
      <4>1. CASE m \in wire[d]
        BY <2>1, <2>2, <2>3, <3>1, <4>1 DEF Unread
      <4>2. CASE m \notin wire[d]
        <5>1. m = Message(Peer(d)) /\ cmd[Peer(d)].pc = "post"
          BY <2>1, <4>2 DEF Unread
        <5>2. m.left = clock /\ m.sentAt = Now(Peer(d))
          BY <1>1, <3>1, <5>1, Sent
        <5> QED BY <1>1, <2>1, <2>2, <2>3, <3>1, <5>2 DEF Unread
      <4> QED BY <4>1, <4>2
    <3> QED BY <3>2, <3>4, <3>5
  <2>5. DatedWhenLeft'
    BY <2>4 DEF DatedWhenLeft
  <2>6. \A d \in Device : \A r \in store'[d] : r \in store[d] \/ r.mine
    BY <2>1 DEF Unread
  <2>7. HonestTimesKept'
    BY <2>2, <2>6 DEF HonestTimesKept
  <2> QED BY <2>5, <2>7
<1>3. ASSUME NEW d \in Device, Deliver(d)
      PROVE  DatedWhenLeft' /\ HonestTimesKept'
  <2>1. PICK m : Taken(d, m)
    BY <1>3, DeliverDoes
  <2>2. /\ m \in wire[d] /\ turned = {} /\ turned' = turned /\ clock' = clock /\ ahead' = ahead /\ cmd' = cmd
        /\ \A e \in Device \ {d} : /\ store'[e] = store[e] /\ lastTs'[e] = lastTs[e]
                                  /\ heard'[e] = heard[e] /\ wire'[e] = wire[e]
        /\ wire'[d] \subseteq wire[d]
        /\ \A r \in store'[d] : r \in store[d] \/ Fresh(d, m, r)
        /\ IF m.n > heard[d]
           THEN heard'[d] = m.n /\ lastTs'[d] = Stamp(m.sentAt, Now(d), lastTs[d])
           ELSE heard'[d] = heard[d] /\ lastTs'[d] = lastTs[d]
    BY <2>1 DEF Taken
  <2>3. \A e \in Device : Now(e)' = Now(e) /\ Now(Peer(e))' = Now(Peer(e)) /\ Behind(e)' = Behind(e)
    BY <2>2 DEF Now, Behind
  <2>4. /\ m.sentAt \in Nat /\ m.sentAt + Behind(d) <= Now(Peer(d)) + Behind(d)
        /\ Stamp(m.sentAt, Now(d), 0) <= m.sentAt + Behind(d)
        /\ m.n > heard[d] => Stamp(m.sentAt, Now(d), lastTs[d]) <= m.sentAt + Behind(d)
        /\ \A w \in wire[d] : m.n > heard[d] /\ m.n < w.n =>
             Stamp(m.sentAt, Now(d), lastTs[d]) <= w.sentAt + Behind(d)
        /\ -(ahead[d] - ahead[Peer(d)]) <= MaxClockSkew => m.sentAt <= Now(d) + MaxClockSkew
    BY <2>2, ReadInTime
  <2>5. Now(d) \in Nat /\ lastTs[d] \in Nat /\ 0 \in Nat /\ MaxClockSkew \in Nat
    BY <1>1, NowTyped, Bounds
  <2>6. Stamp(m.sentAt, Now(d), lastTs[d]) \in Nat /\ Stamp(m.sentAt, Now(d), 0) \in Nat
    BY <2>4, <2>5, StampBounds
  <2>7. \A e \in Device :
          /\ cmd[e].pc = "post" => cmd[e].sentAt = Now(e)
          /\ lastTs[e] <= Now(Peer(e)) + Behind(e)
          /\ \A w \in wire[e] :
               /\ w.sentAt = w.left + ahead[Peer(e)]
               /\ w.n > heard[e] => lastTs[e] <= w.sentAt + Behind(e)
    BY <2>2 DEF DatedWhenLeft
  <2>8. lastTs'[d] <= Now(Peer(d)) + Behind(d)
    <3>1. Now(Peer(d)) \in Nat /\ Behind(d) \in Nat
      BY <1>1
    <3>2. CASE m.n > heard[d]
      BY <2>2, <2>4, <2>6, <3>1, <3>2
    <3>3. CASE ~(m.n > heard[d])
      BY <2>2, <2>7, <3>3
    <3> QED BY <3>2, <3>3
  <2>9. ASSUME NEW w \in wire'[d], w.n > heard'[d]
        PROVE  lastTs'[d] <= w.sentAt + Behind(d)
    <3>1. CASE m.n > heard[d]
      <4>1. w \in wire[d] /\ m.n < w.n /\ lastTs'[d] = Stamp(m.sentAt, Now(d), lastTs[d])
        <5>1. w \in wire[d] /\ m.n \in Nat /\ w.n \in Nat
          BY <2>2, <2>9, MessageForms DEF TypeOK
        <5> QED BY <2>2, <2>9, <3>1, <5>1
      <4> QED BY <2>4, <3>1, <4>1
    <3>2. CASE ~(m.n > heard[d])
      BY <2>2, <2>7, <2>9, <3>2
    <3> QED BY <3>1, <3>2
  <2>10. DatedWhenLeft'
    <3>1. ASSUME NEW e \in Device
          PROVE  /\ cmd'[e].pc = "post" => cmd'[e].sentAt = Now(e)'
                 /\ lastTs'[e] <= Now(Peer(e))' + Behind(e)'
                 /\ \A w \in wire'[e] :
                      /\ w.sentAt = w.left + ahead'[Peer(e)]
                      /\ w.n > heard'[e] => lastTs'[e] <= w.sentAt + Behind(e)'
      <4>1. CASE e = d
        BY <2>2, <2>3, <2>7, <2>8, <2>9, <4>1
      <4>2. CASE e # d
        BY <2>2, <2>3, <2>7, <4>2
      <4> QED BY <4>1, <4>2
    <3> QED BY <3>1 DEF DatedWhenLeft
  <2>11. ASSUME NEW e \in Device, NEW r \in store'[e], ~r.mine,
                -(ahead[e] - ahead[Peer(e)]) <= MaxClockSkew
         PROVE  r.ts \in r.said .. r.said + AtLeast(0, ahead[e] - ahead[Peer(e)])
    <3>1. CASE r \in store[e]
      BY <2>2, <2>11, <3>1 DEF HonestTimesKept
    <3>2. CASE r \notin store[e]
      <4>1. e = d /\ r.said = m.sentAt /\ r.ts = Stamp(m.sentAt, Now(d), Floor(d, m))
        BY <2>2, <3>2 DEF Fresh
      <4>2. m.sentAt <= Now(d) + MaxClockSkew
        BY <2>4, <2>11, <4>1
      <4>3. r.ts \in Nat /\ r.ts <= m.sentAt + Behind(d) /\ m.sentAt <= r.ts
        <5>1. CASE m.n > heard[d]
          <6>1. r.ts = Stamp(m.sentAt, Now(d), lastTs[d])
            BY <4>1, <5>1 DEF Floor, Extends
          <6> QED BY <2>4, <2>5, <2>6, <4>2, <5>1, <6>1, StampBounds
        <5>2. CASE ~(m.n > heard[d])
          <6>1. r.ts = Stamp(m.sentAt, Now(d), 0)
            BY <4>1, <5>2 DEF Floor, Extends
          <6> QED BY <2>4, <2>5, <2>6, <4>2, <6>1, StampBounds
        <5> QED BY <5>1, <5>2
      <4>4. Behind(d) = AtLeast(0, ahead[e] - ahead[Peer(e)]) /\ Behind(d) \in Nat
        BY <1>1, <4>1 DEF Behind
      <4> QED BY <2>4, <4>1, <4>3, <4>4
    <3> QED BY <3>1, <3>2
  <2>12. HonestTimesKept'
    BY <2>2, <2>11 DEF HonestTimesKept
  <2> QED BY <2>10, <2>12
<1> QED BY <1>2, <1>3

-----------------------------------------------------------------------------
(* The timers: TimersTold, for either device and its peer. *)

SameWires == \A d \in Device : \A m \in wire[d] : \A w \in wire[Peer(d)] : m.timer = w.timer
NewestTold ==
  \A d \in Device : \A m \in wire[d] : Newest(d, m) => m.timer = timer[Peer(d)] \/ Telling(Peer(d))
Pending(d) == Telling(d) \/ Telling(Peer(d)) \/ Unheard(d) # {} \/ Unheard(Peer(d)) # {}
Agreeing == \A d \in Device : timer[d] = timer[Peer(d)] \/ Pending(d)
Agreed == SameWires /\ NewestTold /\ Agreeing

LEMMA TimersForm ==
  TimersTold <=> (~crossed => Agreed)
<1>1. A \in Device /\ B \in Device /\ Peer(A) = B /\ Peer(B) = A /\ \A d \in Device : d = A \/ d = B
  BY TranscriptBounds DEF Device, Peer
<1>2. SameWires <=> \A m \in wire[A], w \in wire[B] : m.timer = w.timer
  BY <1>1 DEF SameWires
<1>3. Agreeing <=> (timer[A] = timer[B] \/ \E d \in Device : Telling(d) \/ Unheard(d) # {})
  BY <1>1 DEF Agreeing, Pending
<1> QED BY <1>2, <1>3 DEF TimersTold, NewestTold, Agreed

LEMMA TimersFormNext ==
  ASSUME ~crossed' => Agreed'
  PROVE  TimersTold'
<1>1. A \in Device /\ B \in Device /\ Peer(A) = B /\ Peer(B) = A /\ \A d \in Device : d = A \/ d = B
  BY TranscriptBounds DEF Device, Peer
<1>2. SameWires' => \A m \in wire'[A], w \in wire'[B] : m.timer = w.timer
  BY <1>1 DEF SameWires
<1>3. Agreeing' => (timer'[A] = timer'[B] \/ \E d \in Device : Telling(d)' \/ Unheard(d)' # {})
  BY <1>1 DEF Agreeing, Pending
<1> QED BY <1>2, <1>3 DEF TimersTold, NewestTold, Agreed

LEMMA TimersKept ==
  ASSUME Agreed, UNCHANGED <<wire, heard, timer>>,
         \A e \in Device : cmd'[e].op = "timer" <=> cmd[e].op = "timer"
  PROVE  Agreed'
<1>1. \A e \in Device : Peer(e) \in Device
  BY Peers
<1>2. SameWires'
  BY DEF Agreed, SameWires
<1>3. \A e \in Device : (Telling(e)' <=> Telling(e)) /\ Unheard(e)' = Unheard(e)
                     /\ \A m : Newest(e, m)' <=> Newest(e, m)
  BY DEF Telling, Unheard, Newest
<1>4. NewestTold'
  <2>1. ASSUME NEW e \in Device, NEW m \in wire'[e], Newest(e, m)'
        PROVE  m.timer = timer'[Peer(e)] \/ Telling(Peer(e))'
    <3>1. m \in wire[e] /\ Newest(e, m)
      BY <1>3, <2>1
    <3>2. m.timer = timer[Peer(e)] \/ Telling(Peer(e))
      BY <3>1 DEF Agreed, NewestTold
    <3> QED BY <1>1, <1>3, <3>2
  <2> QED BY <2>1 DEF NewestTold
<1>5. Agreeing'
  <2>1. ASSUME NEW e \in Device PROVE timer'[e] = timer'[Peer(e)] \/ Pending(e)'
    <3>1. timer[e] = timer[Peer(e)] \/ Pending(e)
      BY DEF Agreed, Agreeing
    <3> QED BY <1>1, <1>3, <3>1 DEF Pending
  <2> QED BY <2>1 DEF Agreeing
<1> QED BY <1>2, <1>4, <1>5 DEF Agreed

(* A change of timer that is still to be told. *)
LEMMA TimersSet ==
  ASSUME Agreed, NEW d \in Device, UNCHANGED <<wire, heard>>, cmd'[d].op = "timer",
         \A e \in Device \ {d} : timer'[e] = timer[e] /\ cmd'[e] = cmd[e]
  PROVE  Agreed'
<1>1. Peer(d) \in Device /\ Peer(d) # d /\ Peer(Peer(d)) = d /\ \A e \in Device : e = d \/ e = Peer(d)
  BY Peers
<1>2. SameWires'
  BY DEF Agreed, SameWires
<1>3. Telling(d)' /\ (Telling(Peer(d))' <=> Telling(Peer(d)))
  BY <1>1 DEF Telling
<1>4. NewestTold'
  <2>1. ASSUME NEW m \in wire'[d], Newest(d, m)'
        PROVE  m.timer = timer'[Peer(d)] \/ Telling(Peer(d))'
    <3>1. m \in wire[d] /\ Newest(d, m)
      BY <2>1 DEF Newest, Unheard
    <3> QED BY <1>1, <1>3, <3>1 DEF Agreed, NewestTold
  <2> QED BY <1>1, <1>3, <2>1 DEF NewestTold
<1>5. Agreeing'
  BY <1>1, <1>3 DEF Agreeing, Pending
<1> QED BY <1>2, <1>4, <1>5 DEF Agreed

(* A message that goes out with its sender's timer, and crosses none with
   another. *)
LEMMA TimersGo ==
  ASSUME TypeOK, Agreed, NEW d \in Device, Goes(d), ~crossed', UNCHANGED <<timer, heard>>,
         \A e \in Device \ {d} : cmd'[e] = cmd[e]
  PROVE  Agreed'
<1>1. Peer(d) \in Device /\ Peer(d) # d /\ Peer(Peer(d)) = d /\ \A e \in Device : e = d \/ e = Peer(d)
  BY Peers
<1>2. /\ wire'[Peer(d)] = wire[Peer(d)] \cup {Message(d)} /\ wire'[d] = wire[d]
      /\ cmd[d].timer = timer[d] /\ \A m \in wire[d] : m.timer = cmd[d].timer
  BY Going
<1>3. Message(d).timer = timer[d] /\ Message(d).n = ns[d] + 1
  BY <1>2, Sent
<1>4. /\ ns[d] \in Nat /\ heard[Peer(d)] \in Nat /\ heard[Peer(d)] <= ns[d]
      /\ \A m \in wire[Peer(d)] : m.n \in 1 .. ns[d]
  BY <1>1 DEF TypeOK
<1>5. SameWires'
  <2>1. \A m \in wire[d] : \A w \in wire[Peer(d)] : m.timer = w.timer
    BY DEF Agreed, SameWires
  <2>2. \A m \in wire'[d] : \A w \in wire'[Peer(d)] : m.timer = w.timer
    BY <1>2, <1>3, <2>1
  <2> QED BY <1>1, <2>2 DEF SameWires
<1>6. Message(d) \in Unheard(Peer(d))'
  BY <1>2, <1>3, <1>4 DEF Unheard
<1>7. ASSUME NEW m \in wire'[Peer(d)], Newest(Peer(d), m)'
      PROVE  m.timer = timer'[d]
  <2>1. Message(d).n <= m.n
    BY <1>2, <1>7 DEF Newest
  <2>2. m = Message(d)
    BY <1>2, <1>3, <1>4, <2>1
  <2> QED BY <1>3, <2>2
<1>8. ASSUME NEW m \in wire'[d], Newest(d, m)'
      PROVE  m.timer = timer'[Peer(d)] \/ Telling(Peer(d))'
  <2>1. m \in wire[d] /\ Newest(d, m)
    BY <1>2, <1>8 DEF Newest, Unheard
  <2>2. m.timer = timer[Peer(d)] \/ Telling(Peer(d))
    BY <2>1 DEF Agreed, NewestTold
  <2>3. Telling(Peer(d))' <=> Telling(Peer(d))
    BY <1>1 DEF Telling
  <2> QED BY <2>2, <2>3
<1>9. NewestTold'
  BY <1>1, <1>7, <1>8 DEF NewestTold
<1>10. Agreeing'
  <2>1. Pending(d)' /\ Pending(Peer(d))'
    BY <1>1, <1>6 DEF Pending
  <2> QED BY <1>1, <2>1 DEF Agreeing
<1> QED BY <1>5, <1>9, <1>10 DEF Agreed

(* A message that is read, and its timer taken over. *)
LEMMA TimersRead ==
  ASSUME TypeOK, Agreed, NEW d \in Device, NEW m, Taken(d, m), ~crossed'
  PROVE  Agreed'
<1>1. Peer(d) \in Device /\ Peer(d) # d /\ Peer(Peer(d)) = d /\ \A e \in Device : e = d \/ e = Peer(d)
  BY Peers
<1>2. /\ m \in wire[d] /\ cmd' = cmd /\ timer'[d] = m.timer /\ timer'[Peer(d)] = timer[Peer(d)]
      /\ wire'[d] = wire[d] \ {m} /\ wire'[Peer(d)] = wire[Peer(d)] /\ heard'[Peer(d)] = heard[Peer(d)]
      /\ heard'[d] = IF m.n > heard[d] THEN m.n ELSE heard[d]
      /\ m.n > heard[d] \/ m.timer = timer[d]
  BY <1>1 DEF Taken
<1>3. heard[d] \in Nat /\ \A w \in wire[d] : w.n \in Nat
  BY MessageForms DEF TypeOK
<1>4. /\ \A w \in wire[d] : \A v \in wire[Peer(d)] : w.timer = v.timer
  BY DEF Agreed, SameWires
<1>5. SameWires'
  BY <1>1, <1>2, <1>4 DEF SameWires
<1>6. \A e \in Device : Telling(e)' <=> Telling(e)
  BY <1>2 DEF Telling
<1>7. Unheard(Peer(d))' = Unheard(Peer(d)) /\ \A w : Newest(Peer(d), w)' <=> Newest(Peer(d), w)
  BY <1>2 DEF Unheard, Newest
<1>8. ASSUME NEW w \in wire'[Peer(d)], Newest(Peer(d), w)'
      PROVE  w.timer = timer'[d] \/ Telling(d)'
  <2>1. w \in wire[Peer(d)] /\ m.timer = w.timer
    BY <1>2, <1>4
  <2> QED BY <1>2, <2>1
<1>9. ASSUME NEW w \in wire'[d], Newest(d, w)'
      PROVE  w.timer = timer'[Peer(d)] \/ Telling(Peer(d))'
  <2>1. w \in wire[d] /\ w.n > heard'[d] /\ \A v \in wire[d] \ {m} : v.n <= w.n
    BY <1>2, <1>9 DEF Newest, Unheard
  <2>2. w.n > heard[d] /\ m.n <= w.n
    BY <1>2, <1>3, <2>1
  <2>3. Newest(d, w)
    BY <2>1, <2>2 DEF Newest, Unheard
  <2>4. w.timer = timer[Peer(d)] \/ Telling(Peer(d))
    BY <2>1, <2>3 DEF Agreed, NewestTold
  <2> QED BY <1>1, <1>2, <1>6, <2>4
<1>10. NewestTold'
  BY <1>1, <1>8, <1>9 DEF NewestTold
<1>11. timer'[d] = timer'[Peer(d)] \/ Telling(d)' \/ Telling(Peer(d))' \/ Unheard(d)' # {} \/ Unheard(Peer(d))' # {}
  <2> SUFFICES ASSUME ~Telling(d), ~Telling(Peer(d)), Unheard(d)' = {}, Unheard(Peer(d)) = {}
               PROVE  timer'[d] = timer'[Peer(d)]
    BY <1>1, <1>6, <1>7
  <2>1. CASE m.n > heard[d]
    <3>1. \A w \in wire[d] : w.n <= m.n
      BY <1>2, <1>3, <2>1 DEF Unheard
    <3>2. Newest(d, m)
      BY <1>2, <2>1, <3>1 DEF Newest, Unheard
    <3> QED BY <1>2, <3>2 DEF Agreed, NewestTold
  <2>2. CASE ~(m.n > heard[d])
    <3>1. Unheard(d) = {}
      BY <1>2, <2>2 DEF Unheard
    <3>2. timer[d] = timer[Peer(d)]
      BY <3>1 DEF Agreed, Agreeing, Pending
    <3> QED BY <1>2, <2>2, <3>2
  <2> QED BY <2>1, <2>2
<1>12. Agreeing'
  BY <1>1, <1>11 DEF Agreeing, Pending
<1> QED BY <1>5, <1>10, <1>12 DEF Agreed

LEMMA TimersStep ==
  ASSUME TypeOK, Shaped, TimersTold, Next
  PROVE  TimersTold'
<1> SUFFICES ASSUME ~crossed' PROVE Agreed'
  BY TimersFormNext
<1>1. ~crossed => Agreed
  BY TimersForm
<1>2. ASSUME NEW d \in Device, SendText(d) PROVE Agreed'
  BY <1>1, <1>2, SendTextDoes, TimersKept, RestForm
<1>3. ASSUME NEW d \in Device, NEW seconds \in Settings, SetTimer(d, seconds) PROVE Agreed'
  <2>1. \A e \in Device \ {d} : timer'[e] = timer[e]
    BY <1>3, SetTimerDoes DEF TypeOK
  <2> QED BY <1>1, <1>3, <2>1, SetTimerDoes, TimersSet
<1>4. ASSUME NEW d \in Device, PurgeNow(d) \/ \E seconds \in Settings : PurgeSet(d, seconds)
      PROVE  Agreed'
  BY <1>1, <1>4, PurgeDoes, TimersKept
<1>5. ASSUME NEW d \in Device, Delete(d) PROVE Agreed'
  BY <1>1, <1>5, DeleteDoes, TimersKept, RestForm
<1>6. ASSUME NEW d \in Device, Ask(d) PROVE Agreed'
  BY <1>1, <1>6, AskDoes, TimersKept
<1>7. ASSUME NEW d \in Device, Goes(d), UNCHANGED <<timer, heard>>,
             \A e \in Device \ {d} : cmd'[e] = cmd[e]
      PROVE  Agreed'
  BY <1>1, <1>7, Going, TimersGo
<1>8. ASSUME NEW d \in Device, Unsent(d), UNCHANGED <<timer, heard, wire>>, cmd'[d] = Rest,
             \A e \in Device \ {d} : cmd'[e] = cmd[e]
      PROVE  Agreed'
  <2>1. ~crossed /\ cmd[d].op # "timer"
    BY <1>8 DEF Unsent
  <2> QED BY <1>1, <1>8, <2>1, TimersKept, RestForm
<1>9. ASSUME NEW d \in Device, Post(d) PROVE Agreed'
  BY <1>7, <1>9, PostDoes
<1>10. ASSUME NEW d \in Device, PostFails(d) PROVE Agreed'
  BY <1>7, <1>8, <1>10, PostFailsDoes
<1>11. ASSUME NEW d \in Device, Record(d) PROVE Agreed'
  BY ZenonT(40), <1>1, <1>11, RecordDoes, TimersKept, RestForm
<1>12. ASSUME NEW d \in Device, Deliver(d) PROVE Agreed'
  <2>1. PICK m : Taken(d, m)
    BY <1>12, DeliverDoes
  <2>2. ~crossed
    BY <2>1 DEF Taken
  <2> QED BY <1>1, <2>1, <2>2, TimersRead
<1>13. ASSUME NEW d \in Device, SetClock(d) PROVE Agreed'
  BY <1>1, <1>13, SetClockDoes, TimersKept
<1>14. ASSUME NEW d \in Device, Close(d) PROVE Agreed'
  BY <1>8, <1>14, CloseDoes
<1>15. ASSUME Tick PROVE Agreed'
  BY <1>1, <1>15, TickDoes, TimersKept
<1> QED BY <1>2, <1>3, <1>4, <1>5, <1>6, <1>9, <1>10, <1>11, <1>12, <1>13, <1>14, <1>15 DEF Next, Settings

-----------------------------------------------------------------------------
(* Whose words they are. *)

LEMMA WordForms ==
  ASSUME NEW d \in Device, NEW x
  PROVE  x \in Written(d) <=>
           \/ \E r \in store[d] : r.mine /\ x = r.mid
           \/ x \in Given(cmd[d])
           \/ \E m \in wire[Peer(d)] : x \in Given(m)
           \/ \E r \in store[Peer(d)] : ~r.mine /\ x = r.mid
<1> DEFINE own == {r.mid : r \in Own(d)}
           sent == UNION {Given(m) : m \in wire[Peer(d)]}
           read == {r.mid : r \in {q \in store[Peer(d)] : ~q.mine}}
<1>1. x \in own <=> \E r \in store[d] : r.mine /\ x = r.mid
  BY DEF Own
<1>2. x \in sent <=> \E m \in wire[Peer(d)] : x \in Given(m)
  OBVIOUS
<1>3. x \in read <=> \E r \in store[Peer(d)] : ~r.mine /\ x = r.mid
  OBVIOUS
<1>4. Written(d) = own \cup Given(cmd[d]) \cup sent \cup read
  BY DEF Written
<1> HIDE DEF own, sent, read
<1> QED BY <1>1, <1>2, <1>3, <1>4

LEMMA WordFormsNext ==
  ASSUME NEW d \in Device, NEW x \in Written(d)'
  PROVE  \/ \E r \in store'[d] : r.mine /\ x = r.mid
         \/ x \in Given(cmd'[d])
         \/ \E m \in wire'[Peer(d)] : x \in Given(m)
         \/ \E r \in store'[Peer(d)] : ~r.mine /\ x = r.mid
<1> DEFINE own == {r.mid : r \in Own(d)'}
           sent == UNION {Given(m) : m \in wire'[Peer(d)]}
           read == {r.mid : r \in {q \in store'[Peer(d)] : ~q.mine}}
<1>1. x \in own => \E r \in store'[d] : r.mine /\ x = r.mid
  BY DEF Own
<1>2. x \in sent => \E m \in wire'[Peer(d)] : x \in Given(m)
  OBVIOUS
<1>3. x \in read => \E r \in store'[Peer(d)] : ~r.mine /\ x = r.mid
  OBVIOUS
<1>4. Written(d)' = own \cup Given(cmd'[d]) \cup sent \cup read
  BY DEF Written
<1> HIDE DEF own, sent, read
<1> QED BY <1>1, <1>2, <1>3, <1>4

LEMMA Separate ==
  OwnWords => \A d \in Device : Written(d) \cap Written(Peer(d)) = {}
BY TranscriptBounds DEF OwnWords, Device, Peer

LEMMA GivenForms ==
  /\ Given(Rest) = {}
  /\ \A m : Given(m) = m.deletes \cup ({m.mid} \ {NoMid})
BY RestForm DEF Given

(* What is written by d was written by it before, but for the word new. *)
Inherits(d, new) ==
  /\ \A r \in store'[d] : r.mine => r \in store[d] \/ r.mid \in Given(cmd[d])
  /\ \A x \in Given(cmd'[d]) : x \in Given(cmd[d]) \/ x \in new \/ \E r \in store[d] : r.mine /\ x = r.mid
  /\ \A m \in wire'[Peer(d)] : m \in wire[Peer(d)] \/ Given(m) = Given(cmd[d])
  /\ \A r \in store'[Peer(d)] :
       ~r.mine => r \in store[Peer(d)] \/ \E m \in wire[Peer(d)] : r.mid \in Given(m)

LEMMA WrittenBefore ==
  ASSUME NEW d \in Device, NEW new, Inherits(d, new)
  PROVE  Written(d)' \subseteq Written(d) \cup new
<1> SUFFICES ASSUME NEW x \in Written(d)'
             PROVE  x \in Written(d) \cup new
  OBVIOUS
<1>1. CASE \E r \in store'[d] : r.mine /\ x = r.mid
  BY <1>1, WordForms DEF Inherits
<1>2. CASE x \in Given(cmd'[d])
  BY <1>2, WordForms DEF Inherits
<1>3. CASE \E m \in wire'[Peer(d)] : x \in Given(m)
  BY <1>3, WordForms DEF Inherits
<1>4. CASE \E r \in store'[Peer(d)] : ~r.mine /\ x = r.mid
  BY <1>4, WordForms DEF Inherits
<1> QED BY <1>1, <1>2, <1>3, <1>4, WordFormsNext

LEMMA WordsTyped ==
  ASSUME TypeOK, NEW d \in Device
  PROVE  Written(d) \subseteq Mids
<1>1. ASSUME NEW m \in MessageType PROVE Given(m) \subseteq Mids
  BY MessageForms DEF Given
<1>2. ASSUME NEW c \in CmdType PROVE Given(c) \subseteq Mids
  BY CmdForms DEF Given
<1>3. /\ store[d] \subseteq RecordType /\ store[Peer(d)] \subseteq RecordType /\ cmd[d] \in CmdType
      /\ wire[Peer(d)] \subseteq MessageType
  BY Peers DEF TypeOK
<1>4. ASSUME NEW x \in Written(d) PROVE x \in Mids
  BY <1>1, <1>2, <1>3, <1>4, WordForms, RecordForms
<1> QED BY <1>4

LEMMA StillSeparate ==
  ASSUME TypeOK, OwnWords, NEW d \in Device, NEW new, Inherits(d, new), Inherits(Peer(d), {}),
         commands' \in Nat, commands <= commands', \A x \in new : x = commands' /\ x > commands
  PROVE  /\ Written(A)' \cap Written(B)' = {}
         /\ \A e \in Device : \A x \in Written(e)' : x <= commands'
<1>1. Peer(d) \in Device /\ \A e \in Device : e = d \/ e = Peer(d)
  BY Peers
<1>2. Written(d)' \subseteq Written(d) \cup new /\ Written(Peer(d))' \subseteq Written(Peer(d))
  BY <1>1, WrittenBefore
<1>3. \A x \in Written(d) \cup Written(Peer(d)) : x <= commands
  BY <1>1 DEF OwnWords
<1>4. \A x \in Written(d) \cup Written(Peer(d)) : x \in Int
  <2>1. Written(d) \subseteq Mids /\ Written(Peer(d)) \subseteq Mids
    BY <1>1, WordsTyped
  <2>2. Mids \subseteq Int
    BY Bounds
  <2> QED BY <2>1, <2>2
<1>5. Written(d) \cap Written(Peer(d)) = {}
  BY Separate
<1>6. Written(d)' \cap Written(Peer(d))' = {}
  <2>1. commands \in Nat
    BY DEF TypeOK
  <2> QED BY <1>2, <1>3, <1>4, <1>5, <2>1
<1>7. Written(A)' \cap Written(B)' = {}
  BY <1>6, TranscriptBounds DEF Device, Peer
<1>8. \A x \in Written(d)' \cup Written(Peer(d))' : x <= commands'
  <2>1. commands \in Nat
    BY DEF TypeOK
  <2> QED BY <1>2, <1>3, <1>4, <2>1
<1> QED BY <1>1, <1>7, <1>8

(* The steps in which nothing is written, recorded by its author or erased. *)
PassesOn ==
  /\ erased' = erased /\ commands' \in Nat /\ commands <= commands'
  /\ \A d \in Device :
       /\ \A r \in store'[d] : r \in store[d] \/ (~r.mine /\ \E m \in wire[d] : r.mid \in Given(m))
       /\ cmd'[d].mid \in {cmd[d].mid, NoMid} /\ cmd'[d].deletes \subseteq cmd[d].deletes
       /\ \A m \in wire'[d] :
            m \in wire[d] \/ (m.deletes = cmd[Peer(d)].deletes /\ m.mid = cmd[Peer(d)].mid)

LEMMA PassedOn ==
  ASSUME TypeOK, OwnWords, PassesOn
  PROVE  OwnWords'
<1>1. ASSUME NEW d \in Device PROVE Inherits(d, {})
  <2>1. Peer(d) \in Device /\ Peer(Peer(d)) = d
    BY Peers
  <2>2. \A r \in store'[d] : r.mine => r \in store[d]
    BY DEF PassesOn
  <2>3. \A x \in Given(cmd'[d]) : x \in Given(cmd[d])
    BY GivenForms DEF PassesOn
  <2>4. \A m \in wire'[Peer(d)] : m \in wire[Peer(d)] \/ Given(m) = Given(cmd[d])
    BY <2>1 DEF PassesOn, Given
  <2>5. \A r \in store'[Peer(d)] :
          ~r.mine => r \in store[Peer(d)] \/ \E m \in wire[Peer(d)] : r.mid \in Given(m)
    BY <2>1 DEF PassesOn
  <2> QED BY <2>2, <2>3, <2>4, <2>5 DEF Inherits
<1>2. /\ Written(A)' \cap Written(B)' = {}
      /\ \A d \in Device : \A x \in Written(d)' : x <= commands'
  <2>1. A \in Device /\ commands' \in Nat /\ commands <= commands'
    BY DEF Device, PassesOn
  <2> QED BY <1>1, <2>1, Peers, StillSeparate
<1>3. \A x \in erased' : x <= commands'
  <2>1. erased \subseteq Nat /\ commands \in Nat /\ \A x \in erased : x <= commands
    BY Bounds DEF TypeOK, OwnWords
  <2> QED BY <2>1 DEF PassesOn
<1>4. ASSUME NEW d \in Device
      PROVE  /\ cmd'[d].mid \notin erased' \cup {r.mid : r \in Own(d)'}
             /\ cmd'[d].deletes \subseteq erased' /\ \A m \in wire'[d] : m.deletes \subseteq erased'
             /\ \A r, q \in Own(d)' : r.mid = q.mid => r = q
             /\ \A r \in Own(d)' : r.mid \notin erased'
  <2>1. /\ cmd[d].mid \notin erased \cup {r.mid : r \in Own(d)}
        /\ cmd[d].deletes \subseteq erased /\ \A m \in wire[d] : m.deletes \subseteq erased
        /\ cmd[Peer(d)].deletes \subseteq erased
        /\ \A r, q \in Own(d) : r.mid = q.mid => r = q
        /\ \A r \in Own(d) : r.mid \notin erased
    BY Peers DEF OwnWords
  <2>2. Own(d)' \subseteq Own(d)
    BY DEF Own, PassesOn
  <2>3. NoMid \notin erased /\ \A r \in Own(d) : r.mid # NoMid
    BY Bounds, RecordForms DEF TypeOK, Own
  <2>4. /\ erased' = erased /\ cmd'[d].mid \in {cmd[d].mid, NoMid} /\ cmd'[d].deletes \subseteq cmd[d].deletes
        /\ \A m \in wire'[d] : m \in wire[d] \/ m.deletes = cmd[Peer(d)].deletes
    BY DEF PassesOn
  <2> QED BY <2>1, <2>2, <2>3, <2>4
<1> QED BY <1>2, <1>3, <1>4 DEF OwnWords

(* A text is given a number that no other has. *)
LEMMA NewWord ==
  ASSUME TypeOK, OwnWords, NEW d \in Device, SendText(d)
  PROVE  OwnWords'
<1>1. /\ store' = store /\ wire' = wire /\ erased' = erased /\ cmd[d] = Rest
      /\ cmd'[d].mid = commands + 1 /\ cmd'[d].deletes = {} /\ commands' = commands + 1
      /\ \A e \in Device \ {d} : cmd'[e] = cmd[e]
  BY SendTextDoes
<1>2. Peer(d) \in Device /\ Peer(d) # d /\ Peer(Peer(d)) = d /\ \A e \in Device : e = d \/ e = Peer(d)
  BY Peers
<1>3. Given(cmd'[d]) \subseteq {commands + 1}
  BY <1>1, GivenForms
<1>4. Inherits(d, {commands + 1}) /\ Inherits(Peer(d), {})
  BY <1>1, <1>2, <1>3 DEF Inherits
<1>5. commands \in Nat /\ erased \subseteq Nat /\ \A x \in erased : x <= commands
  BY Bounds DEF TypeOK, OwnWords
<1>6. /\ Written(A)' \cap Written(B)' = {}
      /\ \A e \in Device : \A x \in Written(e)' : x <= commands'
  <2>1. commands' \in Nat /\ commands <= commands' /\ \A x \in {commands + 1} : x = commands' /\ x > commands
    BY <1>1, <1>5
  <2> QED BY <1>4, <2>1, StillSeparate
<1>7. \A x \in erased' : x <= commands'
  BY <1>1, <1>5
<1>8. ASSUME NEW e \in Device PROVE cmd'[e].mid \notin erased \cup {r.mid : r \in Own(e)}
  <2>1. CASE e = d
    <3>1. commands + 1 \notin erased
      BY <1>5
    <3>2. \A r \in Own(d) : r.mid \in Written(d)
      BY WordForms DEF Own
    <3>3. \A r \in Own(d) : r.mid <= commands /\ r.mid \in Nat
      BY <3>2, RecordForms, Bounds DEF OwnWords, TypeOK, Own
    <3> QED BY <1>1, <1>5, <2>1, <3>1, <3>3
  <2>2. CASE e # d
    BY <1>1, <2>2 DEF OwnWords
  <2> QED BY <2>1, <2>2
<1>9. \A e \in Device : Own(e)' = Own(e) /\ cmd'[e].deletes \subseteq cmd[e].deletes
  BY <1>1, RestForm DEF Own
<1>10. \A e \in Device :
         /\ cmd'[e].mid \notin erased' \cup {r.mid : r \in Own(e)'}
         /\ cmd'[e].deletes \subseteq erased' /\ \A m \in wire'[e] : m.deletes \subseteq erased'
         /\ \A r, q \in Own(e)' : r.mid = q.mid => r = q
         /\ \A r \in Own(e)' : r.mid \notin erased'
  BY <1>1, <1>8, <1>9 DEF OwnWords
<1> QED BY <1>6, <1>7, <1>10 DEF OwnWords

(* Its author keeps one record of it. *)
LEMMA WordKept ==
  ASSUME TypeOK, Shaped, OwnWords, NEW d \in Device, Record(d)
  PROVE  OwnWords'
<1>1. /\ wire' = wire /\ erased' = erased /\ commands' = commands /\ cmd[d].op = "text" /\ cmd'[d] = Rest
      /\ \A e \in Device \ {d} : cmd'[e] = cmd[e] /\ store'[e] = store[e]
  BY RecordDoes
<1>2. PICK r : r.mine = TRUE /\ r.mid = cmd[d].mid /\ store'[d] \subseteq store[d] \cup {r}
  BY RecordDoes
<1>3. Peer(d) \in Device /\ Peer(d) # d /\ Peer(Peer(d)) = d /\ \A e \in Device : e = d \/ e = Peer(d)
  BY Peers
<1>4. r.mid \in Given(cmd[d])
  BY <1>1, <1>2, GivenForms DEF Shaped
<1>5. Inherits(d, {}) /\ Inherits(Peer(d), {})
  <2>1. Inherits(d, {})
    BY <1>1, <1>2, <1>3, <1>4, GivenForms DEF Inherits
  <2>2. Inherits(Peer(d), {})
    BY <1>1, <1>2, <1>3 DEF Inherits
  <2> QED BY <2>1, <2>2
<1>6. /\ Written(A)' \cap Written(B)' = {}
      /\ \A e \in Device : \A x \in Written(e)' : x <= commands'
  <2>1. commands' \in Nat /\ commands <= commands'
    BY <1>1, Bounds DEF TypeOK
  <2> QED BY <1>5, <2>1, StillSeparate
<1>7. \A x \in erased' : x <= commands'
  BY <1>1 DEF OwnWords
<1>8. Own(d)' \subseteq Own(d) \cup {r} /\ Own(Peer(d))' = Own(Peer(d))
  BY <1>1, <1>2, <1>3 DEF Own
<1>9. r.mid \notin erased \cup {q.mid : q \in Own(d)}
  BY <1>2 DEF OwnWords
<1>10. NoMid \notin erased /\ r.mid # NoMid /\ \A q \in Own(d) : q.mid # NoMid
  <2>1. \A q \in Own(d) : q.mid # NoMid
    BY Bounds, RecordForms DEF TypeOK, Own
  <2> QED BY <1>1, <1>2, <2>1, Bounds DEF TypeOK, Shaped
<1>11. /\ cmd'[d].mid \notin erased' \cup {q.mid : q \in Own(d)'}
       /\ cmd'[d].deletes \subseteq erased' /\ \A m \in wire'[d] : m.deletes \subseteq erased'
  BY <1>1, <1>8, <1>10, RestForm DEF OwnWords
<1>12. \A q, v \in Own(d)' : q.mid = v.mid => q = v
  BY <1>8, <1>9 DEF OwnWords
<1>13. \A q \in Own(d)' : q.mid \notin erased'
  BY <1>1, <1>8, <1>9 DEF OwnWords
<1>14. /\ cmd'[Peer(d)].mid \notin erased' \cup {q.mid : q \in Own(Peer(d))'}
       /\ cmd'[Peer(d)].deletes \subseteq erased' /\ \A m \in wire'[Peer(d)] : m.deletes \subseteq erased'
       /\ \A q, v \in Own(Peer(d))' : q.mid = v.mid => q = v
       /\ \A q \in Own(Peer(d))' : q.mid \notin erased'
  BY <1>1, <1>3, <1>8 DEF OwnWords
<1> QED BY <1>3, <1>6, <1>7, <1>11, <1>12, <1>13, <1>14 DEF OwnWords

(* What its author deletes is his own, and all that has its number. *)
LEMMA WordsErased ==
  ASSUME TypeOK, OwnWords, NEW d \in Device, Delete(d)
  PROVE  OwnWords'
<1>1. /\ wire' = wire /\ cmd[d] = Rest /\ cmd'[d].mid = NoMid /\ commands' = commands + 1
      /\ \A e \in Device \ {d} : cmd'[e] = cmd[e] /\ store'[e] = store[e]
  BY DeleteDoes
<1>2. PICK victims \in SUBSET Own(d) :
        /\ store' = [store EXCEPT ![d] = @ \ victims]
        /\ cmd'[d].deletes = {r.mid : r \in victims} /\ erased' = erased \cup {r.mid : r \in victims}
  BY DeleteDoes
<1> DEFINE mids == {r.mid : r \in victims}
<1>3. Peer(d) \in Device /\ Peer(d) # d /\ Peer(Peer(d)) = d /\ \A e \in Device : e = d \/ e = Peer(d)
  BY Peers
<1>4. /\ \A x \in mids : \E r \in store[d] : r.mine /\ x = r.mid
      /\ \A r \in victims : r.mid \in mids
      /\ cmd'[d].deletes = mids /\ erased' = erased \cup mids
  BY <1>2 DEF Own
<1>5. store'[d] = store[d] \ victims
  BY <1>2 DEF TypeOK
<1> HIDE DEF mids
<1>6. Given(cmd'[d]) = mids
  BY <1>1, <1>4 DEF Given
<1>7. mids \subseteq Written(d) /\ mids \subseteq Mids
  BY <1>4, WordForms, WordsTyped
<1>8. Inherits(d, {}) /\ Inherits(Peer(d), {})
  <2>1. Inherits(d, {})
    BY <1>1, <1>3, <1>4, <1>5, <1>6 DEF Inherits
  <2>2. Inherits(Peer(d), {})
    BY <1>1, <1>3, <1>5 DEF Inherits
  <2> QED BY <2>1, <2>2
<1>9. commands \in Nat /\ erased \subseteq Nat /\ (\A x \in erased : x <= commands)
      /\ (\A x \in Written(d) : x <= commands) /\ mids \subseteq Nat
  BY <1>7, Bounds DEF TypeOK, OwnWords
<1>10. /\ Written(A)' \cap Written(B)' = {}
       /\ \A e \in Device : \A x \in Written(e)' : x <= commands'
  <2>1. commands' \in Nat /\ commands <= commands'
    BY <1>1, <1>9
  <2> QED BY <1>8, <2>1, StillSeparate
<1>11. \A x \in erased' : x <= commands'
  <2> TAKE x \in erased'
  <2>1. x \in Nat /\ x <= commands
    BY <1>4, <1>7, <1>9
  <2> QED BY <1>1, <1>9, <2>1
<1>12. Own(d)' = Own(d) \ victims /\ Own(Peer(d))' = Own(Peer(d))
  BY <1>1, <1>3, <1>5 DEF Own
<1>13. Written(Peer(d)) \cap mids = {}
  BY <1>7, Separate
<1>14. NoMid \notin erased' /\ \A r \in Own(d) : r.mid # NoMid
  <2>1. \A r \in Own(d) : r.mid # NoMid
    BY Bounds, RecordForms DEF TypeOK, Own
  <2> QED BY <1>4, <1>7, <2>1, Bounds DEF TypeOK
<1>15. /\ cmd'[d].mid \notin erased' \cup {r.mid : r \in Own(d)'}
       /\ cmd'[d].deletes \subseteq erased' /\ \A m \in wire'[d] : m.deletes \subseteq erased'
       /\ \A r, q \in Own(d)' : r.mid = q.mid => r = q
  BY <1>1, <1>4, <1>12, <1>14 DEF OwnWords
<1>16. \A r \in Own(d)' : r.mid \notin erased'
  <2> TAKE r \in Own(d)'
  <2>1. r \in Own(d) /\ r \notin victims /\ r.mid \notin erased
    BY <1>12 DEF OwnWords
  <2>2. r.mid \notin mids
    <3> SUFFICES ASSUME r.mid \in mids PROVE FALSE
      OBVIOUS
    <3>1. PICK q \in victims : q.mid = r.mid
      BY DEF mids
    <3>2. q \in Own(d)
      BY <1>2
    <3>3. q = r
      BY <2>1, <3>1, <3>2 DEF OwnWords
    <3> QED BY <2>1, <3>1, <3>3
  <2> QED BY <1>4, <2>1, <2>2
<1>17. \A r \in Own(Peer(d)) : r.mid \in Written(Peer(d))
  BY <1>3, WordForms DEF Own
<1>18. cmd[Peer(d)].mid \notin mids
  <2>1. cmd[Peer(d)].mid # NoMid => cmd[Peer(d)].mid \in Written(Peer(d))
    BY <1>3, WordForms, GivenForms
  <2> QED BY <1>4, <1>13, <1>14, <2>1
<1>19. /\ cmd'[Peer(d)].mid \notin erased' \cup {r.mid : r \in Own(Peer(d))'}
       /\ cmd'[Peer(d)].deletes \subseteq erased' /\ \A m \in wire'[Peer(d)] : m.deletes \subseteq erased'
       /\ \A r, q \in Own(Peer(d))' : r.mid = q.mid => r = q
       /\ \A r \in Own(Peer(d))' : r.mid \notin erased'
  <2>1. /\ cmd[Peer(d)].mid \notin erased \cup {r.mid : r \in Own(Peer(d))}
        /\ cmd[Peer(d)].deletes \subseteq erased /\ \A m \in wire[Peer(d)] : m.deletes \subseteq erased
        /\ \A r, q \in Own(Peer(d)) : r.mid = q.mid => r = q
        /\ \A r \in Own(Peer(d)) : r.mid \notin erased
    BY <1>3 DEF OwnWords
  <2>2. \A r \in Own(Peer(d)) : r.mid \notin erased'
    BY <1>4, <1>13, <1>17, <2>1
  <2> QED BY <1>1, <1>3, <1>4, <1>12, <1>18, <2>1, <2>2
<1> QED BY <1>3, <1>10, <1>11, <1>15, <1>16, <1>19 DEF OwnWords

LEMMA OwnWordsStep ==
  ASSUME TypeOK, Shaped, OwnWords, Next
  PROVE  OwnWords'
<1>1. commands \in Nat /\ commands + 1 \in Nat /\ commands <= commands /\ commands <= commands + 1
  BY DEF TypeOK
<1>2. Rest.mid = NoMid /\ Rest.deletes = {}
  BY RestForm
<1>3. ASSUME NEW d \in Device, NEW seconds \in Settings, SetTimer(d, seconds) PROVE OwnWords'
  <2>1. PassesOn
    BY <1>1, <1>3, SetTimerDoes DEF PassesOn
  <2> QED BY <2>1, PassedOn
<1>4. ASSUME NEW d \in Device, PurgeNow(d) \/ \E seconds \in Settings : PurgeSet(d, seconds)
      PROVE  OwnWords'
  <2>1. PassesOn
    BY <1>1, <1>4, PurgeDoes DEF PassesOn
  <2> QED BY <2>1, PassedOn
<1>5. ASSUME NEW d \in Device, Ask(d) PROVE OwnWords'
  <2>1. PassesOn
    BY <1>1, <1>5, AskDoes DEF PassesOn
  <2> QED BY <2>1, PassedOn
<1>6. ASSUME NEW d \in Device, Goes(d) \/ wire' = wire
      PROVE  \A e \in Device : \A m \in wire'[e] :
               m \in wire[e] \/ (m.deletes = cmd[Peer(e)].deletes /\ m.mid = cmd[Peer(e)].mid)
  <2>1. CASE Goes(d)
    <3>1. wire'[Peer(d)] = wire[Peer(d)] \cup {Message(d)} /\ wire'[d] = wire[d]
      BY <2>1, Going
    <3> QED BY <3>1, Peers, Sent
  <2>2. CASE wire' = wire
    BY <2>2
  <2> QED BY <1>6, <2>1, <2>2
<1>7. ASSUME NEW d \in Device, Post(d) PROVE OwnWords'
  <2>1. /\ erased' = erased /\ commands' = commands /\ \A e \in Device : store'[e] \subseteq store[e]
        /\ Goes(d) /\ \A e \in Device \ {d} : cmd'[e] = cmd[e]
    BY <1>7, PostDoes
  <2>2. cmd'[d].mid \in {cmd[d].mid, NoMid} /\ cmd'[d].deletes \subseteq cmd[d].deletes
    BY <1>2, <1>7, PostDoes
  <2>3. PassesOn
    BY <1>1, <1>6, <2>1, <2>2 DEF PassesOn
  <2> QED BY <2>3, PassedOn
<1>8. ASSUME NEW d \in Device, PostFails(d) PROVE OwnWords'
  <2>1. /\ erased' = erased /\ commands' = commands /\ store' = store
        /\ (Goes(d) \/ wire' = wire) /\ cmd'[d] = Rest /\ \A e \in Device \ {d} : cmd'[e] = cmd[e]
    BY <1>8, PostFailsDoes
  <2>2. PassesOn
    BY <1>1, <1>2, <1>6, <2>1 DEF PassesOn
  <2> QED BY <2>2, PassedOn
<1>9. ASSUME NEW d \in Device, Deliver(d) PROVE OwnWords'
  <2>1. PICK m : Taken(d, m)
    BY <1>9, DeliverDoes
  <2>2. /\ erased' = erased /\ commands' = commands /\ cmd' = cmd /\ m \in wire[d]
        /\ \A e \in Device : wire'[e] \subseteq wire[e]
        /\ \A e \in Device \ {d} : store'[e] = store[e]
        /\ \A r \in store'[d] : r \in store[d] \/ Fresh(d, m, r)
    BY <2>1 DEF Taken
  <2>3. \A r : Fresh(d, m, r) => ~r.mine /\ r.mid \in Given(m)
    BY DEF Fresh, Given
  <2>4. PassesOn
    BY <1>1, <2>2, <2>3 DEF PassesOn
  <2> QED BY <2>4, PassedOn
<1>10. ASSUME NEW d \in Device, SetClock(d) PROVE OwnWords'
  <2>1. PassesOn
    BY <1>1, <1>10, SetClockDoes DEF PassesOn
  <2> QED BY <2>1, PassedOn
<1>11. ASSUME NEW d \in Device, Close(d) PROVE OwnWords'
  <2>1. PassesOn
    BY <1>1, <1>2, <1>11, CloseDoes DEF PassesOn
  <2> QED BY <2>1, PassedOn
<1>12. ASSUME Tick PROVE OwnWords'
  <2>1. PassesOn
    BY <1>1, <1>12, TickDoes DEF PassesOn
  <2> QED BY <2>1, PassedOn
<1> QED BY <1>3, <1>4, <1>5, <1>7, <1>8, <1>9, <1>10, <1>11, <1>12, NewWord, WordKept, WordsErased
        DEF Next, Settings

-----------------------------------------------------------------------------
(* The deletions. *)

LEMMA AskedForms ==
  ASSUME NEW d \in Device, NEW x
  PROVE  /\ x \in Asked(d) => x \in cmd[d].deletes \/ \E m \in wire[Peer(d)] : x \in m.deletes
         /\ x \in cmd'[d].deletes \/ (\E m \in wire'[Peer(d)] : x \in m.deletes) => x \in Asked(d)'
<1>1. x \in UNION {m.deletes : m \in wire[Peer(d)]} => \E m \in wire[Peer(d)] : x \in m.deletes
  OBVIOUS
<1>2. (\E m \in wire'[Peer(d)] : x \in m.deletes) => x \in UNION {m.deletes : m \in wire'[Peer(d)]}
  OBVIOUS
<1> QED BY <1>1, <1>2 DEF Asked

(* The steps in which nothing is deleted or read. *)
StillAsks ==
  /\ erased' = erased /\ untold \subseteq untold'
  /\ \A d \in Device :
       /\ \A r \in store'[d] : r.mine \/ r \in store[d]
       /\ wire[d] \subseteq wire'[d] /\ \A m \in wire'[d] : m \in wire[d] \/ m.mid \notin erased
       /\ \A x \in cmd[d].deletes :
            x \in cmd'[d].deletes \/ x \in untold' \/ \E m \in wire'[Peer(d)] : x \in m.deletes

LEMMA AskedStill ==
  ASSUME DeletionUnderWay, StillAsks
  PROVE  DeletionUnderWay'
<1>1. ASSUME NEW d \in Device, NEW x \in Asked(d), x \notin untold'
      PROVE  x \in Asked(d)'
  <2>1. x \in cmd[d].deletes \/ \E m \in wire[Peer(d)] : x \in m.deletes
    BY <1>1, AskedForms
  <2>2. x \in cmd'[d].deletes \/ \E m \in wire'[Peer(d)] : x \in m.deletes
    BY <1>1, <2>1, Peers DEF StillAsks
  <2> QED BY <1>1, <2>2, AskedForms
<1>2. ASSUME NEW d \in Device
      PROVE  /\ \A r \in store'[Peer(d)] : ~r.mine /\ r.mid \in erased' \ untold' => r.mid \in Asked(d)'
             /\ \A m \in wire'[Peer(d)] : m.mid \in erased' \ untold' => m.mid \in Asked(d)'
  <2>1. Peer(d) \in Device
    BY Peers
  <2>2. /\ \A r \in store[Peer(d)] : ~r.mine /\ r.mid \in erased \ untold => r.mid \in Asked(d)
        /\ \A m \in wire[Peer(d)] : m.mid \in erased \ untold => m.mid \in Asked(d)
    BY DEF DeletionUnderWay
  <2> QED BY <1>1, <2>1, <2>2 DEF StillAsks
<1> QED BY <1>2 DEF DeletionUnderWay

LEMMA DeletionBegins ==
  ASSUME TypeOK, OwnWords, DeletionUnderWay, NEW d \in Device, Delete(d)
  PROVE  DeletionUnderWay'
<1>1. /\ wire' = wire /\ untold' = untold /\ cmd[d] = Rest
      /\ store'[d] \subseteq store[d]
      /\ \A e \in Device \ {d} : cmd'[e] = cmd[e] /\ store'[e] = store[e]
  BY DeleteDoes
<1>2. PICK victims \in SUBSET Own(d) :
        cmd'[d].deletes = {r.mid : r \in victims} /\ erased' = erased \cup {r.mid : r \in victims}
  BY DeleteDoes
<1> DEFINE mids == {r.mid : r \in victims}
<1>3. Peer(d) \in Device /\ Peer(d) # d /\ Peer(Peer(d)) = d /\ \A e \in Device : e = d \/ e = Peer(d)
  BY Peers
<1>4. /\ \A x \in mids : \E r \in store[d] : r.mine /\ x = r.mid
      /\ cmd'[d].deletes = mids /\ erased' = erased \cup mids
  BY <1>2 DEF Own
<1> HIDE DEF mids
<1>5. mids \subseteq Written(d)
  BY <1>4, WordForms
<1>6. Written(Peer(d)) \cap mids = {}
  BY <1>5, Separate
<1>7. ASSUME NEW e \in Device, NEW x \in Asked(e) PROVE x \in Asked(e)'
  <2>1. x \in cmd[e].deletes \/ \E m \in wire[Peer(e)] : x \in m.deletes
    BY <1>7, AskedForms
  <2>2. x \in cmd'[e].deletes \/ \E m \in wire'[Peer(e)] : x \in m.deletes
    BY <1>1, <2>1, RestForm
  <2> QED BY <2>2, AskedForms
<1>8. \A x \in mids : x \in Asked(d)'
  BY <1>4, AskedForms
<1>9. \A e \in Device :
        /\ \A r \in store[Peer(e)] : ~r.mine /\ r.mid \in erased \ untold => r.mid \in Asked(e)
        /\ \A m \in wire[Peer(e)] : m.mid \in erased \ untold => m.mid \in Asked(e)
  BY DEF DeletionUnderWay
<1>10. /\ \A r \in store'[Peer(d)] : ~r.mine /\ r.mid \in erased' \ untold' => r.mid \in Asked(d)'
       /\ \A m \in wire'[Peer(d)] : m.mid \in erased' \ untold' => m.mid \in Asked(d)'
  BY <1>1, <1>3, <1>4, <1>7, <1>8, <1>9
<1>11. \A r \in store[d] : ~r.mine => r.mid \in Written(Peer(d))
  BY <1>3, WordForms
<1>12. \A m \in wire[d] : m.mid \in mids => m.mid \in Written(Peer(d))
  <2> TAKE m \in wire[d]
  <2> HAVE m.mid \in mids
  <2>1. mids \subseteq Mids
    BY <1>5, WordsTyped
  <2>2. m.mid \in Given(m)
    BY <2>1, Bounds DEF Given
  <2> QED BY <1>3, <2>2, WordForms
<1>13. /\ \A r \in store'[d] : ~r.mine /\ r.mid \in erased' \ untold' => r.mid \in Asked(Peer(d))'
       /\ \A m \in wire'[d] : m.mid \in erased' \ untold' => m.mid \in Asked(Peer(d))'
  <2>1. /\ \A r \in store[d] : ~r.mine /\ r.mid \in erased \ untold => r.mid \in Asked(Peer(d))
        /\ \A m \in wire[d] : m.mid \in erased \ untold => m.mid \in Asked(Peer(d))
    BY <1>3, <1>9
  <2> QED BY <1>1, <1>3, <1>4, <1>6, <1>7, <1>11, <1>12, <2>1
<1> QED BY <1>3, <1>10, <1>13 DEF DeletionUnderWay

LEMMA DeletionRead ==
  ASSUME TypeOK, Shaped, DeletionUnderWay, NEW d \in Device, Deliver(d)
  PROVE  DeletionUnderWay'
<1>1. PICK m : Taken(d, m)
  BY DeliverDoes
<1>2. /\ m \in wire[d] /\ cmd' = cmd /\ erased' = erased
      /\ untold' = untold \cup (m.deletes \cap {w.mid : w \in wire[d]})
      /\ wire'[d] = wire[d] \ {m}
      /\ \A e \in Device \ {d} : wire'[e] = wire[e] /\ store'[e] = store[e]
      /\ \A r \in store'[d] : (r \in store[d] /\ (r.mine \/ r.mid \notin m.deletes)) \/ Fresh(d, m, r)
  BY <1>1 DEF Taken
<1>3. Peer(d) \in Device /\ Peer(d) # d /\ Peer(Peer(d)) = d /\ \A e \in Device : e = d \/ e = Peer(d)
  BY Peers
<1>4. ASSUME NEW x \in Asked(Peer(d)), x \notin m.deletes PROVE x \in Asked(Peer(d))'
  <2>1. x \in cmd[Peer(d)].deletes \/ \E w \in wire[d] : x \in w.deletes
    BY <1>3, <1>4, AskedForms
  <2>2. x \in cmd'[Peer(d)].deletes \/ \E w \in wire'[d] : x \in w.deletes
    BY <1>2, <1>4, <2>1
  <2> QED BY <1>3, <2>2, AskedForms
<1>5. ASSUME NEW x \in Asked(d) PROVE x \in Asked(d)'
  <2>1. x \in cmd[d].deletes \/ \E w \in wire[Peer(d)] : x \in w.deletes
    BY <1>5, AskedForms
  <2>2. x \in cmd'[d].deletes \/ \E w \in wire'[Peer(d)] : x \in w.deletes
    BY <1>2, <1>3, <2>1
  <2> QED BY <2>2, AskedForms
<1>6. /\ \A r \in store'[Peer(d)] : ~r.mine /\ r.mid \in erased' \ untold' => r.mid \in Asked(d)'
      /\ \A w \in wire'[Peer(d)] : w.mid \in erased' \ untold' => w.mid \in Asked(d)'
  <2>1. /\ \A r \in store[Peer(d)] : ~r.mine /\ r.mid \in erased \ untold => r.mid \in Asked(d)
        /\ \A w \in wire[Peer(d)] : w.mid \in erased \ untold => w.mid \in Asked(d)
    BY DEF DeletionUnderWay
  <2> QED BY <1>2, <1>3, <1>5, <2>1
<1>7. /\ \A r \in store[d] : ~r.mine /\ r.mid \in erased \ untold => r.mid \in Asked(Peer(d))
      /\ \A w \in wire[d] : w.mid \in erased \ untold => w.mid \in Asked(Peer(d))
  BY <1>3 DEF DeletionUnderWay
<1>8. \A w \in wire'[d] : w.mid \in erased' \ untold' => w.mid \in Asked(Peer(d))'
  BY <1>2, <1>4, <1>7
<1>9. ASSUME NEW r \in store'[d], ~r.mine, r.mid \in erased' \ untold'
      PROVE  r.mid \in Asked(Peer(d))'
  <2>1. CASE r \in store[d] /\ r.mid \notin m.deletes
    BY <1>2, <1>4, <1>7, <1>9, <2>1
  <2>2. CASE Fresh(d, m, r)
    <3>1. r.mid = m.mid /\ m.mid # NoMid
      BY <2>2 DEF Fresh
    <3>2. m.deletes = {}
      BY <1>2, <3>1 DEF Shaped
    <3> QED BY <1>2, <1>4, <1>7, <1>9, <3>1, <3>2
  <2> QED BY <1>2, <1>9, <2>1, <2>2
<1> QED BY <1>3, <1>6, <1>8, <1>9 DEF DeletionUnderWay

LEMMA DeletionStep ==
  ASSUME TypeOK, Shaped, OwnWords, DeletionUnderWay, Next
  PROVE  DeletionUnderWay'
<1>1. Rest.deletes = {}
  BY RestForm
<1>2. ASSUME NEW d \in Device, SendText(d) PROVE StillAsks
  BY <1>1, <1>2, SendTextDoes DEF StillAsks
<1>3. ASSUME NEW d \in Device, NEW seconds \in Settings, SetTimer(d, seconds) PROVE StillAsks
  BY <1>1, <1>3, SetTimerDoes DEF StillAsks
<1>4. ASSUME NEW d \in Device, PurgeNow(d) \/ \E seconds \in Settings : PurgeSet(d, seconds)
      PROVE  StillAsks
  BY <1>4, PurgeDoes DEF StillAsks
<1>5. ASSUME NEW d \in Device, Ask(d) PROVE StillAsks
  BY <1>5, AskDoes DEF StillAsks
<1>6. ASSUME NEW d \in Device, Goes(d)
      PROVE  /\ \A e \in Device : wire[e] \subseteq wire'[e] /\ \A m \in wire'[e] : m \in wire[e] \/ m.mid \notin erased
             /\ \A x \in cmd[d].deletes : \E m \in wire'[Peer(d)] : x \in m.deletes
  <2>1. wire'[Peer(d)] = wire[Peer(d)] \cup {Message(d)} /\ wire'[d] = wire[d]
    BY <1>6, Going
  <2>2. Message(d).mid \notin erased /\ Message(d).deletes = cmd[d].deletes
    BY Sent DEF OwnWords
  <2> QED BY <2>1, <2>2, Peers
<1>7. ASSUME NEW d \in Device, Post(d) PROVE StillAsks
  <2>1. /\ erased' = erased /\ untold' = untold /\ Goes(d)
        /\ \A e \in Device : store'[e] \subseteq store[e]
        /\ \A e \in Device \ {d} : cmd'[e] = cmd[e]
    BY <1>7, PostDoes
  <2> QED BY <1>6, <2>1 DEF StillAsks
<1>8. ASSUME NEW d \in Device, PostFails(d) PROVE StillAsks
  <2>1. /\ erased' = erased /\ store' = store /\ \A e \in Device \ {d} : cmd'[e] = cmd[e]
        /\ \/ Goes(d) /\ untold' = untold
           \/ wire' = wire /\ Unsent(d)
    BY <1>8, PostFailsDoes
  <2>2. CASE Goes(d) /\ untold' = untold
    BY <1>6, <2>1, <2>2 DEF StillAsks
  <2>3. CASE wire' = wire /\ Unsent(d)
    BY <2>1, <2>3 DEF StillAsks, Unsent
  <2> QED BY <2>1, <2>2, <2>3
<1>9. ASSUME NEW d \in Device, Record(d) PROVE StillAsks
  <2>1. /\ erased' = erased /\ untold' = untold /\ wire' = wire /\ cmd[d].op = "text"
        /\ \A e \in Device \ {d} : cmd'[e] = cmd[e] /\ store'[e] = store[e]
    BY <1>9, RecordDoes
  <2>2. cmd[d].deletes = {}
    BY <2>1 DEF Shaped
  <2>3. \A r \in store'[d] : r.mine \/ r \in store[d]
    BY <1>9, RecordDoes
  <2> QED BY <2>1, <2>2, <2>3 DEF StillAsks
<1>10. ASSUME NEW d \in Device, SetClock(d) PROVE StillAsks
  BY <1>10, SetClockDoes DEF StillAsks
<1>11. ASSUME NEW d \in Device, Close(d) PROVE StillAsks
  BY <1>11, CloseDoes DEF StillAsks, Unsent
<1>12. ASSUME Tick PROVE StillAsks
  BY <1>12, TickDoes DEF StillAsks
<1> QED BY <1>2, <1>3, <1>4, <1>5, <1>7, <1>8, <1>9, <1>10, <1>11, <1>12, AskedStill, DeletionBegins,
           DeletionRead DEF Next, Settings

-----------------------------------------------------------------------------
(* All of it together. *)

LEMMA InitHolds ==
  ASSUME Init
  PROVE  IInv
<1>1. TypeOK /\ Shaped
  BY InitTyped
<1>2. /\ turned = {} /\ erased = {} /\ clock = 0 /\ commands = 0
      /\ \A d \in Device : /\ store[d] = {} /\ wire[d] = {} /\ lastTs[d] = 0
                         /\ timer[d] = Off /\ cmd[d] = Rest
  BY DEF Init
<1>3. TranscriptInOrder /\ HonestTimesKept /\ LeftInOrder
  BY <1>2 DEF TranscriptInOrder, HonestTimesKept, LeftInOrder
<1>4. FloorHolds
  BY <1>1, <1>2, NowTyped, Bounds DEF FloorHolds
<1>5. DatedWhenLeft
  <2>1. \A d \in Device : Now(Peer(d)) \in Nat /\ Behind(d) \in Nat
    <3> TAKE d \in Device
    <3>1. Peer(d) \in Device
      BY Peers
    <3>2. ahead[d] \in Nat /\ ahead[Peer(d)] \in Nat
      BY <1>1, <3>1, Bounds DEF TypeOK
    <3> QED BY <1>1, <3>1, <3>2, NowTyped DEF Behind, AtLeast
  <2> QED BY <1>2, <2>1, RestForm DEF DatedWhenLeft
<1>6. TimersTold
  <2>1. A \in Device /\ B \in Device
    BY DEF Device
  <2> QED BY <1>2, <2>1, Bounds DEF TimersTold
<1>7. \A d \in Device : Written(d) = {} /\ Own(d) = {}
  BY <1>2, Peers, GivenForms DEF Written, Own
<1>8. OwnWords
  <2>1. A \in Device
    BY DEF Device
  <2> QED BY <1>2, <1>7, <2>1, RestForm DEF OwnWords
<1>9. DeletionUnderWay
  BY <1>2, Peers DEF DeletionUnderWay
<1> QED BY <1>1, <1>3, <1>4, <1>5, <1>6, <1>8, <1>9 DEF IInv

LEMMA NextHolds ==
  ASSUME IInv, Next
  PROVE  IInv'
<1> USE DEF IInv
<1>1. TypeOK' /\ Shaped'
  BY TypeOKStep, ShapedStep
<1>2. TranscriptInOrder' /\ FloorHolds'
  BY OrderStep
<1>3. LeftInOrder' /\ DatedWhenLeft' /\ HonestTimesKept'
  BY LeftStep, HonestStep
<1>4. TimersTold' /\ OwnWords' /\ DeletionUnderWay'
  BY TimersStep, OwnWordsStep, DeletionStep
<1> QED BY <1>1, <1>2, <1>3, <1>4

LEMMA StutterHolds ==
  ASSUME IInv, UNCHANGED vars
  PROVE  IInv'
<1>1. UNCHANGED <<timer, cap, store, ns, heard, lastTs, wire, cmd, clock, ahead, turned, erased,
                  untold, crossed, commands, faults>>
  BY DEF vars, session, time
<1>2. TypeOK' /\ Shaped'
  BY <1>1 DEF IInv, TypeOK, Shaped
<1>3. TranscriptInOrder' /\ FloorHolds' /\ LeftInOrder'
  BY <1>1 DEF IInv, TranscriptInOrder, FloorHolds, LeftInOrder, Now
<1>4. DatedWhenLeft' /\ HonestTimesKept'
  BY <1>1 DEF IInv, DatedWhenLeft, HonestTimesKept, Now, Behind
<1>5. TimersTold'
  BY <1>1 DEF IInv, TimersTold, Newest, Unheard, Telling
<1>6. OwnWords' /\ DeletionUnderWay'
  BY <1>1 DEF IInv, OwnWords, DeletionUnderWay, Written, Own, Asked
<1> QED BY <1>2, <1>3, <1>4, <1>5, <1>6 DEF IInv

(* The strengthening holds in every reachable state. *)
THEOREM TranscriptHolds == Spec => []IInv
<1>1. Init => IInv
  BY InitHolds
<1>2. IInv /\ [Next]_vars => IInv'
  BY NextHolds, StutterHolds
<1> QED BY <1>1, <1>2, PTL DEF Spec

(* The types; no time shown is further ahead than a fast clock may say. *)
THEOREM TranscriptTyped == Spec => []TypeOK
<1>1. IInv => TypeOK
  BY DEF IInv
<1> QED BY <1>1, TranscriptHolds, PTL

(* What the peer wrote later is not shown before what it wrote earlier
   (records.ts:161). *)
THEOREM TheOrderHolds == Spec => []TranscriptInOrder
<1>1. IInv => TranscriptInOrder
  BY DEF IInv
<1> QED BY <1>1, TranscriptHolds, PTL

(* A message is shown under its sender's own time, however long it waited
   (messaging.ts:765). *)
THEOREM TimesAreHonest == Spec => []HonestTimesKept
<1>1. IInv => HonestTimesKept
  BY DEF IInv
<1> QED BY <1>1, TranscriptHolds, PTL

(* Once all is delivered both ends have the same timer, unless two crossed
   (lifecycle.ts:90). *)
THEOREM TimersComeToAgree == Spec => []TimersAgree
<1>1. IInv => TimersAgree
  <2> SUFFICES ASSUME IInv, Quiet, ~crossed PROVE timer[A] = timer[B]
    BY DEF TimersAgree
  <2>1. \A d \in Device : ~Telling(d) /\ Unheard(d) = {}
    BY RestForm DEF Quiet, Telling, Unheard
  <2> QED BY <2>1 DEF IInv, TimersTold
<1> QED BY <1>1, TranscriptHolds, PTL

(* Once all is delivered a message its author deleted is nowhere, unless the
   peer was not told (lifecycle.ts:177). *)
THEOREM DeletedIsGone == Spec => []DeletedEverywhere
<1>1. IInv => DeletedEverywhere
  <2> SUFFICES ASSUME IInv, Quiet, NEW d \in Device, NEW r \in store[d], r.mid \in erased \ untold
               PROVE  FALSE
    BY DEF DeletedEverywhere
  <2>1. CASE r.mine
    BY <2>1 DEF IInv, OwnWords, Own
  <2>2. CASE ~r.mine
    <3>1. Peer(d) \in Device /\ Peer(Peer(d)) = d
      BY Peers
    <3>2. r.mid \in Asked(Peer(d))
      BY <2>2, <3>1 DEF IInv, DeletionUnderWay
    <3>3. r.mid \in cmd[Peer(d)].deletes \/ \E m \in wire[d] : r.mid \in m.deletes
      BY <3>1, <3>2, AskedForms
    <3> QED BY <3>1, <3>3, RestForm DEF Quiet
  <2> QED BY <2>1, <2>2
<1> QED BY <1>1, TranscriptHolds, PTL

(* What a step does to the texts on their way and to the records that are
   there. *)
HeldStep ==
  \A d \in Device :
    /\ \A m \in wire[d] \ wire'[d] : m.mid # NoMid => \E r \in store'[d] : r.mid = m.mid
    /\ d \notin turned => \A r \in store[d] \ store'[d] :
         \/ PurgeNow(d) \/ r.mid \in erased'
         \/ r.kept # Off /\ Now(d) - r.at >= r.kept
         \/ cap'[d] # Off /\ Now(d) - r.at >= cap'[d]

(* What has expired has been held for its timer or the cap; what was just read
   has not expired. *)
LEMMA ExpiredForms ==
  ASSUME TypeOK, NEW d \in Device, cap'[d] \in Settings, NEW r \in RecordType,
         r.due = Deadline(r.ts, r.at, r.kept), Expired(d, r)
  PROVE  /\ \/ r.kept # Off /\ Now(d) - r.at >= r.kept
            \/ cap'[d] # Off /\ Now(d) - r.at >= cap'[d]
         /\ r.at # Now(d)
<1>1. r.at \in Nat /\ r.kept \in Nat /\ cap'[d] \in Nat /\ Now(d) \in Nat /\ Off = 0
  BY RecordForms, NowTyped, Bounds
<1>2. CASE r.due # Off /\ Now(d) >= r.due
  <2>1. r.kept # Off /\ r.due = r.at + r.kept
    BY <1>2 DEF Deadline
  <2> QED BY <1>1, <1>2, <2>1
<1>3. CASE cap'[d] # Off /\ Now(d) >= r.at + cap'[d]
  BY <1>1, <1>3
<1> QED BY <1>2, <1>3 DEF Expired

LEMMA HeldEach ==
  ASSUME IInv, Next
  PROVE  HeldStep
<1> USE DEF IInv
<1>1. \A d \in Device : cap'[d] \in Settings
  <2>1. TypeOK'
    BY TypeOKStep
  <2> QED BY <2>1 DEF TypeOK
<1>2. \A d \in Device : \A r \in store[d] : r \in RecordType /\ r.due = Deadline(r.ts, r.at, r.kept)
  BY DEF TypeOK, Shaped
<1>3. ASSUME NEW d \in Device, NEW r \in store[d], Expired(d, r)
      PROVE  \/ r.kept # Off /\ Now(d) - r.at >= r.kept
             \/ cap'[d] # Off /\ Now(d) - r.at >= cap'[d]
  BY <1>1, <1>2, <1>3, ExpiredForms
<1>4. ASSUME \A e \in Device : wire[e] \subseteq wire'[e], NEW d \in Device,
             \A e \in Device \ {d} : store'[e] = store[e],
             \A r \in store[d] \ store'[d] : PurgeNow(d) \/ r.mid \in erased' \/ Expired(d, r)
      PROVE  HeldStep
  <2>1. ASSUME NEW r \in store[d] \ store'[d]
        PROVE  \/ PurgeNow(d) \/ r.mid \in erased'
               \/ r.kept # Off /\ Now(d) - r.at >= r.kept
               \/ cap'[d] # Off /\ Now(d) - r.at >= cap'[d]
    <3>1. PurgeNow(d) \/ r.mid \in erased' \/ Expired(d, r)
      BY <1>4
    <3> QED BY <1>3, <3>1
  <2>2. \A e \in Device \ {d} : store[e] \ store'[e] = {}
    BY <1>4
  <2>3. \A e \in Device : wire[e] \ wire'[e] = {}
    BY <1>4
  <2> QED BY <2>1, <2>2, <2>3 DEF HeldStep
<1>5. ASSUME NEW d \in Device, SendText(d) \/ (\E seconds \in Settings : SetTimer(d, seconds)) \/ Ask(d)
                               \/ SetClock(d) \/ Close(d)
      PROVE  HeldStep
  BY <1>4, <1>5, SendTextDoes, SetTimerDoes, AskDoes, SetClockDoes, CloseDoes
<1>6. ASSUME NEW d \in Device, PurgeNow(d) \/ \E seconds \in Settings : PurgeSet(d, seconds)
      PROVE  HeldStep
  BY <1>4, <1>6, PurgeDoes
<1>7. ASSUME NEW d \in Device, Delete(d) PROVE HeldStep
  <2>1. PICK victims \in SUBSET Own(d) :
          store' = [store EXCEPT ![d] = @ \ victims] /\ erased' = erased \cup {r.mid : r \in victims}
    BY <1>7, DeleteDoes
  <2>2. \A r \in store[d] \ store'[d] : r.mid \in erased'
    BY <2>1 DEF TypeOK
  <2> QED BY <1>4, <1>7, <2>2, DeleteDoes
<1>8. ASSUME NEW d \in Device, Post(d) PROVE HeldStep
  <2>1. \A e \in Device : wire[e] \subseteq wire'[e]
    BY <1>8, PostDoes, Going, Peers
  <2> QED BY <1>4, <1>8, <2>1, PostDoes
<1>9. ASSUME NEW d \in Device, PostFails(d) PROVE HeldStep
  <2>1. \A e \in Device : wire[e] \subseteq wire'[e]
    BY <1>9, PostFailsDoes, Going, Peers
  <2>2. store' = store
    BY <1>9, PostFailsDoes
  <2> QED BY <1>4, <2>1, <2>2
<1>10. ASSUME NEW d \in Device, Record(d) PROVE HeldStep
  <2>1. wire' = wire /\ (\A e \in Device \ {d} : store'[e] = store[e])
        /\ \A q \in store[d] \ store'[d] : Expired(d, q)
    BY <1>10, RecordDoes
  <2> QED BY <1>4, <2>1
<1>11. ASSUME NEW d \in Device, Deliver(d) PROVE HeldStep
  <2>1. PICK m : Taken(d, m)
    BY <1>11, DeliverDoes
  <2>2. /\ m \in wire[d] /\ wire'[d] = wire[d] \ {m} /\ erased' = erased
        /\ \A e \in Device \ {d} : wire'[e] = wire[e] /\ store'[e] = store[e]
        /\ \A r \in store[d] \ store'[d] : r.mid \in m.deletes \/ Expired(d, r)
    BY <2>1 DEF Taken
  <2>3. m.deletes \subseteq erased
    BY <2>2 DEF OwnWords
  <2>4. ASSUME m.mid # NoMid PROVE \E r \in store'[d] : r.mid = m.mid
    <3>1. PICK r : Fresh(d, m, r) /\ (r \in store'[d] \/ Expired(d, r))
      BY <2>1, <2>4 DEF Taken
    <3>2. r \in RecordType /\ r.mid = m.mid /\ r.at = Now(d) /\ r.due = Deadline(r.ts, r.at, r.kept)
      BY <3>1 DEF Fresh
    <3>3. ~Expired(d, r)
      BY <1>1, <3>2, ExpiredForms
    <3> QED BY <3>1, <3>2, <3>3
  <2>5. ASSUME NEW r \in store[d] \ store'[d]
        PROVE  \/ r.mid \in erased'
               \/ r.kept # Off /\ Now(d) - r.at >= r.kept
               \/ cap'[d] # Off /\ Now(d) - r.at >= cap'[d]
    BY <1>3, <2>2, <2>3
  <2>6. \A w \in wire[d] \ wire'[d] : w = m
    BY <2>2
  <2>7. \A e \in Device \ {d} : wire[e] \ wire'[e] = {} /\ store[e] \ store'[e] = {}
    BY <2>2
  <2> QED BY <2>4, <2>5, <2>6, <2>7 DEF HeldStep
<1>12. ASSUME Tick PROVE HeldStep
  <2>1. A \in Device /\ wire' = wire /\ store' = store
    BY <1>12, TickDoes DEF Device
  <2> QED BY <1>4, <2>1
<1> QED BY <1>5, <1>6, <1>7, <1>8, <1>9, <1>10, <1>11, <1>12 DEF Next, Settings

(* A text that is read is kept, and nothing is swept before it has been held
   for its timer or the cap (lifecycle.ts:56). *)
THEOREM NothingGoesEarly == Spec => HeldItsTime
<1>1. IInv /\ [Next]_vars => [HeldStep]_vars
  BY HeldEach
<1> QED BY <1>1, TranscriptHolds, PTL DEF Spec, HeldItsTime, HeldStep
=============================================================================
