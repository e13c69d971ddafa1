---------------------------- MODULE MessageProofs ----------------------------
(***************************************************************************)
(* Messages on their way and what they do to a group, for any number of    *)
(* them.  First Mailbox: the types, what stays in the queue, what a live   *)
(* connection is sent, and the refinement of Delivery in the calm          *)
(* environment.  Then Groups: what the lanes of a device hold, and that in *)
(* quiet use the records of all who are in the group agree.                *)
(***************************************************************************)
EXTENDS Mailbox, Groups, FiniteSetTheorems, TLAPS

-----------------------------------------------------------------------------
(* Envelopes and logins by their forms. *)

LEMMA LaneForms ==
  /\ Rest \in LaneType /\ Rest.pc = "rest"
  /\ \A m \in posted, keys \in SUBSET opened :
       /\ Loaded(m, keys) \in LaneType /\ Loaded(m, keys).pc = "loaded"
       /\ Loaded(m, keys).msg = m /\ Loaded(m, keys).spent = keys
  /\ \A m \in opened : Saved(m) \in LaneType /\ Saved(m).pc = "saved" /\ Saved(m).msg = m
  /\ \A x \in LaneType :
       /\ x.pc \in {"rest", "loaded", "saved"}
       /\ x.pc = "rest" => x = Rest
       /\ x.pc = "loaded" => x.msg \in posted /\ x.spent \in SUBSET opened
       /\ x.pc = "saved" => x.msg \in opened
BY DEF LaneType, Rest, Loaded, Saved

LEMMA LoginForms ==
  /\ LoginIdle \in LoginType /\ LoginIdle.pc = "idle"
  /\ \A p \in {"idle", "fetching", "connecting"} : LoginPhase(p) \in LoginType /\ LoginPhase(p).pc = p
  /\ \A todo \in SUBSET posted, acks \in SUBSET opened :
       /\ Draining(todo, acks) \in LoginType /\ Draining(todo, acks).pc = "draining"
       /\ Draining(todo, acks).todo = todo /\ Draining(todo, acks).acks = acks
  /\ \A x \in LoginType :
       /\ x.pc \in {"idle", "fetching", "connecting", "draining"}
       /\ x.pc = "idle" => x = LoginIdle
       /\ x.pc = "draining" => /\ x.todo \in SUBSET posted /\ x.acks \in SUBSET opened
                               /\ x = Draining(x.todo, x.acks)
BY DEF LoginType, LoginIdle, LoginPhase, Draining

LEMMA SeqGrows ==
  ASSUME NEW S, NEW T, S \subseteq T, NEW f \in Seq(S)
  PROVE  f \in Seq(T)
OBVIOUS

LEMMA SeqEnds ==
  ASSUME NEW S, NEW f \in Seq(S)
  PROVE  /\ \A x \in S : Append(f, x) \in Seq(S)
         /\ f # <<>> => Head(f) \in S /\ Tail(f) \in Seq(S)
OBVIOUS

LEMMA NextRowPositive == TypeOK => NextRow \in Nat /\ NextRow # 0
BY FS_CardinalityType DEF TypeOK, NextRow

-----------------------------------------------------------------------------
(* Types.  Only Send inserts a row; for every other action posted stays. *)

LEMMA SamePosted == row' = row => posted' = posted
BY DEF posted

LEMMA SendPosts ==
  ASSUME TypeOK, NEW m \in Messages, Send(m)
  PROVE  \/ /\ row' = row /\ posted' = posted /\ queue' = Swept
            /\ pushing' = pushing /\ refused' = refused \cup {m}
         \/ /\ row' = [row EXCEPT ![m] = NextRow] /\ posted' = posted \cup {m} /\ m \notin posted
            /\ queue' = Swept \cup {m} /\ refused' = refused
            /\ pushing' = [pushing EXCEPT ![m] = hub]
<1>1. row \in [Messages -> Nat] /\ m \notin posted
  BY DEF TypeOK, Send
<1>2. CASE Cardinality(Swept) < QueueCap
  <2>1. row' = [row EXCEPT ![m] = NextRow] /\ queue' = Swept \cup {m} /\ refused' = refused
        /\ pushing' = [pushing EXCEPT ![m] = hub]
    BY <1>2 DEF Send
  <2>2. posted' = posted \cup {m}
    BY <1>1, <2>1, NextRowPositive DEF posted
  <2> QED BY <1>1, <2>1, <2>2
<1>3. CASE ~(Cardinality(Swept) < QueueCap)
  BY <1>3, SamePosted DEF Send
<1> QED BY <1>2, <1>3

LEMMA SendTyped ==
  ASSUME TypeOK, NEW m \in Messages, Send(m)
  PROVE  TypeOK'
<1>1. /\ UNCHANGED <<aged, hub, endpoint, backlog, wire, client, pushed, opened, faults>>
      /\ m \notin posted \cup refused
  BY DEF Send
<1>2. CASE /\ row' = row /\ posted' = posted /\ queue' = Swept
           /\ pushing' = pushing /\ refused' = refused \cup {m}
  <2>1. UNCHANGED <<LaneType, LoginType>>
    BY <1>1, <1>2 DEF LaneType, LoginType
  <2> QED BY <1>1, <1>2, <2>1 DEF TypeOK, Swept, wire, client
<1>3. CASE /\ row' = [row EXCEPT ![m] = NextRow] /\ posted' = posted \cup {m} /\ m \notin posted
           /\ queue' = Swept \cup {m} /\ refused' = refused
           /\ pushing' = [pushing EXCEPT ![m] = hub]
  <2>1. LaneType \subseteq LaneType' /\ LoginType \subseteq LoginType'
    BY <1>1, <1>3 DEF LaneType, LoginType
  <2>2. row' \in [Messages -> Nat] /\ IsFiniteSet(posted')
    BY <1>3, NextRowPositive, FS_AddElement DEF TypeOK
  <2>3. down' \in [Sockets -> Seq(posted')] /\ rxTail' \in Seq(posted')
    BY <1>1, <1>3, SeqGrows DEF TypeOK, wire, client
  <2>4. /\ lane' \in [Lanes -> LaneType'] /\ login' \in LoginType'
        /\ lane'["login"] # Rest => login'.pc = "draining"
    BY <1>1, <2>1 DEF TypeOK, client
  <2>5. backlog' \in [Sockets -> SUBSET posted'] /\ pushed' \in [Sockets -> SUBSET posted']
    BY <1>1, <1>3 DEF TypeOK
  <2>6. pushing' \in [Messages -> SUBSET Sockets] /\ \A n \in Messages \ posted' : pushing'[n] = {}
    BY <1>1, <1>3 DEF TypeOK
  <2>7. queue' \subseteq posted' /\ aged' \subseteq posted'
        /\ refused' \subseteq Messages \ posted' /\ opened' \subseteq posted'
    BY <1>1, <1>3 DEF TypeOK, Swept
  <2> QED BY <1>1, <2>2, <2>3, <2>4, <2>5, <2>6, <2>7 DEF TypeOK, wire, client
<1> QED BY <1>2, <1>3, SendPosts

LEMMA TransmitTyped ==
  ASSUME TypeOK, NEW s \in Sockets, NEW m \in posted, Transmit(s, m)
  PROVE  down' \in [Sockets -> Seq(posted)] /\ pushed' \in [Sockets -> SUBSET posted]
<1>1. Append(down[s], m) \in Seq(posted)
  BY SeqEnds DEF TypeOK
<1> QED BY <1>1 DEF Transmit, TypeOK

(* What an action leaves alone keeps its type: the types read posted and
   opened only, and opened only grows. *)
LEMMA TypesAgree ==
  ASSUME row' = row, opened' = opened
  PROVE  posted' = posted /\ LaneType' = LaneType /\ LoginType' = LoginType
BY DEF posted, LaneType, LoginType

LEMMA ReleaseTyped ==
  ASSUME TypeOK, NEW s \in Sockets, Release(s)
  PROVE  /\ endpoint' \in [Sockets -> {"free", "opening", "serving"}]
         /\ hub' \subseteq {t \in Sockets : endpoint'[t] = "serving"}
         /\ backlog' \in [Sockets -> SUBSET posted]
         /\ pushing' \in [Messages -> SUBSET Sockets]
         /\ \A m \in Messages \ posted : pushing'[m] = {}
         /\ down' \in [Sockets -> Seq(posted)] /\ up' \in [Sockets -> SUBSET opened]
         /\ pushed' \in [Sockets -> SUBSET posted]
<1>1. <<>> \in Seq(posted)
  OBVIOUS
<1> QED BY <1>1 DEF TypeOK, Release

LEMMA ServerTyped ==
  ASSUME TypeOK, ServerWork
  PROVE  TypeOK'
<1>1. ASSUME NEW m \in Messages, NEW s \in Sockets, PushLive(m, s)
      PROVE  TypeOK'
  <2>1. /\ UNCHANGED <<queue, row, aged, endpoint, backlog, up, open, ws, rxTail, lane, login,
                       spent, shown, refused, opened, faults>>
        /\ Transmit(s, m) /\ hub' \subseteq hub
        /\ s \in pushing[m] /\ pushing' = [pushing EXCEPT ![m] = @ \ {s}]
    BY <1>1 DEF PushLive, client
  <2>2. /\ m \in posted /\ pushing' \in [Messages -> SUBSET Sockets]
        /\ \A n \in Messages \ posted : pushing'[n] = {}
    BY <2>1 DEF TypeOK
  <2> QED BY <2>1, <2>2, TransmitTyped, TypesAgree DEF TypeOK
<1>2. ASSUME NEW m \in Messages, NEW s \in Sockets, PushBacklog(s, m)
      PROVE  TypeOK'
  <2>1. /\ UNCHANGED <<queue, row, aged, hub, endpoint, pushing, up, open, ws, rxTail, lane, login,
                       spent, shown, refused, opened, faults>>
        /\ Transmit(s, m) /\ m \in backlog[s] /\ backlog' = [backlog EXCEPT ![s] = @ \ {m}]
    BY <1>2 DEF PushBacklog, Leads, client
  <2>2. m \in posted /\ backlog' \in [Sockets -> SUBSET posted]
    BY <2>1 DEF TypeOK
  <2> QED BY <2>1, <2>2, TransmitTyped, TypesAgree DEF TypeOK
<1>3. ASSUME NEW m \in Messages, NEW s \in Sockets, HandleAck(s, m)
      PROVE  TypeOK'
  <2>1. /\ UNCHANGED <<row, aged, hub, endpoint, backlog, pushing, down, open, ws, rxTail, lane,
                       login, spent, shown, refused, pushed, opened, faults>>
        /\ up' = [up EXCEPT ![s] = @ \ {m}] /\ queue' \subseteq queue
    BY <1>3 DEF HandleAck, client, ghosts
  <2> QED BY <2>1, TypesAgree DEF TypeOK
<1>4. ASSUME NEW s \in Sockets, Attach(s)
      PROVE  TypeOK'
  <2>1. /\ UNCHANGED <<row, aged, pushing, down, up, open, ws, rxTail, lane,
                       login, spent, shown, refused, pushed, opened, faults>>
        /\ endpoint' = [endpoint EXCEPT ![s] = "serving"] /\ hub' = hub \cup {s}
        /\ queue' = Swept /\ backlog' = [backlog EXCEPT ![s] = Swept]
    BY <1>4 DEF Attach, wire, client, ghosts
  <2> QED BY <2>1, TypesAgree DEF TypeOK, Swept
<1>5. ASSUME NEW s \in Sockets, Detach(s)
      PROVE  TypeOK'
  <2>1. Release(s) /\ UNCHANGED <<queue, row, aged, open, ws, rxTail, lane,
                                  login, spent, shown, refused, opened, faults>>
    BY <1>5 DEF Detach, Release, client
  <2> QED BY <2>1, ReleaseTyped, TypesAgree DEF TypeOK
<1> QED BY <1>1, <1>2, <1>3, <1>4, <1>5 DEF ServerWork

LEMMA BeginTyped ==
  ASSUME TypeOK, NEW l \in Lanes, NEW m \in posted, Begin(l, m)
  PROVE  lane' \in [Lanes -> LaneType] /\ \A k \in Lanes \ {l} : lane'[k] = lane[k]
<1>1. Loaded(m, spent) \in LaneType
  BY LaneForms DEF TypeOK
<1> QED BY <1>1 DEF Begin, TypeOK

LEMMA AnswerTyped ==
  ASSUME TypeOK, NEW l \in Lanes, NEW m \in opened, lane[l] # Rest, Answer(l, m)
  PROVE  login' \in LoginType /\ up' \in [Sockets -> SUBSET opened] /\ login'.pc = login.pc
<1>1. CASE l = "login"
  <2>1. login.pc = "draining" /\ up' = up /\ login' = [login EXCEPT !.acks = @ \cup {m}]
    BY <1>1 DEF Answer, TypeOK
  <2>2. /\ login = Draining(login.todo, login.acks)
        /\ login.todo \in SUBSET posted /\ login.acks \in SUBSET opened
    BY <2>1, LoginForms DEF TypeOK
  <2>3. login' = Draining(login.todo, login.acks \cup {m})
    BY <2>1, <2>2 DEF Draining
  <2>4. login.acks \cup {m} \in SUBSET opened
    BY <2>2
  <2>5. login' \in LoginType /\ login'.pc = "draining"
    BY <2>2, <2>3, <2>4, LoginForms
  <2> QED BY <2>1, <2>5 DEF TypeOK
<1>2. CASE l # "login"
  BY <1>2 DEF Answer, TypeOK
<1> QED BY <1>1, <1>2

LEMMA LaneTyped ==
  ASSUME TypeOK, LaneWork
  PROVE  TypeOK'
<1>1. ASSUME NEW s \in Sockets, Deliver(s)
      PROVE  TypeOK'
  <2>1. /\ UNCHANGED <<queue, row, aged, hub, endpoint, backlog, pushing, up, open, ws, lane,
                       login, spent, shown, refused, pushed, opened, faults>>
        /\ down[s] # <<>> /\ down' = [down EXCEPT ![s] = Tail(@)]
        /\ rxTail' = Append(rxTail, Head(down[s]))
    BY <1>1 DEF Deliver, server, ghosts
  <2>2. down' \in [Sockets -> Seq(posted)] /\ rxTail' \in Seq(posted)
    BY <2>1, SeqEnds DEF TypeOK
  <2> QED BY <2>1, <2>2, TypesAgree DEF TypeOK
<1>2. ASSUME BeginLive
      PROVE  TypeOK'
  <2>1. /\ UNCHANGED <<queue, row, aged, hub, endpoint, backlog, pushing, down, up, open, ws,
                       login, spent, shown, refused, pushed, opened, faults>>
        /\ rxTail # <<>> /\ rxTail' = Tail(rxTail) /\ Begin("rx", Head(rxTail))
    BY <1>2 DEF BeginLive, Begin, server, wire, ghosts
  <2>2. Head(rxTail) \in posted /\ rxTail' \in Seq(posted)
    BY <2>1, SeqEnds DEF TypeOK
  <2>3. lane' \in [Lanes -> LaneType] /\ lane'["login"] = lane["login"]
    BY <2>1, <2>2, BeginTyped DEF Lanes
  <2> QED BY <2>1, <2>2, <2>3, TypesAgree DEF TypeOK
<1>3. ASSUME NEW m \in Messages, BeginDrained(m)
      PROVE  TypeOK'
  <2>1. /\ UNCHANGED <<queue, row, aged, hub, endpoint, backlog, pushing, down, up, open, ws,
                       rxTail, spent, shown, refused, pushed, opened, faults>>
        /\ login.pc = "draining" /\ m \in login.todo
        /\ login' = [login EXCEPT !.todo = @ \ {m}] /\ Begin("login", m)
    BY <1>3 DEF BeginDrained, Begin, Leads, server, wire, ghosts
  <2>2. /\ login = Draining(login.todo, login.acks)
        /\ login.todo \in SUBSET posted /\ login.acks \in SUBSET opened
    BY <2>1, LoginForms DEF TypeOK
  <2>3. login' = Draining(login.todo \ {m}, login.acks) /\ login.todo \ {m} \in SUBSET posted
    BY <2>1, <2>2 DEF Draining
  <2>4. login' \in LoginType /\ login'.pc = "draining" /\ m \in posted
    BY <2>1, <2>2, <2>3, LoginForms
  <2>5. lane' \in [Lanes -> LaneType]
    BY <2>1, <2>4, BeginTyped DEF Lanes
  <2> QED BY <2>1, <2>4, <2>5, TypesAgree DEF TypeOK
<1>4. ASSUME NEW l \in Lanes, Save(l)
      PROVE  TypeOK'
  <2> DEFINE m == lane[l].msg
  <2>1. /\ UNCHANGED <<queue, row, aged, hub, endpoint, backlog, pushing, down, up, open, ws,
                       rxTail, login, shown, refused, pushed, faults>>
        /\ lane[l].pc = "loaded" /\ spent' = lane[l].spent \cup {m}
        /\ lane' = [lane EXCEPT ![l] = Saved(m)] /\ opened' = opened \cup {m}
    BY <1>4 DEF Save, server, wire
  <2>2. m \in posted /\ lane[l].spent \in SUBSET opened /\ lane[l] # Rest
    BY <2>1, LaneForms DEF TypeOK
  <2>3. posted' = posted /\ LoginType \subseteq LoginType' /\ LaneType \subseteq LaneType'
    BY <2>1 DEF posted, LoginType, LaneType
  <2>4. Saved(m) \in LaneType'
    BY <2>1 DEF LaneType, Saved
  <2>5. lane' \in [Lanes -> LaneType'] /\ login' \in LoginType'
    BY <2>1, <2>3, <2>4 DEF TypeOK
  <2>6. lane'["login"] # Rest => login'.pc = "draining"
    BY <2>1, <2>2 DEF TypeOK
  <2>7. spent' \subseteq opened' /\ opened' \subseteq posted' /\ up' \in [Sockets -> SUBSET opened']
    BY <2>1, <2>2, <2>3 DEF TypeOK
  <2> QED BY <2>1, <2>3, <2>5, <2>6, <2>7 DEF TypeOK
<1>5. ASSUME NEW l \in Lanes, Discard(l)
      PROVE  TypeOK'
  <2>1. /\ UNCHANGED <<queue, row, aged, hub, endpoint, backlog, pushing, down, open, ws,
                       rxTail, spent, shown, refused, pushed, opened, faults>>
        /\ lane[l].pc = "loaded" /\ lane[l].msg \in lane[l].spent
        /\ Answer(l, lane[l].msg) /\ lane' = [lane EXCEPT ![l] = Rest]
    BY <1>5 DEF Discard, server, ghosts
  <2>2. lane[l].msg \in opened /\ lane[l] # Rest
    BY <2>1, LaneForms DEF TypeOK
  <2>3. login' \in LoginType /\ up' \in [Sockets -> SUBSET opened] /\ login'.pc = login.pc
    BY <2>1, <2>2, AnswerTyped
  <2>4. lane' \in [Lanes -> LaneType] /\ (lane'["login"] # Rest => login'.pc = "draining")
    BY <2>1, <2>3, LaneForms DEF TypeOK
  <2> QED BY <2>1, <2>3, <2>4, TypesAgree DEF TypeOK
<1>6. ASSUME NEW l \in Lanes, Record(l)
      PROVE  TypeOK'
  <2>1. /\ UNCHANGED <<queue, row, aged, hub, endpoint, backlog, pushing, down, open, ws,
                       rxTail, spent, refused, pushed, opened, faults>>
        /\ lane[l].pc = "saved" /\ shown' = [shown EXCEPT ![lane[l].msg] = @ + 1]
        /\ Answer(l, lane[l].msg) /\ lane' = [lane EXCEPT ![l] = Rest]
    BY <1>6 DEF Record, server, ghosts
  <2>2. lane[l].msg \in opened /\ lane[l] # Rest
    BY <2>1, LaneForms DEF TypeOK
  <2>3. login' \in LoginType /\ up' \in [Sockets -> SUBSET opened] /\ login'.pc = login.pc
    BY <2>1, <2>2, AnswerTyped
  <2>4. lane' \in [Lanes -> LaneType] /\ (lane'["login"] # Rest => login'.pc = "draining")
    BY <2>1, <2>3, LaneForms DEF TypeOK
  <2>5. shown' \in [Messages -> Nat]
    <3>1. lane[l].msg \in Messages /\ shown \in [Messages -> Nat]
      BY <2>2 DEF TypeOK, posted
    <3>2. shown[lane[l].msg] + 1 \in Nat
      BY <3>1
    <3> QED BY <2>1, <3>1, <3>2
  <2> QED BY <2>1, <2>3, <2>4, <2>5, TypesAgree DEF TypeOK
<1>7. ASSUME NEW l \in Lanes, RecordFails(l)
      PROVE  TypeOK'
  <2>1. /\ UNCHANGED <<queue, row, aged, hub, endpoint, backlog, pushing, down, up, open, ws,
                       rxTail, spent, shown, refused, pushed, opened, faults>>
        /\ lane' = [lane EXCEPT ![l] = Rest]
        /\ IF l = "rx" THEN login' = login ELSE login' = LoginIdle
    BY <1>7 DEF RecordFails, server, wire
  <2>2. login' \in LoginType /\ lane' \in [Lanes -> LaneType]
    BY <2>1, LoginForms, LaneForms DEF TypeOK
  <2>3. lane'["login"] # Rest => login'.pc = "draining"
    BY <2>1 DEF TypeOK, Lanes
  <2> QED BY <2>1, <2>2, <2>3, TypesAgree DEF TypeOK
<1> QED BY <1>1, <1>2, <1>3, <1>4, <1>5, <1>6, <1>7 DEF LaneWork

LEMMA FaultCounted ==
  ASSUME TypeOK, Fault
  PROVE  faults' \in 0..MaxFaults
<1>1. MaxFaults \in Nat /\ faults \in 0..MaxFaults
  BY MailboxBounds DEF TypeOK
<1> QED BY <1>1 DEF Fault

LEMMA LoginTyped ==
  ASSUME TypeOK, LoginWork \/ LoginStart \/ LoginFails
  PROVE  TypeOK'
<1>1. /\ UNCHANGED <<row, aged, hub, backlog, pushing, down, up, rxTail, lane, spent, shown,
                     refused, pushed, opened>>
      /\ queue' \subseteq queue
      /\ open' \in BOOLEAN /\ ws' \in Sockets \cup {None} /\ faults' \in 0..MaxFaults
  <2>1. CASE LoginWork
    BY <2>1 DEF LoginWork, Fetch, AckDrained, ConnectWs, Swept, TypeOK, wire, ghosts
  <2>2. CASE LoginStart \/ LoginFails
    <3>1. faults' \in 0..MaxFaults
      <4>1. Fault \/ faults' = faults
        BY <2>2 DEF LoginStart, LoginFails
      <4> QED BY <4>1, FaultCounted DEF TypeOK
    <3> QED BY <2>2, <3>1 DEF LoginStart, LoginFails, TypeOK, server, wire
  <2> QED BY <2>1, <2>2
<1>2. login' \in LoginType
  <2>1. Swept \in SUBSET posted /\ {} \in SUBSET opened
    BY DEF TypeOK, Swept
  <2>2. Draining(Swept, {}) \in LoginType
    BY <2>1, LoginForms
  <2>3. login' \in {LoginIdle, LoginPhase("fetching"), LoginPhase("connecting"), Draining(Swept, {})}
    BY DEF LoginWork, LoginStart, LoginFails, Fetch, AckDrained, ConnectWs
  <2>4. LoginIdle \in LoginType /\ LoginPhase("fetching") \in LoginType /\ LoginPhase("connecting") \in LoginType
    BY LoginForms
  <2> QED BY <2>2, <2>3, <2>4
<1>3. lane["login"] = Rest
  BY LoginForms DEF LoginWork, LoginStart, LoginFails, Fetch, AckDrained, ConnectWs, Drained, TypeOK
<1>4. /\ endpoint' \in [Sockets -> {"free", "opening", "serving"}]
      /\ \A s \in Sockets : endpoint[s] = "serving" => endpoint'[s] = "serving"
  BY ZenonT(40) DEF LoginWork, LoginStart, LoginFails, Fetch, AckDrained, ConnectWs, TypeOK, server
<1> QED BY <1>1, <1>2, <1>3, <1>4, TypesAgree DEF TypeOK

LEMMA FaultTyped ==
  ASSUME TypeOK, Lock \/ CloseTab \/ \E s \in Sockets : Drop(s)
  PROVE  TypeOK'
<1>1. ASSUME Lock \/ CloseTab
      PROVE  TypeOK'
  <2>1. /\ UNCHANGED <<queue, row, aged, hub, endpoint, backlog, pushing, down, up, spent, shown,
                       refused, pushed, opened>>
        /\ open' = FALSE /\ ws' = None /\ Fault
    BY <1>1 DEF Lock, CloseTab, server, wire
  <2>2. /\ lane' \in [Lanes -> LaneType] /\ login' \in LoginType
        /\ lane'["login"] # Rest => login'.pc = "draining"
    BY <1>1, LaneForms, LoginForms DEF Lock, CloseTab, TypeOK, Lanes
  <2>3. rxTail' \in Seq(posted)
    <3>1. <<>> \in Seq(posted)
      OBVIOUS
    <3> QED BY <1>1, <3>1 DEF Lock, CloseTab, TypeOK
  <2>4. faults' \in 0..MaxFaults
    BY <2>1, FaultCounted
  <2> QED BY <2>1, <2>2, <2>3, <2>4, TypesAgree DEF TypeOK
<1>2. ASSUME NEW s \in Sockets, Drop(s)
      PROVE  TypeOK'
  <2>1. /\ Release(s) /\ ws' = None /\ Fault
        /\ UNCHANGED <<queue, row, aged, open, rxTail, lane, login, spent, shown, refused, opened>>
    BY <1>2 DEF Drop, Release
  <2>2. faults' \in 0..MaxFaults
    BY <2>1, FaultCounted
  <2> QED BY <2>1, <2>2, ReleaseTyped, TypesAgree DEF TypeOK
<1> QED BY <1>1, <1>2

LEMMA AgeTyped ==
  ASSUME TypeOK, NEW m \in Messages, Age(m)
  PROVE  TypeOK'
<1>1. /\ UNCHANGED <<queue, row, hub, endpoint, backlog, pushing, down, up, open, ws, rxTail, lane,
                     login, spent, shown, refused, pushed, opened, faults>>
      /\ m \in queue /\ aged' = aged \cup {m}
  BY DEF Age, wire, client, ghosts
<1> QED BY <1>1, TypesAgree DEF TypeOK

LEMMA StepTyped == TypeOK /\ [Next]_vars => TypeOK'
<1> SUFFICES ASSUME TypeOK, [Next]_vars
             PROVE  TypeOK'
  OBVIOUS
<1>1. CASE Next
  BY <1>1, SendTyped, AgeTyped, ServerTyped, LaneTyped, LoginTyped, FaultTyped DEF Next, Outside
<1>2. CASE UNCHANGED vars
  BY <1>2, TypesAgree DEF TypeOK, vars, server, wire, client, ghosts
<1> QED BY <1>1, <1>2

LEMMA InitTyped == Init => TypeOK
<1> SUFFICES ASSUME Init
             PROVE  TypeOK
  OBVIOUS
<1>1. posted = {} /\ IsFiniteSet(posted)
  BY FS_EmptySet DEF Init, posted
<1>2. <<>> \in Seq(posted)
  OBVIOUS
<1>3. lane \in [Lanes -> LaneType] /\ lane["login"] = Rest /\ login \in LoginType
  BY LaneForms, LoginForms DEF Init, Lanes
<1>4. row \in [Messages -> Nat] /\ shown \in [Messages -> Nat] /\ faults \in 0..MaxFaults
  BY MailboxBounds DEF Init
<1>5. down \in [Sockets -> Seq(posted)] /\ rxTail \in Seq(posted) /\ ws \in Sockets \cup {None}
  BY <1>2 DEF Init
<1> QED BY <1>1, <1>3, <1>4, <1>5 DEF Init, TypeOK

-----------------------------------------------------------------------------
(* What stays in the queue.  Rows leave it for three reasons only: a sweep of
   what is too old, an id acknowledged on a connection, and the ids that a
   drain acknowledges. *)

LEMMA QueueLoses ==
  ASSUME TypeOK, [Next]_vars
  PROVE  /\ posted \subseteq posted' /\ opened \subseteq opened' /\ aged \subseteq aged'
         /\ \A m \in posted' \ posted : m \in queue'
         /\ \A m \in queue \ queue' : m \in aged \/ m \in opened
<1>1. ASSUME NEW m \in Messages, Send(m)
      PROVE  /\ posted \subseteq posted' /\ opened' = opened /\ aged' = aged
             /\ \A n \in posted' \ posted : n \in queue'
             /\ \A n \in queue \ queue' : n \in aged
  <2>1. opened' = opened /\ aged' = aged /\ Swept \subseteq queue'
    BY <1>1 DEF Send
  <2> QED BY <1>1, <2>1, SendPosts DEF Swept
<1>2. ASSUME NEW m \in Messages, Age(m)
      PROVE  posted' = posted /\ opened' = opened /\ aged \subseteq aged' /\ queue' = queue
  BY <1>2, SamePosted DEF Age, ghosts
<1>3. ASSUME ServerWork
      PROVE  /\ posted' = posted /\ opened' = opened /\ aged' = aged
             /\ \A m \in queue \ queue' : m \in aged \/ m \in opened
  <2>1. row' = row /\ opened' = opened /\ aged' = aged
    BY <1>3 DEF ServerWork, PushLive, PushBacklog, HandleAck, Attach, Detach, Release, ghosts
  <2>2. \/ queue' = queue \/ queue' = Swept
        \/ \E m \in Messages, s \in Sockets : m \in up[s] /\ queue' = queue \ {m}
    BY <1>3 DEF ServerWork, PushLive, PushBacklog, HandleAck, Attach, Detach, Release
  <2> QED BY <2>1, <2>2, SamePosted DEF Swept, TypeOK
<1>4. ASSUME LaneWork
      PROVE  posted' = posted /\ opened \subseteq opened' /\ aged' = aged /\ queue' = queue
  <2>1. row' = row /\ aged' = aged /\ queue' = queue
    BY <1>4 DEF LaneWork, Deliver, BeginLive, BeginDrained, Begin, Save, Discard, Record, RecordFails, server
  <2>2. opened \subseteq opened'
    BY <1>4 DEF LaneWork, Deliver, BeginLive, BeginDrained, Begin, Save, Discard, Record, RecordFails, ghosts
  <2> QED BY <2>1, <2>2, SamePosted
<1>5. ASSUME LoginWork
      PROVE  /\ posted' = posted /\ opened' = opened /\ aged' = aged
             /\ \A m \in queue \ queue' : m \in aged \/ m \in opened
  <2>1. row' = row /\ opened' = opened /\ aged' = aged
    BY <1>5 DEF LoginWork, Fetch, AckDrained, ConnectWs, ghosts
  <2>2. \/ queue' = queue \/ queue' = Swept
        \/ login.pc = "draining" /\ queue' = queue \ login.acks
    BY <1>5 DEF LoginWork, Fetch, AckDrained, ConnectWs, Drained
  <2>3. login.pc = "draining" => login.acks \in SUBSET opened
    BY LoginForms DEF TypeOK
  <2> QED BY <2>1, <2>2, <2>3, SamePosted DEF Swept
<1>6. ASSUME LoginStart \/ Lock \/ CloseTab \/ LoginFails \/ \E s \in Sockets : Drop(s)
      PROVE  posted' = posted /\ opened' = opened /\ aged' = aged /\ queue' = queue
  BY <1>6, SamePosted DEF LoginStart, Lock, CloseTab, LoginFails, Drop, Release, server
<1>7. CASE UNCHANGED vars
  BY <1>7, SamePosted DEF vars, server, ghosts
<1> QED BY <1>1, <1>2, <1>3, <1>4, <1>5, <1>6, <1>7 DEF Next, Outside

LEMMA StepStaysQueued == TypeOK /\ UnopenedStaysQueued /\ [Next]_vars => UnopenedStaysQueued'
BY QueueLoses DEF UnopenedStaysQueued

-----------------------------------------------------------------------------
(* What a live connection is sent.  A row waiting for the connection in use
   moves from its backlog, or from the pushes of its sender, to what was
   pushed, and no other way. *)

LEMMA ServerMissesNothing ==
  ASSUME TypeOK, NothingMissed, ServerWork
  PROVE  NothingMissed'
<1>1. ASSUME NEW m \in Messages, NEW s \in Sockets, PushLive(m, s)
      PROVE  NothingMissed'
  <2>1. /\ queue' = queue /\ backlog' = backlog /\ ws' = ws /\ hub' \subseteq hub
        /\ pushing' = [pushing EXCEPT ![m] = @ \ {s}]
        /\ pushed' = [pushed EXCEPT ![s] = @ \cup {m}]
    BY <1>1 DEF PushLive, Transmit, client
  <2>2. \A t \in Sockets, n \in Messages :
          /\ t \in pushing[n] => t \in pushing'[n] \/ n \in pushed'[t]
          /\ pushed[t] \subseteq pushed'[t]
    BY <2>1 DEF TypeOK
  <2> QED BY <2>1, <2>2 DEF NothingMissed, TypeOK, posted
<1>2. ASSUME NEW m \in Messages, NEW s \in Sockets, PushBacklog(s, m)
      PROVE  NothingMissed'
  <2>1. /\ queue' = queue /\ pushing' = pushing /\ ws' = ws /\ hub' = hub
        /\ backlog' = [backlog EXCEPT ![s] = @ \ {m}]
        /\ pushed' = [pushed EXCEPT ![s] = @ \cup {m}]
    BY <1>2 DEF PushBacklog, Transmit, client
  <2>2. \A t \in Sockets : pushed[t] \cup backlog[t] \subseteq pushed'[t] \cup backlog'[t]
    BY <2>1 DEF TypeOK
  <2> QED BY <2>1, <2>2 DEF NothingMissed, TypeOK
<1>3. ASSUME NEW m \in Messages, NEW s \in Sockets, HandleAck(s, m)
      PROVE  NothingMissed'
  BY <1>3 DEF HandleAck, NothingMissed, client, ghosts
<1>4. ASSUME NEW s \in Sockets, Attach(s)
      PROVE  NothingMissed'
  <2>1. /\ queue' = Swept /\ pushing' = pushing /\ ws' = ws /\ hub' = hub \cup {s}
        /\ backlog' = [backlog EXCEPT ![s] = Swept] /\ pushed' = pushed
    BY <1>4 DEF Attach, client, ghosts
  <2>2. backlog'[s] = queue' /\ queue' \subseteq queue /\ \A t \in Sockets \ {s} : backlog'[t] = backlog[t]
    BY <2>1 DEF TypeOK, Swept
  <2>3. ASSUME NEW t \in hub', ws' = t, NEW n \in queue'
        PROVE  n \in pushed'[t] \cup backlog'[t] \/ t \in pushing'[n]
    <3>1. CASE t = s
      BY <2>2, <2>3, <3>1
    <3>2. CASE t # s
      BY <2>1, <2>2, <2>3, <3>2 DEF NothingMissed, TypeOK
    <3> QED BY <3>1, <3>2
  <2> QED BY <2>3 DEF NothingMissed
<1>5. ASSUME NEW s \in Sockets, Detach(s)
      PROVE  NothingMissed'
  <2>1. /\ queue' = queue /\ ws' = ws /\ ws # s /\ hub' \subseteq hub
        /\ \A t \in Sockets \ {s} : backlog'[t] = backlog[t] /\ pushed'[t] = pushed[t]
        /\ \A n \in Messages : pushing[n] \ {s} \subseteq pushing'[n]
    BY <1>5 DEF Detach, Release, client, TypeOK
  <2> QED BY <2>1 DEF NothingMissed, TypeOK, posted
<1> QED BY <1>1, <1>2, <1>3, <1>4, <1>5 DEF ServerWork

LEMMA StepMissesNothing == TypeOK /\ NothingMissed /\ [Next]_vars => NothingMissed'
<1> SUFFICES ASSUME TypeOK, NothingMissed, [Next]_vars
             PROVE  NothingMissed'
  OBVIOUS
<1>1. ASSUME NEW m \in Messages, Send(m)
      PROVE  NothingMissed'
  <2>1. hub' = hub /\ ws' = ws /\ pushed' = pushed /\ backlog' = backlog
    BY <1>1 DEF Send, client
  <2>2. CASE queue' = Swept /\ pushing' = pushing
    BY <2>1, <2>2 DEF NothingMissed, Swept
  <2>3. CASE queue' = Swept \cup {m} /\ pushing' = [pushing EXCEPT ![m] = hub]
    <3>1. pushing'[m] = hub /\ \A n \in Messages \ {m} : pushing'[n] = pushing[n]
      BY <2>3 DEF TypeOK
    <3>2. queue' \subseteq queue \cup {m} /\ queue \subseteq Messages
      BY <2>3 DEF Swept, TypeOK, posted
    <3> QED BY <2>1, <3>1, <3>2 DEF NothingMissed
  <2> QED BY <1>1, <2>2, <2>3 DEF Send
<1>2. ASSUME NEW m \in Messages, Age(m)
      PROVE  NothingMissed'
  BY <1>2 DEF Age, NothingMissed, client, ghosts
<1>3. CASE LaneWork
  <2>1. UNCHANGED <<queue, hub, backlog, pushing, ws, pushed>>
    BY <1>3 DEF LaneWork, Deliver, BeginLive, BeginDrained, Begin, Save, Discard, Record, RecordFails,
       server, ghosts
  <2> QED BY <2>1 DEF NothingMissed
<1>4. CASE Fetch \/ AckDrained \/ LoginStart \/ LoginFails
  <2>1. UNCHANGED <<hub, backlog, pushing, ws, pushed>> /\ queue' \subseteq queue
    BY <1>4 DEF Fetch, AckDrained, LoginStart, LoginFails, Swept, server, ghosts
  <2> QED BY <2>1 DEF NothingMissed
<1>5. ASSUME NEW s \in Sockets, ConnectWs(s)
      PROVE  NothingMissed'
  <2>1. hub' = hub /\ ws' = s /\ endpoint[s] = "free"
    BY <1>5 DEF ConnectWs
  <2>2. s \notin hub
    BY <2>1 DEF TypeOK
  <2> QED BY <2>1, <2>2 DEF NothingMissed
<1>6. CASE Lock \/ CloseTab \/ \E s \in Sockets : Drop(s)
  <2>1. ws' = None /\ hub' \subseteq hub /\ None \notin hub
    BY <1>6, MailboxBounds DEF Lock, CloseTab, Drop, Release, server, TypeOK
  <2> QED BY <2>1 DEF NothingMissed
<1>7. CASE UNCHANGED vars
  BY <1>7 DEF NothingMissed, vars, server, client, ghosts
<1> QED BY <1>1, <1>2, <1>3, <1>4, <1>5, <1>6, <1>7, ServerMissesNothing DEF Next, Outside, LoginWork

LEMMA InitHolds == Init => IInv
<1> SUFFICES ASSUME Init
             PROVE  IInv
  OBVIOUS
<1>1. UnopenedStaysQueued /\ NothingMissed
  BY DEF Init, UnopenedStaysQueued, NothingMissed, posted
<1> QED BY <1>1, InitTyped DEF IInv

LEMMA StepHolds == IInv /\ [Next]_vars => IInv'
BY StepTyped, StepStaysQueued, StepMissesNothing DEF IInv

(* The inductive invariant of the queue, the connections and the client. *)
THEOREM MailboxHolds == Spec => []IInv
BY InitHolds, StepHolds, PTL DEF Spec

(* Types of the queue, the connections, the wire, the lanes and the login. *)
THEOREM MailboxTyped == Spec => []TypeOK
BY MailboxHolds, PTL DEF IInv

(* No envelope that was never opened leaves the queue before its time, for any
   number of messages, connections, locks, closed tabs and repeated logins
   (send_message, ack_messages, processRatchetMessage). *)
THEOREM UnopenedIsKept == Spec => []UnopenedStaysQueued
BY MailboxHolds, PTL DEF IInv

(* Every waiting row has been or is about to be sent to the connection in use,
   wherever its insertion falls between the registration of that connection
   and the end of its backlog (ws_endpoint, _push_pending, WsHub.push). *)
THEOREM NothingFallsBetween == Spec => []NothingMissed
BY MailboxHolds, PTL DEF IInv

-----------------------------------------------------------------------------
(* The calm environment. *)

LEMMA CalmIsNext == [CalmNext]_vars => [Next]_vars
BY DEF CalmNext, Next

LEMMA OneAtATime ==
  ASSUME TypeOK, OneLane, NEW l \in Lanes, lane[l] # Rest
  PROVE  open /\ \A k \in Lanes \ {l} : lane[k] = Rest
BY LoginForms DEF TypeOK, OneLane, LaneIdle, Lanes

(* An envelope that nothing opens any more is one that is recorded. *)
LEMMA DiscardsRecords ==
  ASSUME TypeOK, OneLane, SpentOnRecords, NEW l \in Lanes, lane[l].pc = "loaded",
         lane[l].msg \in lane[l].spent
  PROVE  Recorded(lane[l].msg)
<1>1. lane[l] # Rest /\ lane[l].msg \in spent
  BY LaneForms DEF SpentOnRecords, TypeOK
<1>2. \A k \in Lanes : \A m : lane[k] # Saved(m)
  <2>1. \A m : Saved(m).pc = "saved"
    BY DEF Saved
  <2>2. \A k \in Lanes : lane[k].pc \in {"rest", "loaded"}
    BY <1>1, OneAtATime, LaneForms
  <2> QED BY <2>1, <2>2
<1> QED BY <1>1, <1>2 DEF SpentOnRecords

LEMMA CalmOneLane ==
  ASSUME TypeOK, OneLane, [CalmNext]_vars
  PROVE  OneLane'
<1>0. None \notin Sockets
  BY MailboxBounds
<1>1. CASE ServerWork \/ Outside \/ UNCHANGED vars
  <2>1. UNCHANGED <<open, ws, rxTail, lane, login>>
    BY <1>1 DEF ServerWork, Outside, PushLive, PushBacklog, HandleAck, Attach, Detach, Send, Age, vars, client
  <2> QED BY <2>1 DEF OneLane, LaneIdle
<1>2. ASSUME NEW s \in Sockets, Deliver(s)
      PROVE  OneLane'
  <2>1. ws = s /\ UNCHANGED <<open, lane, login>>
    BY <1>2 DEF Deliver
  <2>2. login = LoginIdle
    BY <1>0, <2>1 DEF OneLane, LaneIdle
  <2> QED BY <2>1, <2>2 DEF OneLane
<1>3. CASE BeginLive
  <2>1. rxTail # <<>> /\ UNCHANGED <<open, login>> /\ Begin("rx", Head(rxTail))
    BY <1>3 DEF BeginLive, Begin
  <2>2. login = LoginIdle
    BY <2>1 DEF OneLane, LaneIdle
  <2>3. \A l \in Lanes : lane'[l] # Rest => open
    BY <2>1 DEF Begin, OneLane, TypeOK, Lanes
  <2> QED BY <2>1, <2>2, <2>3 DEF OneLane
<1>4. ASSUME NEW m \in Messages, BeginDrained(m)
      PROVE  OneLane'
  <2>1. login.pc = "draining" /\ UNCHANGED <<open, ws, rxTail>> /\ Begin("login", m)
    BY <1>4 DEF BeginDrained, Begin
  <2>2. LaneIdle /\ lane'["rx"] = lane["rx"]
    BY <2>1, LoginForms DEF OneLane, Begin, TypeOK, Lanes
  <2>3. \A l \in Lanes : lane'[l] # Rest => open
    BY <2>1 DEF Begin, OneLane, TypeOK, Lanes
  <2> QED BY <2>1, <2>2, <2>3 DEF OneLane, LaneIdle
<1>5. ASSUME NEW l \in Lanes, Save(l) \/ Discard(l) \/ Record(l) \/ RecordFails(l)
      PROVE  OneLane'
  <2>1. /\ UNCHANGED <<open, ws, rxTail>> /\ lane[l].pc \in {"loaded", "saved"}
        /\ \A k \in Lanes \ {l} : lane'[k] = lane[k]
    BY <1>5 DEF Save, Discard, Record, RecordFails, TypeOK
  <2>2. lane[l] # Rest
    BY <2>1, LaneForms
  <2>3. open /\ \A k \in Lanes \ {l} : lane'[k] = Rest
    BY <2>1, <2>2, OneAtATime
  <2>4. CASE l = "login"
    <3>1. LaneIdle
      BY <2>2, <2>4, LoginForms DEF TypeOK, OneLane
    <3> QED BY <2>1, <2>3, <2>4, <3>1 DEF OneLane, LaneIdle, Lanes
  <2>5. CASE l = "rx"
    <3>1. login' = login /\ login = LoginIdle
      BY <1>5, <2>2, <2>5 DEF Save, Discard, Record, RecordFails, Answer, OneLane, LaneIdle
    <3> QED BY <2>1, <2>3, <3>1 DEF OneLane
  <2> QED BY <2>4, <2>5 DEF Lanes
<1>6. CASE Fetch \/ AckDrained \/ LoginFails
  <2>1. login # LoginIdle /\ UNCHANGED <<open, ws, rxTail, lane>>
    BY <1>6, LoginForms DEF Fetch, AckDrained, LoginFails, Drained
  <2> QED BY <2>1 DEF OneLane, LaneIdle
<1>7. ASSUME NEW s \in Sockets, ConnectWs(s)
      PROVE  OneLane'
  BY <1>7 DEF ConnectWs, OneLane
<1>8. CASE LaneIdle /\ LoginStart
  BY <1>8 DEF LoginStart, OneLane, LaneIdle
<1>9. CASE ~BetweenWrites /\ (CloseTab \/ (login = LoginIdle /\ Lock))
  <2>1. login' = LoginIdle /\ \A l \in Lanes : lane'[l] = Rest
    <3>1. \A l \in Lanes : lane[l].pc = "loaded" \/ lane[l] = Rest
      BY <1>9, LaneForms DEF BetweenWrites, TypeOK
    <3>2. CASE CloseTab
      BY <3>2 DEF CloseTab
    <3>3. CASE login = LoginIdle /\ Lock
      BY <3>1, <3>3 DEF Lock
    <3> QED BY <1>9, <3>2, <3>3
  <2> QED BY <2>1 DEF OneLane
<1>10. ASSUME NEW s \in Sockets, Drop(s)
       PROVE  OneLane'
  BY <1>10 DEF Drop, OneLane, LaneIdle
<1>11. CASE LaneWork \/ LoginWork
  BY <1>2, <1>3, <1>4, <1>5, <1>6, <1>7, <1>11 DEF LaneWork, LoginWork
<1>12. CASE \E s \in Sockets : Drop(s)
  BY <1>10, <1>12
<1>13. CASE CalmNext
  BY <1>1, <1>6, <1>8, <1>9, <1>11, <1>12, <1>13 DEF CalmNext
<1> QED BY <1>1, <1>13

(* Only the lanes touch the session and the history. *)
LEMMA CalmSpent ==
  ASSUME TypeOK, OneLane, SpentOnRecords, [CalmNext]_vars
  PROVE  SpentOnRecords'
<1>1. CASE UNCHANGED <<spent, shown, lane>>
  BY <1>1 DEF SpentOnRecords, Recorded
<1>2. ASSUME UNCHANGED <<spent, shown>>, NEW l \in Lanes, NEW m, Begin(l, m)
      PROVE  SpentOnRecords'
  <2>1. CASE lane' = lane
    BY <1>2, <2>1, <1>1
  <2>2. CASE lane' = [lane EXCEPT ![l] = Loaded(m, spent)] /\ lane[l] = Rest
    <3>1. /\ lane'[l].pc = "loaded" /\ lane'[l].spent = spent
          /\ \A k \in Lanes \ {l} : lane'[k] = lane[k]
      BY <2>2 DEF TypeOK, Loaded
    <3>2. \A n : lane[l] # Saved(n)
      BY <2>2 DEF Rest, Saved
    <3>3. \A n \in spent : Recorded(n) \/ \E k \in Lanes : lane'[k] = Saved(n)
      BY <3>1, <3>2 DEF SpentOnRecords
    <3>4. \A k \in Lanes :
            /\ lane'[k].pc = "loaded" => lane'[k].spent = spent
            /\ lane'[k].pc = "saved" => lane'[k].msg \in spent /\ ~Recorded(lane'[k].msg)
      BY <3>1 DEF SpentOnRecords
    <3> QED BY <1>2, <3>3, <3>4 DEF SpentOnRecords, Recorded
  <2> QED BY <1>2, <2>1, <2>2 DEF Begin
<1>3. ASSUME NEW l \in Lanes, Save(l)
      PROVE  SpentOnRecords'
  <2> DEFINE m == lane[l].msg
  <2>1. /\ shown' = shown /\ lane[l].pc = "loaded" /\ m \notin lane[l].spent
        /\ spent' = lane[l].spent \cup {m} /\ lane' = [lane EXCEPT ![l] = Saved(m)]
    BY <1>3 DEF Save
  <2>2. lane[l].spent = spent /\ lane[l] # Rest
    BY <2>1, LaneForms DEF SpentOnRecords
  <2>3. \A k \in Lanes \ {l} : lane'[k] = Rest
    BY <2>1, <2>2, OneAtATime DEF TypeOK
  <2>4. lane'[l] = Saved(m) /\ Saved(m).pc = "saved" /\ Saved(m).msg = m
    BY <2>1 DEF TypeOK, Saved
  <2>5. \A k \in Lanes : \A n : lane[k] # Saved(n)
    <3>1. \A n : Saved(n).pc = "saved"
      BY DEF Saved
    <3>2. \A k \in Lanes : lane[k].pc \in {"rest", "loaded"}
      BY <2>1, <2>2, OneAtATime, LaneForms
    <3> QED BY <3>1, <3>2
  <2>6. \A n \in spent : Recorded(n)
    BY <2>5 DEF SpentOnRecords
  <2>7. m \in Messages /\ ~Recorded(m)
    <3>1. m \in posted
      BY <2>1, LaneForms DEF TypeOK
    <3> QED BY <2>1, <2>2, <3>1 DEF SpentOnRecords, posted
  <2>8. spent' = spent \cup {m}
    BY <2>1, <2>2
  <2>9. \A k \in Lanes :
          /\ lane'[k].pc = "loaded" => lane'[k].spent = spent'
          /\ lane'[k].pc = "saved" => lane'[k].msg \in spent' /\ ~Recorded(lane'[k].msg)
    BY <2>3, <2>4, <2>7, <2>8, LaneForms
  <2>10. \A n \in spent' : Recorded(n) \/ \E k \in Lanes : lane'[k] = Saved(n)
    BY <2>4, <2>6, <2>8
  <2>11. \A n \in Messages : shown[n] \in {0, 1} /\ (Recorded(n) => n \in spent')
    BY <2>8 DEF SpentOnRecords
  <2> QED BY <2>1, <2>9, <2>10, <2>11 DEF SpentOnRecords, Recorded
<1>4. ASSUME NEW l \in Lanes, Discard(l) \/ RecordFails(l)
      PROVE  SpentOnRecords'
  <2>1. UNCHANGED <<spent, shown>> /\ lane' = [lane EXCEPT ![l] = Rest] /\ lane[l].pc = "loaded"
    <3>1. lane[l].pc = "saved" => open
      BY OneAtATime, LaneForms
    <3> QED BY <1>4, <3>1 DEF Discard, RecordFails
  <2>2. lane'[l] = Rest /\ \A k \in Lanes \ {l} : lane'[k] = lane[k]
    BY <2>1 DEF TypeOK
  <2>3. \A n : lane[l] # Saved(n)
    BY <2>1 DEF Saved
  <2>4. \A n \in spent : Recorded(n) \/ \E k \in Lanes : lane'[k] = Saved(n)
    BY <2>2, <2>3 DEF SpentOnRecords
  <2>5. \A k \in Lanes :
          /\ lane'[k].pc = "loaded" => lane'[k].spent = spent
          /\ lane'[k].pc = "saved" => lane'[k].msg \in spent /\ ~Recorded(lane'[k].msg)
    BY <2>2, LaneForms DEF SpentOnRecords
  <2> QED BY <2>1, <2>4, <2>5 DEF SpentOnRecords, Recorded
<1>5. ASSUME NEW l \in Lanes, Record(l)
      PROVE  SpentOnRecords'
  <2> DEFINE m == lane[l].msg
  <2>1. /\ spent' = spent /\ lane[l].pc = "saved" /\ shown' = [shown EXCEPT ![m] = @ + 1]
        /\ lane' = [lane EXCEPT ![l] = Rest]
    BY <1>5 DEF Record
  <2>2. m \in spent /\ ~Recorded(m) /\ lane[l] # Rest
    BY <2>1, LaneForms DEF SpentOnRecords
  <2>3. m \in Messages /\ shown[m] = 0 /\ shown \in [Messages -> Nat]
    BY <2>2 DEF SpentOnRecords, Recorded, TypeOK, posted
  <2>4. \A k \in Lanes : lane'[k] = Rest
    BY <2>1, <2>2, OneAtATime DEF TypeOK
  <2>5. shown'[m] = 1 /\ \A n \in Messages \ {m} : shown'[n] = shown[n]
    BY <2>1, <2>3
  <2>6. \A n \in spent : n # m => Recorded(n)
    <3>1. \A k \in Lanes : \A n : lane[k] = Saved(n) => n = m
      <4>1. \A n : Saved(n).pc = "saved" /\ Saved(n).msg = n
        BY DEF Saved
      <4>2. \A k \in Lanes \ {l} : lane[k].pc = "rest"
        BY <2>2, OneAtATime, LaneForms
      <4> QED BY <4>1, <4>2
    <3> QED BY <3>1 DEF SpentOnRecords
  <2>7. spent \subseteq Messages
    BY DEF TypeOK, posted
  <2>8. \A n \in spent : shown'[n] = 1
    BY <2>5, <2>6, <2>7 DEF Recorded
  <2>9. \A n \in Messages : shown'[n] \in {0, 1} /\ (shown'[n] = 1 => n \in spent)
    BY <2>2, <2>5 DEF SpentOnRecords, Recorded
  <2>10. \A k \in Lanes : lane'[k].pc = "rest"
    BY <2>4, LaneForms
  <2> QED BY <2>1, <2>8, <2>9, <2>10 DEF SpentOnRecords, Recorded
<1>6. CASE ~BetweenWrites /\ (CloseTab \/ Lock)
  <2>1. UNCHANGED <<spent, shown>> /\ \A k \in Lanes : lane'[k] = Rest
    <3>1. \A k \in Lanes : lane[k].pc = "loaded" \/ lane[k] = Rest
      BY <1>6, LaneForms DEF BetweenWrites, TypeOK
    <3>2. CASE CloseTab
      BY <3>2 DEF CloseTab
    <3>3. CASE Lock
      BY <3>1, <3>3 DEF Lock
    <3> QED BY <1>6, <3>2, <3>3
  <2>2. \A k \in Lanes : \A n : lane[k] # Saved(n)
    BY <1>6 DEF BetweenWrites, Saved
  <2>3. \A n \in spent : Recorded(n)
    BY <2>2 DEF SpentOnRecords
  <2>4. \A k \in Lanes : lane'[k].pc = "rest"
    BY <2>1, LaneForms
  <2> QED BY <2>1, <2>3, <2>4 DEF SpentOnRecords, Recorded
<1>7. CASE LaneWork
  <2>1. ASSUME NEW s \in Sockets, Deliver(s)
        PROVE  UNCHANGED <<spent, shown, lane>>
    BY <2>1 DEF Deliver
  <2>2. CASE BeginLive
    <3>1. Begin("rx", Head(rxTail)) /\ UNCHANGED <<spent, shown>>
      BY <2>2 DEF BeginLive, Begin
    <3> QED BY <3>1, <1>2 DEF Lanes
  <2>3. ASSUME NEW m \in Messages, BeginDrained(m)
        PROVE  SpentOnRecords'
    <3>1. Begin("login", m) /\ UNCHANGED <<spent, shown>>
      BY <2>3 DEF BeginDrained, Begin
    <3> QED BY <3>1, <1>2 DEF Lanes
  <2> QED BY <1>1, <1>3, <1>4, <1>5, <1>7, <2>1, <2>2, <2>3 DEF LaneWork
<1>8. CASE ServerWork \/ LoginWork \/ Outside \/ LoginStart \/ LoginFails \/ UNCHANGED vars
  BY <1>1, <1>8 DEF ServerWork, LoginWork, Outside, LoginStart, LoginFails, PushLive, PushBacklog,
     HandleAck, Attach, Detach, Send, Age, Fetch, AckDrained, ConnectWs, vars, client
<1>9. ASSUME NEW s \in Sockets, Drop(s)
      PROVE  UNCHANGED <<spent, shown, lane>>
  BY <1>9 DEF Drop
<1> QED BY <1>1, <1>6, <1>7, <1>8, <1>9 DEF CalmNext

LEMMA RecordsStay ==
  ASSUME TypeOK, OneLane, SpentOnRecords, [CalmNext]_vars
  PROVE  \A m \in Messages : Recorded(m) => Recorded(m)'
<1>1. CASE UNCHANGED shown
  BY <1>1 DEF Recorded
<1>2. ASSUME NEW l \in Lanes, Record(l)
      PROVE  \A m \in Messages : Recorded(m) => Recorded(m)'
  <2>1. shown' = [shown EXCEPT ![lane[l].msg] = @ + 1] /\ ~Recorded(lane[l].msg)
    BY <1>2 DEF Record, SpentOnRecords
  <2> QED BY <2>1 DEF TypeOK, Recorded
<1>3. CASE LaneWork
  <2>1. ASSUME ~(\E l \in Lanes : Record(l))
        PROVE  UNCHANGED shown
    BY <1>3, <2>1 DEF LaneWork, Deliver, BeginLive, BeginDrained, Begin, Save, Discard, RecordFails
  <2> QED BY <1>1, <1>2, <2>1
<1>4. CASE ServerWork \/ LoginWork \/ Outside \/ UNCHANGED vars
  BY <1>1, <1>4 DEF ServerWork, LoginWork, Outside, PushLive, PushBacklog,
     HandleAck, Attach, Detach, Send, Age, Fetch, AckDrained, ConnectWs, vars, client
<1>5. CASE LoginStart \/ LoginFails \/ Lock \/ CloseTab \/ \E s \in Sockets : Drop(s)
  BY <1>1, <1>5 DEF LoginStart, LoginFails, Lock, CloseTab, Drop
<1> QED BY <1>3, <1>4, <1>5 DEF CalmNext

(* An answer names what was recorded: at the end of Record, or before it. *)
LEMMA AnswersAreRecords ==
  ASSUME TypeOK, AcksAreRecords, NEW l \in Lanes, NEW m \in opened, Answer(l, m), lane[l] # Rest
  PROVE  /\ \A s \in Sockets : \A n \in up'[s] : n = m \/ Recorded(n)
         /\ login'.pc = "draining" => \A n \in login'.acks : n = m \/ Recorded(n)
<1>1. CASE l = "login"
  <2>1. login.pc = "draining" /\ up' = up /\ login' = [login EXCEPT !.acks = @ \cup {m}]
    BY <1>1 DEF Answer, TypeOK
  <2>2. login = Draining(login.todo, login.acks)
    BY <2>1, LoginForms DEF TypeOK
  <2>3. login'.acks = login.acks \cup {m}
    BY <2>1, <2>2 DEF Draining
  <2> QED BY <2>1, <2>3 DEF AcksAreRecords
<1>2. CASE l # "login"
  <2>1. login' = login /\ (up' = up \/ up' = [up EXCEPT ![ws] = @ \cup {m}])
    BY <1>2 DEF Answer
  <2>2. \A s \in Sockets : up'[s] \subseteq up[s] \cup {m}
    BY <2>1 DEF TypeOK
  <2> QED BY <2>1, <2>2 DEF AcksAreRecords
<1> QED BY <1>1, <1>2

LEMMA CalmAcks ==
  ASSUME TypeOK, OneLane, SpentOnRecords, AcksAreRecords, [CalmNext]_vars
  PROVE  AcksAreRecords'
<1>0. /\ \A m \in Messages : Recorded(m) => Recorded(m)'
      /\ opened \subseteq Messages
      /\ \A s \in Sockets : up[s] \subseteq Messages
      /\ login.pc = "draining" => login.acks \subseteq Messages
  BY RecordsStay, LoginForms DEF TypeOK, posted
<1>1. ASSUME \A s \in Sockets : up'[s] \subseteq up[s],
             login'.pc = "draining" => login.pc = "draining" /\ login'.acks = login.acks
      PROVE  AcksAreRecords'
  BY <1>0, <1>1 DEF AcksAreRecords
<1>2. ASSUME NEW l \in Lanes, Discard(l) \/ Record(l)
      PROVE  AcksAreRecords'
  <2> DEFINE m == lane[l].msg
  <2>1. Answer(l, m) /\ lane[l].pc \in {"loaded", "saved"}
    BY <1>2 DEF Discard, Record
  <2>2. CASE Discard(l)
    <3>1. m \in opened /\ lane[l] # Rest /\ Recorded(m)
      BY <2>2, LaneForms, DiscardsRecords DEF Discard, TypeOK
    <3>2. shown' = shown
      BY <2>2 DEF Discard
    <3>3. /\ \A s \in Sockets : \A n \in up'[s] : Recorded(n)
          /\ login'.pc = "draining" => \A n \in login'.acks : Recorded(n)
      BY <2>1, <3>1, AnswersAreRecords
    <3> QED BY <3>2, <3>3 DEF AcksAreRecords, Recorded
  <2>3. CASE Record(l)
    <3>1. m \in opened /\ lane[l] # Rest /\ ~Recorded(m)
      BY <2>3, LaneForms DEF Record, TypeOK, SpentOnRecords
    <3>2. shown[m] = 0 /\ shown' = [shown EXCEPT ![m] = @ + 1]
      BY <1>0, <2>3, <3>1 DEF Record, SpentOnRecords, Recorded
    <3>3. shown'[m] = 1
      BY <1>0, <3>1, <3>2 DEF TypeOK
    <3>4. /\ \A s \in Sockets : \A n \in up'[s] : n = m \/ shown[n] = 1
          /\ login'.pc = "draining" => \A n \in login'.acks : n = m \/ shown[n] = 1
      BY <2>1, <3>1, AnswersAreRecords DEF Recorded
    <3>5. \A n : shown[n] = 1 => shown'[n] = 1
      BY <3>2, <3>3
    <3> QED BY <3>3, <3>4, <3>5 DEF AcksAreRecords, Recorded
  <2> QED BY <1>2, <2>2, <2>3
<1>3. CASE LaneWork
  <2>1. ASSUME NEW s \in Sockets, Deliver(s)
        PROVE  AcksAreRecords'
    BY <1>1, <2>1 DEF Deliver
  <2>2. CASE BeginLive
    BY <1>1, <2>2 DEF BeginLive, Begin, wire
  <2>3. ASSUME NEW m \in Messages, BeginDrained(m)
        PROVE  AcksAreRecords'
    <3>1. login.pc = "draining" /\ up' = up /\ login' = [login EXCEPT !.todo = @ \ {m}]
      BY <2>3 DEF BeginDrained, Begin, wire
    <3>2. login = Draining(login.todo, login.acks)
      BY <3>1, LoginForms DEF TypeOK
    <3>3. login'.acks = login.acks
      BY <3>1, <3>2 DEF Draining
    <3> QED BY <1>1, <3>1, <3>3
  <2>4. ASSUME NEW l \in Lanes, Save(l) \/ RecordFails(l)
        PROVE  AcksAreRecords'
    <3>1. up' = up /\ (login' = login \/ login' = LoginIdle)
      BY <2>4 DEF Save, RecordFails, wire
    <3> QED BY <1>1, <3>1, LoginForms
  <2> QED BY <1>2, <1>3, <2>1, <2>2, <2>3, <2>4 DEF LaneWork
<1>4. CASE ServerWork \/ \E s \in Sockets : Drop(s)
  <2>1. login' = login
    BY <1>4 DEF ServerWork, PushLive, PushBacklog, HandleAck, Attach, Detach, Drop, client
  <2>2. \A s \in Sockets : up'[s] \subseteq up[s]
    <3>1. CASE up' = up
      BY <3>1
    <3>2. ASSUME NEW s \in Sockets, NEW m \in Messages, up' = [up EXCEPT ![s] = @ \ {m}]
          PROVE  \A t \in Sockets : up'[t] \subseteq up[t]
      BY <3>2 DEF TypeOK
    <3>3. ASSUME NEW s \in Sockets, up' = [up EXCEPT ![s] = {}]
          PROVE  \A t \in Sockets : up'[t] \subseteq up[t]
      BY <3>3 DEF TypeOK
    <3> QED BY <1>4, <3>1, <3>2, <3>3 DEF ServerWork, PushLive, PushBacklog, HandleAck, Attach, Detach,
              Drop, Release, wire
  <2> QED BY <1>1, <2>1, <2>2
<1>5. CASE Fetch
  <2>1. up' = up /\ login' = Draining(Swept, {})
    BY <1>5 DEF Fetch, wire
  <2>2. login'.acks = {}
    BY <2>1 DEF Draining
  <2> QED BY <1>0, <2>1, <2>2 DEF AcksAreRecords
<1>6. CASE AckDrained \/ (\E s \in Sockets : ConnectWs(s)) \/ LoginStart \/ LoginFails
  <2>1. up' = up /\ login' \in {LoginIdle, LoginPhase("fetching"), LoginPhase("connecting")}
    BY <1>6 DEF AckDrained, ConnectWs, LoginStart, LoginFails, wire
  <2>2. login'.pc # "draining"
    BY <2>1, LoginForms
  <2> QED BY <1>1, <2>1, <2>2
<1>7. CASE Outside \/ Lock \/ CloseTab \/ UNCHANGED vars
  <2>1. up' = up /\ (login' = login \/ login' = LoginIdle)
    BY <1>7 DEF Outside, Send, Age, Lock, CloseTab, vars, wire, client
  <2> QED BY <1>1, <2>1, LoginForms
<1>8. CASE CalmNext
  BY <1>3, <1>4, <1>5, <1>6, <1>7, <1>8 DEF CalmNext, LoginWork
<1> QED BY <1>7, <1>8

LEMMA CalmStepHolds == CalmInv /\ [CalmNext]_vars => CalmInv'
<1> SUFFICES ASSUME CalmInv, [CalmNext]_vars
             PROVE  CalmInv'
  OBVIOUS
<1>1. TypeOK'
  BY CalmIsNext, StepTyped DEF CalmInv
<1>2. OneLane' /\ SpentOnRecords' /\ AcksAreRecords'
  BY CalmOneLane, CalmSpent, CalmAcks DEF CalmInv
<1> QED BY <1>1, <1>2 DEF CalmInv

LEMMA CalmInitHolds == Init => CalmInv
<1> SUFFICES ASSUME Init
             PROVE  CalmInv
  OBVIOUS
<1>1. OneLane
  BY DEF Init, OneLane
<1>2. lane = [l \in Lanes |-> Rest] /\ spent = {} /\ \A m \in Messages : shown[m] = 0
  BY DEF Init
<1>3. SpentOnRecords
  BY <1>2, LaneForms DEF SpentOnRecords, Recorded
<1>4. AcksAreRecords
  <2>1. login.pc = "idle"
    BY LoginForms DEF Init
  <2> QED BY <2>1 DEF Init, AcksAreRecords
<1> QED BY <1>1, <1>3, <1>4, InitTyped DEF CalmInv

-----------------------------------------------------------------------------
(* The refinement: every step of the calm environment is a step of Delivery
   or leaves what it speaks of alone. *)

LEMMA StepDelivers == CalmInv /\ [CalmNext]_vars => [D!Next]_(D!vars)
<1> SUFFICES ASSUME CalmInv, [CalmNext]_vars
             PROVE  [D!Next]_(D!vars)
  OBVIOUS
<1> USE DEF CalmInv
<1>1. ASSUME posted' = posted, UNCHANGED <<queue, aged, shown>>
      PROVE  [D!Next]_(D!vars)
  BY <1>1 DEF D!vars
<1>2. ASSUME posted' = posted, queue' = Swept, UNCHANGED <<aged, shown>>
      PROVE  [D!Next]_(D!vars)
  BY <1>2 DEF D!Next, D!Sweep, D!Swept, Swept
<1>3. ASSUME NEW done, posted' = posted, queue' = queue \ done, UNCHANGED <<aged, shown>>,
             \A m \in done : Recorded(m)
      PROVE  [D!Next]_(D!vars)
  <2>1. /\ queue \cap done \in SUBSET {m \in queue : shown[m] = 1}
        /\ queue' = queue \ (queue \cap done)
    BY <1>3 DEF Recorded
  <2>2. D!Collect
    BY <1>3, <2>1 DEF D!Collect
  <2> QED BY <2>2 DEF D!Next
<1>4. ASSUME NEW m \in Messages, Send(m)
      PROVE  [D!Next]_(D!vars)
  <2>1. UNCHANGED <<aged, shown>>
    BY <1>4 DEF Send, client
  <2>2. \/ posted' = posted /\ queue' = Swept
        \/ posted' = posted \cup {m} /\ m \notin posted /\ queue' = Swept \cup {m}
    BY <1>4, SendPosts
  <2>3. CASE posted' = posted \cup {m} /\ m \notin posted /\ queue' = Swept \cup {m}
    BY <2>1, <2>3 DEF D!Next, D!Accept, D!Swept, Swept
  <2> QED BY <1>2, <2>1, <2>2, <2>3
<1>5. ASSUME NEW m \in Messages, Age(m)
      PROVE  [D!Next]_(D!vars)
  <2>1. posted' = posted /\ m \in queue /\ aged' = aged \cup {m} /\ UNCHANGED <<queue, shown>>
    BY <1>5, SamePosted DEF Age, client
  <2> QED BY <2>1 DEF D!Next, D!Age
<1>6. CASE ServerWork
  <2>1. row' = row /\ UNCHANGED <<aged, shown>>
    BY <1>6 DEF ServerWork, PushLive, PushBacklog, HandleAck, Attach, Detach, Release, client
  <2>2. \/ queue' = queue \/ queue' = Swept
        \/ \E m \in Messages, s \in Sockets : m \in up[s] /\ queue' = queue \ {m}
    BY <1>6 DEF ServerWork, PushLive, PushBacklog, HandleAck, Attach, Detach, Release
  <2>3. \A s \in Sockets : \A m \in up[s] : Recorded(m)
    BY DEF AcksAreRecords
  <2> QED BY <1>1, <1>2, <1>3, <2>1, <2>2, <2>3, SamePosted
<1>7. CASE LoginWork
  <2>1. row' = row /\ UNCHANGED <<aged, shown>>
    BY <1>7 DEF LoginWork, Fetch, AckDrained, ConnectWs
  <2>2. \/ queue' = queue \/ queue' = Swept
        \/ login.pc = "draining" /\ queue' = queue \ login.acks
    BY <1>7 DEF LoginWork, Fetch, AckDrained, ConnectWs, Drained
  <2>3. login.pc = "draining" => \A m \in login.acks : Recorded(m)
    BY DEF AcksAreRecords
  <2> QED BY <1>1, <1>2, <1>3, <2>1, <2>2, <2>3, SamePosted
<1>8. ASSUME NEW l \in Lanes, Record(l)
      PROVE  [D!Next]_(D!vars)
  <2> DEFINE m == lane[l].msg
  <2>1. /\ UNCHANGED <<queue, row, aged>> /\ lane[l].pc = "saved"
        /\ shown' = [shown EXCEPT ![m] = @ + 1]
    BY <1>8 DEF Record, server
  <2>2. m \in posted /\ m \in Messages /\ shown[m] = 0
    BY <2>1, LaneForms DEF TypeOK, SpentOnRecords, Recorded, posted
  <2>3. posted' = posted
    BY <2>1, SamePosted
  <2>4. shown' = [shown EXCEPT ![m] = 1]
    BY <2>1, <2>2 DEF TypeOK
  <2>5. D!Read(m)
    BY <2>1, <2>2, <2>3, <2>4 DEF D!Read
  <2> QED BY <2>2, <2>5 DEF D!Next
<1>9. CASE LaneWork
  <2>1. ASSUME ~(\E l \in Lanes : Record(l))
        PROVE  UNCHANGED <<queue, row, aged, shown>>
    BY <1>9, <2>1 DEF LaneWork, Deliver, BeginLive, BeginDrained, Begin, Save, Discard, RecordFails, server
  <2> QED BY <1>1, <1>8, <2>1, SamePosted
<1>10. CASE LoginStart \/ LoginFails \/ Lock \/ CloseTab \/ (\E s \in Sockets : Drop(s)) \/ UNCHANGED vars
  <2>1. UNCHANGED <<queue, row, aged, shown>>
    BY <1>10 DEF LoginStart, LoginFails, Lock, CloseTab, Drop, Release, vars, server, client
  <2> QED BY <1>1, <2>1, SamePosted
<1>11. CASE CalmNext
  BY <1>4, <1>5, <1>6, <1>7, <1>9, <1>10, <1>11 DEF CalmNext, Outside
<1> QED BY <1>10, <1>11

LEMMA InitDelivers == Init => D!Init
BY DEF Init, D!Init, posted

(* In the calm environment one lane works at a time, a key is spent exactly for
   what is recorded or about to be, and nothing else is acknowledged. *)
THEOREM CalmHolds == CalmSpec => []CalmInv
BY CalmInitHolds, CalmStepHolds, PTL DEF CalmSpec

(* The refinement, for any number of messages, connections, dropped
   connections and closed tabs: what send_message accepted waits until it is
   recorded or too old, and recordMessage writes it once (drainInbox,
   processRatchetMessage, ack_messages). *)
THEOREM CalmRefinesDelivery == CalmSpec => DeliversSafely
<1>1. Init => D!Init
  BY InitDelivers
<1>2. CalmInv /\ [CalmNext]_vars => [D!Next]_(D!vars)
  BY StepDelivers
<1> QED BY <1>1, <1>2, CalmHolds, PTL DEF CalmSpec, DeliversSafely

-----------------------------------------------------------------------------
(* Groups.  Records, flows and envelopes by their parts. *)

LEMMA GroupParts ==
  /\ NoGroup \in Groups /\ NoGroup.members = {} /\ NoGroup.active = FALSE
  /\ \A m \in SUBSET Device, a \in BOOLEAN : Group(m, a) \in Groups
  /\ \A m, a : Group(m, a).members = m /\ Group(m, a).active = a
  /\ \A g \in Groups : /\ g = Group(g.members, g.active)
                       /\ g.members \in SUBSET Device /\ g.active \in BOOLEAN
BY DEF NoGroup, Groups, Group

CommandTypes ==
  [pc : {"rest", "save", "fan", "tell"},
   op : {"none", "invite", "add", "remove", "leave", "msg"},
   who : Device \cup {NoDevice}, base : Groups, legs : SUBSET Device]

LEMMA FlowParts ==
  /\ \A p, o, w, b, l : /\ Flow(p, o, w, b, l).pc = p /\ Flow(p, o, w, b, l).op = o
                        /\ Flow(p, o, w, b, l).who = w /\ Flow(p, o, w, b, l).base = b
                        /\ Flow(p, o, w, b, l).legs = l
  /\ Idle = Flow("rest", "none", NoDevice, NoGroup, {})
  /\ Idle \in CommandTypes
  /\ \A p \in {"rest", "save", "fan", "tell"} :
     \A o \in {"none", "invite", "add", "remove", "leave", "msg"} :
     \A w \in Device \cup {NoDevice}, b \in Groups, l \in SUBSET Device :
       Flow(p, o, w, b, l) \in CommandTypes
  /\ \A c \in CommandTypes : c = Flow(c.pc, c.op, c.who, c.base, c.legs)
<1>1. NoGroup \in Groups
  BY GroupParts
<1>2. QED
  BY <1>1 DEF Flow, Idle, CommandTypes

LEMMA IdleParts ==
  /\ Idle.pc = "rest" /\ Idle.op = "none" /\ Idle.who = NoDevice
  /\ Idle.base = NoGroup /\ Idle.legs = {}
BY DEF Idle

LEMMA EnvelopeParts ==
  /\ \A f, a, s, m : /\ Envelope(f, a, s, m).from = f /\ Envelope(f, a, s, m).action = a
                     /\ Envelope(f, a, s, m).subject = s /\ Envelope(f, a, s, m).members = m
  /\ \A f \in Device, a \in {"invite", "leave", "msg"}, m \in SUBSET Device :
       Envelope(f, a, NoDevice, m) \in Envelopes
  /\ \A f \in Device, a \in {"add", "remove"}, s \in Device, m \in SUBSET Device :
       Envelope(f, a, s, m) \in Envelopes
  /\ \A env \in Envelopes :
       /\ env = Envelope(env.from, env.action, env.subject, env.members)
       /\ env.from \in Device /\ env.members \in SUBSET Device
       /\ env.action \in {"invite", "add", "remove", "leave", "msg"}
       /\ env.action \in {"add", "remove"} => env.subject \in Device
       /\ env.action \notin {"add", "remove"} => env.subject = NoDevice
BY DEF Envelope, Envelopes

LEMMA ListeningParts ==
  /\ Listening.pc = "idle" /\ Listening.env = NoEnvelope /\ Listening.base = NoGroup
  /\ NoEnvelope.action = "none" /\ NoEnvelope.from = NoDevice
BY DEF Listening, NoEnvelope, Envelope

LEMMA BoundsTyped ==
  /\ MaxMembers \in Nat /\ MaxCommands \in Nat /\ MaxMishaps \in Nat /\ MaxMembers > 1
  /\ NoDevice \notin Device /\ IsFiniteSet(Device)
BY GroupBounds

LEMMA KnownIsValid ==
  \A d : Known(d) <=> IsValidGroup(rec[d])
BY DEF Known, LoadGroup, IsValidGroup, NoGroup

LEMMA LoadedTyped ==
  ASSUME GroupsTyped, NEW d \in Device
  PROVE  /\ LoadGroup(d) \in Groups /\ rec[d] \in Groups
         /\ Known(d) => LoadGroup(d) = rec[d] /\ rec[d] # NoGroup
         /\ ~Known(d) => LoadGroup(d) = NoGroup
<1>1. rec[d] \in Groups
  BY DEF GroupsTyped
<1>2. QED
  BY <1>1, GroupParts DEF LoadGroup, Known

(* What a command has read, by its stage. *)
LEMMA CommandForms ==
  ASSUME GroupsTyped, NEW d \in Device, CommandInHand(d)
  PROVE  /\ cmd[d] \in CommandTypes /\ d \notin cmd[d].legs
         /\ cmd[d].pc = "rest" <=> cmd[d] = Idle
         /\ cmd[d].op = "none" <=> cmd[d] = Idle
         /\ cmd[d].pc = "save" => cmd[d].op \in {"add", "remove"}
         /\ cmd[d].pc = "tell" => cmd[d].op = "add"
         /\ cmd[d].op \in {"add", "remove"} => cmd[d].who \in Device
         /\ cmd[d].op = "add" => cmd[d].who # d
         /\ cmd[d].op \notin {"add", "remove"} => cmd[d].who = NoDevice
         /\ cmd[d].op \in {"invite", "leave", "msg"} => cmd[d].pc = "fan"
<1>1. cmd[d] \in CommandTypes /\ d \notin cmd[d].legs
  BY DEF GroupsTyped, CommandTypes
<1>2. QED
  BY <1>1, IdleParts DEF CommandInHand

LEMMA AfterTyped ==
  ASSUME GroupsTyped, NEW d \in Device, CommandInHand(d), cmd[d] # Idle
  PROVE  /\ After(d) \in SUBSET Device
         /\ cmd[d].pc \in {"fan", "tell"} => Notice(d) \in Envelopes
<1>1. /\ cmd[d] \in CommandTypes /\ cmd[d].base \in Groups
      /\ cmd[d].op \in {"invite", "add", "remove", "leave", "msg"}
  BY CommandForms DEF CommandTypes
<1>2. After(d) \in SUBSET Device
  BY <1>1, GroupParts, CommandForms DEF After
<1>3. ASSUME cmd[d].pc \in {"fan", "tell"} PROVE Notice(d) \in Envelopes
  BY <1>1, <1>2, <1>3, EnvelopeParts, CommandForms DEF Notice
<1>4. QED
  BY <1>2, <1>3

-----------------------------------------------------------------------------
(* What the lanes hold, device by device. *)

StaysOut(d) ==
  Known(d) /\ ~overlap[d] =>
    /\ out[d] \cap rec[d].members = {}
    /\ d \in out[d] => ~rec[d].active

DeviceInv(d) ==
  /\ CommandInHand(d) /\ MessageInHand(d) /\ StaysOut(d)
  /\ ~overlap[d] => RecordInHand(d)

Elsewhere(d) ==
  \A e \in Device \ {d} :
    /\ rec'[e] = rec[e] /\ cmd'[e] = cmd[e] /\ rx'[e] = rx[e]
    /\ overlap'[e] = overlap[e] /\ out'[e] = out[e]

LEMMA ByDevice ==
  LaneInv <=> /\ GroupsTyped /\ \A d \in Device : DeviceInv(d)
              /\ ~made => \A d \in Device : Untouched(d)
BY DEF LaneInv, DeviceInv, StaysOut, RemovedStaysOut

LEMMA Begun ==
  ASSUME LaneInv, NEW d \in Device,
         rec[d] # NoGroup \/ Known(d) \/ cmd[d] # Idle \/ rx[d] # Listening \/ inbox[d] # <<>>
  PROVE  made
<1>1. ASSUME Untouched(d) PROVE FALSE
  BY <1>1, KnownIsValid, GroupParts DEF Untouched, IsValidGroup
<1>2. QED
  BY <1>1 DEF LaneInv

LEMMA OutTyped ==
  ASSUME LaneInv, NEW d \in Device, NEW s \in SUBSET Device, out' = [out EXCEPT ![d] = s]
  PROVE  /\ out' \in [Device -> SUBSET Device] /\ out'[d] = s
         /\ \A e \in Device : d # e => out'[e] = out[e]
BY DEF LaneInv, GroupsTyped

LEMMA OneDevice ==
  ASSUME LaneInv, NEW d \in Device, Elsewhere(d), GroupsTyped', DeviceInv(d)', made'
  PROVE  LaneInv'
<1>1. ASSUME NEW e \in Device \ {d} PROVE DeviceInv(e)'
  <2>1. DeviceInv(e)
    BY ByDevice
  <2>2. /\ rec'[e] = rec[e] /\ cmd'[e] = cmd[e] /\ rx'[e] = rx[e]
        /\ overlap'[e] = overlap[e] /\ out'[e] = out[e]
    BY DEF Elsewhere
  <2>3. /\ CommandInHand(e)' <=> CommandInHand(e)
        /\ MessageInHand(e)' <=> MessageInHand(e)
    BY <2>2 DEF CommandInHand, MessageInHand, Reading
  <2>4. LoadGroup(e)' = LoadGroup(e) /\ (Known(e)' <=> Known(e))
    BY <2>2 DEF Known, LoadGroup
  <2>5. StaysOut(e)' <=> StaysOut(e)
    BY <2>2, <2>4 DEF StaysOut
  <2>6. RecordInHand(e)' <=> RecordInHand(e)
    BY <2>2, <2>4 DEF RecordInHand, Holding, Reading
  <2>7. QED
    BY <2>1, <2>2, <2>3, <2>5, <2>6 DEF DeviceInv
<1>2. \A e \in Device : DeviceInv(e)'
  BY <1>1
<1>3. QED
  BY <1>2 DEF LaneInv, DeviceInv, StaysOut, RemovedStaysOut

(* The command lane. *)

LEMMA NewKeeps ==
  ASSUME LaneInv, NEW d \in Device, NEW others \in SUBSET Device, GroupNew(d, others)
  PROVE  LaneInv'
<1> DEFINE group == Group({d} \cup others, TRUE)
           c == Flow("fan", "invite", NoDevice, group, others)
<1>1. /\ cmd[d] = Idle /\ ~made /\ made' = TRUE /\ d \notin others
      /\ IsValidGroup(group) /\ rec' = [rec EXCEPT ![d] = group]
      /\ cmd' = [cmd EXCEPT ![d] = c] /\ commands' \in 0 .. MaxCommands
      /\ UNCHANGED <<contacts, rx, inbox, quiet, astray, alarmed, overlap, out, mishaps>>
  <2>1. commands' \in 0 .. MaxCommands
    BY BoundsTyped DEF GroupNew, Run, LaneInv, GroupsTyped
  <2>2. d \notin others
    BY DEF GroupNew, LaneInv, GroupsTyped
  <2>3. QED
    BY <2>1, <2>2 DEF GroupNew, Run, SaveGroup, Become, history
<1>2. group \in Groups /\ group.members = {d} \cup others
  BY GroupParts
<1>3. /\ c \in CommandTypes /\ c.pc = "fan" /\ c.op = "invite" /\ c.who = NoDevice
      /\ c.legs = others
  BY <1>2 DEF Flow, CommandTypes
<1>4. rx[d] = Listening /\ out[d] = {}
  BY <1>1 DEF LaneInv, Untouched
<1> HIDE DEF group, c
<1>5. GroupsTyped'
  BY <1>1, <1>2, <1>3 DEF LaneInv, GroupsTyped, CommandTypes
<1>6. Elsewhere(d)
  BY <1>1 DEF Elsewhere, LaneInv, GroupsTyped
<1>7. rec'[d] = group /\ cmd'[d] = c /\ rx'[d] = Listening /\ out'[d] = {}
  BY <1>1, <1>4 DEF LaneInv, GroupsTyped
<1>8. DeviceInv(d)'
  BY <1>3, <1>7, IdleParts, ListeningParts
     DEF DeviceInv, CommandInHand, MessageInHand, StaysOut, RecordInHand, Holding, Reading
<1>9. QED
  BY <1>1, <1>5, <1>6, <1>8, OneDevice

LEMMA RequireKeeps ==
  ASSUME LaneInv, NEW d \in Device, NEW op \in {"add", "remove", "leave"},
         NEW who \in Device \cup {NoDevice}, NEW legs \in SUBSET Device, NEW pc,
         RequireGroup(d, op, who, pc, legs), d \notin legs, quiet' \in BOOLEAN,
         \/ pc = "save" /\ op \in {"add", "remove"} /\ who \in Device /\ (op = "add" => who # d)
         \/ pc = "fan" /\ op = "leave" /\ who = NoDevice
  PROVE  LaneInv'
<1> DEFINE c == Flow(pc, op, who, rec[d], legs)
<1>1. /\ cmd[d] = Idle /\ Known(d) /\ LoadGroup(d) = rec[d] /\ rec[d] \in Groups
      /\ cmd' = [cmd EXCEPT ![d] = c] /\ commands' \in 0 .. MaxCommands
      /\ overlap' = [overlap EXCEPT ![d] = @ \/ Reading(d)]
      /\ UNCHANGED <<rec, contacts, rx, inbox, made, astray, alarmed, out, mishaps>>
  <2>1. commands' \in 0 .. MaxCommands
    BY BoundsTyped DEF RequireGroup, Run, LaneInv, GroupsTyped
  <2>2. Known(d) /\ LoadGroup(d) = rec[d] /\ rec[d] \in Groups
    BY LoadedTyped DEF RequireGroup, LaneInv
  <2>3. QED
    BY <2>1, <2>2 DEF RequireGroup, Run, Become, local
<1>2. /\ c \in CommandTypes /\ c.pc = pc /\ c.op = op /\ c.who = who
      /\ c.legs = legs /\ c.base = rec[d]
  BY <1>1 DEF Flow, CommandTypes
<1>3. (Reading(d)) \in BOOLEAN
  BY DEF Reading
<1> HIDE DEF c
<1>4. cmd' \in [Device -> CommandTypes] /\ \A e \in Device : d # e => cmd'[e] = cmd[e]
  BY <1>1, <1>2 DEF LaneInv, GroupsTyped, CommandTypes
<1>5. overlap' \in [Device -> BOOLEAN] /\ \A e \in Device : d # e => overlap'[e] = overlap[e]
  BY <1>1, <1>3 DEF LaneInv, GroupsTyped
<1>6. cmd'[d] = c /\ (overlap'[d] <=> overlap[d] \/ Reading(d))
  BY <1>1 DEF LaneInv, GroupsTyped
<1>7. GroupsTyped'
  BY <1>1, <1>2, <1>4, <1>5, <1>6 DEF LaneInv, GroupsTyped, CommandTypes
<1>8. Elsewhere(d)
  BY <1>1, <1>4, <1>5 DEF Elsewhere
<1>9. DeviceInv(d)'
  <2>1. DeviceInv(d)
    BY ByDevice
  <2>2. Known(d)' /\ LoadGroup(d)' = rec[d] /\ (Reading(d)' <=> Reading(d))
    BY <1>1 DEF Known, LoadGroup, Reading
  <2>3. CommandInHand(d)' /\ MessageInHand(d)'
    BY <1>1, <1>2, <1>6, <2>1, <2>2 DEF DeviceInv, CommandInHand, MessageInHand
  <2>4. StaysOut(d)'
    BY <1>1, <1>6, <2>1, <2>2 DEF DeviceInv, StaysOut
  <2>5. ~overlap'[d] => RecordInHand(d)'
    BY <1>1, <1>2, <1>6, <2>2 DEF RecordInHand
  <2>6. QED
    BY <2>3, <2>4, <2>5 DEF DeviceInv
<1>10. QED
  BY <1>1, <1>7, <1>8, <1>9, Begun, OneDevice

(* A command that holds a record has it as it is stored, unless the lanes have
   met over it. *)
LEMMA SaveChangeKeeps ==
  ASSUME LaneInv, NEW d \in Device, SaveChange(d)
  PROVE  LaneInv'
<1> DEFINE g == Group(After(d), cmd[d].base.active)
           c == [cmd[d] EXCEPT !.pc = "fan"]
<1>1. /\ DeviceInv(d) /\ cmd[d] \in CommandTypes /\ cmd[d].pc = "save"
      /\ cmd[d].op \in {"add", "remove"} /\ cmd[d].who \in Device /\ d \notin cmd[d].legs
      /\ cmd[d].op = "add" => cmd[d].who # d
      /\ cmd[d] # Idle /\ cmd[d].base \in Groups /\ After(d) \in SUBSET Device
  <2>1. DeviceInv(d) /\ CommandInHand(d) /\ GroupsTyped /\ cmd[d].pc = "save"
    BY ByDevice DEF DeviceInv, SaveChange
  <2>2. cmd[d] # Idle
    BY <2>1, IdleParts
  <2>3. QED
    BY <2>1, <2>2, CommandForms, AfterTyped DEF CommandTypes
<1>2. /\ rec' = [rec EXCEPT ![d] = g] /\ cmd' = [cmd EXCEPT ![d] = c]
      /\ UNCHANGED <<contacts, rx, inbox, made, quiet, astray, alarmed, overlap,
                     commands, mishaps>>
  BY DEF SaveChange, SaveGroup, Become
<1>3. \/ cmd[d].op = "add" /\ out' = [out EXCEPT ![d] = @ \ {cmd[d].who}]
      \/ cmd[d].op = "remove" /\ cmd[d].who = d /\ out' = out
      \/ cmd[d].op = "remove" /\ out' = [out EXCEPT ![d] = @ \cup {cmd[d].who}]
  BY <1>1 DEF SaveChange, Named, Gone
<1>4. g \in Groups /\ g.members = After(d) /\ g.active = cmd[d].base.active
  BY <1>1, GroupParts
<1>5. /\ c \in CommandTypes /\ c.pc = "fan" /\ c.op = cmd[d].op /\ c.who = cmd[d].who
      /\ c.legs = cmd[d].legs
  BY <1>1 DEF CommandTypes
<1> HIDE DEF g, c
<1>6. out' \in [Device -> SUBSET Device] /\ \A e \in Device : d # e => out'[e] = out[e]
  <2>1. out[d] \cup {cmd[d].who} \in SUBSET Device /\ out[d] \ {cmd[d].who} \in SUBSET Device
    BY <1>1 DEF LaneInv, GroupsTyped
  <2>2. out \in [Device -> SUBSET Device]
    BY DEF LaneInv, GroupsTyped
  <2>3. CASE out' = out
    BY <2>2, <2>3
  <2>4. CASE out' = [out EXCEPT ![d] = out[d] \cup {cmd[d].who}]
    BY <2>1, <2>2, <2>4
  <2>5. CASE out' = [out EXCEPT ![d] = out[d] \ {cmd[d].who}]
    BY <2>1, <2>2, <2>5
  <2>6. QED
    BY <1>3, <2>3, <2>4, <2>5
<1>7. /\ rec'[d] = g /\ cmd'[d] = c /\ rec' \in [Device -> Groups] /\ cmd' \in [Device -> CommandTypes]
      /\ \A e \in Device : d # e => rec'[e] = rec[e] /\ cmd'[e] = cmd[e]
  BY <1>2, <1>4, <1>5 DEF LaneInv, GroupsTyped, CommandTypes
<1>8. GroupsTyped'
  BY <1>1, <1>2, <1>5, <1>6, <1>7 DEF LaneInv, GroupsTyped, CommandTypes
<1>9. Elsewhere(d)
  BY <1>2, <1>6, <1>7 DEF Elsewhere
<1>10. DeviceInv(d)'
  <2>1. CommandInHand(d)' /\ MessageInHand(d)'
    BY <1>1, <1>2, <1>5, <1>7 DEF DeviceInv, CommandInHand, MessageInHand, Reading
  <2>2. ASSUME ~overlap[d] PROVE StaysOut(d)' /\ RecordInHand(d)'
    <3>1. Holding(d) /\ ~Reading(d) /\ Known(d) /\ cmd[d].base = rec[d]
      BY <1>1, <2>2 DEF DeviceInv, RecordInHand, Holding
    <3>2. ~Holding(d)' /\ ~Reading(d)'
      BY <1>1, <1>2, <1>5, <1>7, <3>1 DEF Holding, Reading
    <3>3. out[d] \cap rec[d].members = {} /\ (d \in out[d] => ~rec[d].active)
      BY <1>1, <2>2, <3>1 DEF DeviceInv, StaysOut
    <3>4. CASE cmd[d].op = "add"
      <4>1. After(d) = rec[d].members \cup {cmd[d].who} /\ out'[d] = out[d] \ {cmd[d].who}
        BY <1>3, <3>1, <3>4 DEF After, LaneInv, GroupsTyped
      <4>2. QED
        BY <1>4, <1>7, <3>1, <3>2, <3>3, <4>1 DEF StaysOut, RecordInHand
    <3>5. CASE cmd[d].op = "remove"
      <4>1. /\ After(d) = rec[d].members \ {cmd[d].who}
            /\ \/ cmd[d].who = d /\ out'[d] = out[d]
               \/ cmd[d].who # d /\ out'[d] = out[d] \cup {cmd[d].who}
        <5>1. After(d) = rec[d].members \ {cmd[d].who}
          BY <3>1, <3>5 DEF After
        <5>2. \/ cmd[d].who = d /\ out' = out
              \/ cmd[d].who # d /\ out' = [out EXCEPT ![d] = @ \cup {cmd[d].who}]
          BY <3>5 DEF SaveChange, Gone
        <5>3. QED
          BY <5>1, <5>2 DEF LaneInv, GroupsTyped
      <4>2. QED
        BY <1>4, <1>7, <3>1, <3>2, <3>3, <4>1 DEF StaysOut, RecordInHand
    <3>6. QED
      BY <1>1, <3>4, <3>5
  <2>3. overlap' = overlap
    BY <1>2
  <2>4. QED
    BY <2>1, <2>2, <2>3 DEF DeviceInv, StaysOut
<1>11. QED
  BY <1>1, <1>2, <1>8, <1>9, <1>10, Begun, OneDevice

LEMMA PostLegKeeps ==
  ASSUME LaneInv, NEW d \in Device, NEW u \in Device, NEW sent \in BOOLEAN,
         PostLeg(d, u, sent)
  PROVE  LaneInv'
<1> DEFINE c == [cmd[d] EXCEPT !.legs = @ \ {u}]
<1>1. /\ DeviceInv(d) /\ cmd[d] \in CommandTypes /\ cmd[d].pc \in {"fan", "tell"}
      /\ d \notin cmd[d].legs /\ cmd[d] # Idle /\ Notice(d) \in Envelopes
  <2>1. DeviceInv(d) /\ CommandInHand(d) /\ GroupsTyped /\ cmd[d].pc \in {"fan", "tell"}
    BY ByDevice DEF DeviceInv, PostLeg
  <2>2. cmd[d] # Idle
    BY <2>1, IdleParts
  <2>3. QED
    BY <2>1, <2>2, CommandForms, AfterTyped
<1>2. /\ cmd' = [cmd EXCEPT ![d] = c]
      /\ inbox' = inbox \/ inbox' = [inbox EXCEPT ![u] = Append(@, Notice(d))]
      /\ quiet' = (quiet /\ sent)
      /\ UNCHANGED <<rec, contacts, rx, made, astray, alarmed, overlap, out, commands>>
  BY DEF PostLeg, Become, local
<1>3. mishaps' \in 0 .. MaxMishaps
  BY BoundsTyped DEF PostLeg, LaneInv, GroupsTyped
<1>4. /\ c \in CommandTypes /\ c.pc = cmd[d].pc /\ c.op = cmd[d].op /\ c.who = cmd[d].who
      /\ c.base = cmd[d].base /\ d \notin c.legs
  BY <1>1 DEF CommandTypes
<1> HIDE DEF c
<1>5. inbox' \in [Device -> Seq(Envelopes)]
  <2>1. Append(inbox[u], Notice(d)) \in Seq(Envelopes)
    BY <1>1 DEF LaneInv, GroupsTyped
  <2>2. QED
    BY <1>2, <2>1 DEF LaneInv, GroupsTyped
<1>6. /\ cmd'[d] = c /\ cmd' \in [Device -> CommandTypes]
      /\ \A e \in Device : d # e => cmd'[e] = cmd[e]
  BY <1>2, <1>4 DEF LaneInv, GroupsTyped, CommandTypes
<1>7. GroupsTyped'
  BY <1>2, <1>3, <1>4, <1>5, <1>6 DEF LaneInv, GroupsTyped, CommandTypes
<1>8. Elsewhere(d)
  BY <1>2, <1>6 DEF Elsewhere
<1>9. DeviceInv(d)'
  <2>1. Known(d)' = Known(d) /\ LoadGroup(d)' = LoadGroup(d)
    BY <1>2 DEF Known, LoadGroup
  <2>2. StaysOut(d)'
    BY <1>1, <1>2, <2>1 DEF DeviceInv, StaysOut
  <2>3. CommandInHand(d)' /\ MessageInHand(d)'
    BY <1>1, <1>2, <1>4, <1>6, IdleParts DEF DeviceInv, CommandInHand, MessageInHand, Reading
  <2>4. (Holding(d)' <=> Holding(d)) /\ (Reading(d)' <=> Reading(d))
    BY <1>1, <1>2, <1>4, <1>6 DEF Holding, Reading
  <2>5. RecordInHand(d)' <=> RecordInHand(d)
    BY <1>2, <1>4, <1>6, <2>1, <2>4 DEF RecordInHand
  <2>6. QED
    BY <1>1, <1>2, <2>2, <2>3, <2>5 DEF DeviceInv
<1>10. QED
  BY <1>1, <1>2, <1>7, <1>8, <1>9, Begun, OneDevice

LEMMA FanOutDoneKeeps ==
  ASSUME LaneInv, NEW d \in Device, FanOutDone(d)
  PROVE  LaneInv'
<1>1. /\ DeviceInv(d) /\ cmd[d] \in CommandTypes /\ cmd[d].pc \in {"fan", "tell"}
      /\ cmd[d] # Idle /\ After(d) \in SUBSET Device /\ cmd[d].base \in Groups
      /\ cmd[d].op = "add" => cmd[d].who \in Device
  <2>1. DeviceInv(d) /\ CommandInHand(d) /\ GroupsTyped /\ cmd[d].pc \in {"fan", "tell"}
    BY ByDevice DEF DeviceInv, FanOutDone
  <2>2. cmd[d] # Idle
    BY <2>1, IdleParts
  <2>3. QED
    BY <2>1, <2>2, CommandForms, AfterTyped DEF CommandTypes
<1>2. UNCHANGED <<contacts, rx, inbox, made, quiet, astray, alarmed, overlap, commands, mishaps>>
  BY DEF FanOutDone
<1>3. PICK c : /\ cmd' = [cmd EXCEPT ![d] = c] /\ c \in CommandTypes /\ d \notin c.legs
               /\ \/ c = Idle
                  \/ cmd[d].op = "add" /\ c.op = "add" /\ c.pc = "tell" /\ c.who = cmd[d].who
  <2>1. CASE cmd[d].op = "add" /\ cmd[d].pc = "fan"
    <3> DEFINE n == [cmd[d] EXCEPT !.pc = "tell", !.legs = cmd[d].base.members \ {d}]
    <3>1. /\ n \in CommandTypes /\ n.op = "add" /\ n.pc = "tell" /\ n.who = cmd[d].who
          /\ d \notin n.legs
      BY <1>1, <2>1, GroupParts DEF CommandTypes
    <3>2. cmd' = [cmd EXCEPT ![d] = n]
      BY <2>1 DEF FanOutDone, Become
    <3>3. QED
      BY <2>1, <3>1, <3>2
  <2>2. CASE ~(cmd[d].op = "add" /\ cmd[d].pc = "fan")
    <3>1. cmd' = [cmd EXCEPT ![d] = Idle]
      BY <2>2 DEF FanOutDone, Become
    <3>2. QED
      BY <3>1, FlowParts, IdleParts
  <2>3. QED
    BY <2>1, <2>2
<1>4. /\ cmd'[d] = c /\ cmd' \in [Device -> CommandTypes]
      /\ \A e \in Device : d # e => cmd'[e] = cmd[e]
  BY <1>3 DEF LaneInv, GroupsTyped, CommandTypes
<1>5. \/ cmd[d].op # "leave" /\ UNCHANGED <<rec, out>>
      \/ /\ cmd[d].op = "leave" /\ c = Idle
         /\ rec' = [rec EXCEPT ![d] = Group(After(d), FALSE)]
         /\ out' = [out EXCEPT ![d] = out[d] \cup {d}]
  BY <1>3 DEF FanOutDone, SaveGroup, Gone
<1>6. /\ rec' \in [Device -> Groups] /\ \A e \in Device : d # e => rec'[e] = rec[e]
      /\ cmd[d].op = "leave" => rec'[d] = Group(After(d), FALSE)
  <2>1. Group(After(d), FALSE) \in Groups
    BY <1>1 DEF Group, Groups
  <2>2. CASE cmd[d].op # "leave"
    BY <1>5, <2>2 DEF LaneInv, GroupsTyped
  <2>3. CASE cmd[d].op = "leave"
    <3>1. rec' = [rec EXCEPT ![d] = Group(After(d), FALSE)]
      BY <1>5, <2>3
    <3>2. QED
      BY <2>1, <3>1 DEF LaneInv, GroupsTyped
  <2>4. QED
    BY <2>2, <2>3
<1>7. /\ out' \in [Device -> SUBSET Device] /\ \A e \in Device : d # e => out'[e] = out[e]
      /\ cmd[d].op = "leave" => out'[d] = out[d] \cup {d}
  <2>1. out[d] \cup {d} \in SUBSET Device
    BY DEF LaneInv, GroupsTyped
  <2>2. out \in [Device -> SUBSET Device]
    BY DEF LaneInv, GroupsTyped
  <2>3. CASE cmd[d].op # "leave"
    <3>1. out' = out
      BY <1>5, <2>3
    <3>2. QED
      BY <2>2, <2>3, <3>1
  <2>4. CASE cmd[d].op = "leave"
    <3>1. out' = [out EXCEPT ![d] = out[d] \cup {d}]
      BY <1>5, <2>4
    <3>2. QED
      BY <2>1, <2>2, <3>1
  <2>5. QED
    BY <2>3, <2>4
<1>8. GroupsTyped'
  BY <1>2, <1>3, <1>4, <1>6, <1>7 DEF LaneInv, GroupsTyped, CommandTypes
<1>9. Elsewhere(d)
  BY <1>2, <1>4, <1>6, <1>7 DEF Elsewhere
<1>10. DeviceInv(d)'
  <2>1. CommandInHand(d)'
    BY <1>1, <1>3, <1>4 DEF DeviceInv, CommandInHand
  <2>2. MessageInHand(d)'
    BY <1>1, <1>2 DEF DeviceInv, MessageInHand, Reading
  <2>3. ~Holding(d)' /\ (Reading(d)' <=> Reading(d))
    BY <1>2, <1>3, <1>4, IdleParts DEF Holding, Reading
  <2>4. CASE cmd[d].op # "leave"
    <3>1. Known(d)' = Known(d) /\ LoadGroup(d)' = LoadGroup(d) /\ rec' = rec /\ out' = out
      BY <1>5, <2>4 DEF Known, LoadGroup
    <3>2. StaysOut(d)'
      BY <1>1, <1>2, <3>1 DEF DeviceInv, StaysOut
    <3>3. ~overlap'[d] => RecordInHand(d)'
      BY <1>1, <1>2, <2>3, <3>1 DEF DeviceInv, RecordInHand
    <3>4. QED
      BY <2>1, <2>2, <3>2, <3>3 DEF DeviceInv
  <2>5. CASE cmd[d].op = "leave"
    <3>1. ASSUME ~overlap[d] PROVE StaysOut(d)' /\ RecordInHand(d)'
      <4>1. Holding(d) /\ ~Reading(d) /\ Known(d) /\ cmd[d].base = rec[d]
        BY <1>1, <2>5, <3>1 DEF DeviceInv, RecordInHand, Holding
      <4>2. After(d) = rec[d].members \ {d}
        BY <2>5, <4>1 DEF After
      <4>3. rec'[d].members = rec[d].members \ {d} /\ rec'[d].active = FALSE
        BY <1>6, <2>5, <4>2 DEF Group
      <4>4. out[d] \cap rec[d].members = {}
        BY <1>1, <3>1, <4>1 DEF DeviceInv, StaysOut
      <4>5. QED
        BY <1>7, <2>3, <2>5, <4>1, <4>3, <4>4 DEF StaysOut, RecordInHand
    <3>2. QED
      BY <1>2, <2>1, <2>2, <3>1 DEF DeviceInv, StaysOut
  <2>6. QED
    BY <2>4, <2>5
<1>11. QED
  BY <1>1, <1>2, <1>8, <1>9, <1>10, Begun, OneDevice

LEMMA SendTextKeeps ==
  ASSUME LaneInv, NEW d \in Device, SendText(d)
  PROVE  LaneInv'
<1>0. PICK group \in Fresh(d) :
        cmd' = [cmd EXCEPT ![d] = Flow("fan", "msg", NoDevice, group, group.members \ {d})]
  BY DEF SendText, Become
<1> DEFINE c == Flow("fan", "msg", NoDevice, group, group.members \ {d})
<1>1. /\ cmd[d] = Idle /\ cmd' = [cmd EXCEPT ![d] = c]
      /\ rec[d] # NoGroup /\ quiet' = (quiet /\ Orderly("msg") /\ Known(d))
      /\ UNCHANGED <<rec, contacts, rx, inbox, made, astray, alarmed, overlap, out, mishaps>>
  BY <1>0 DEF SendText, Fresh, Run, local, Known, LoadGroup
<1>2. commands' \in 0 .. MaxCommands
  BY BoundsTyped DEF SendText, Run, LaneInv, GroupsTyped
<1>3. DeviceInv(d) /\ rec[d] \in Groups /\ group \in Groups
  <2>1. DeviceInv(d) /\ rec[d] \in Groups
    BY ByDevice DEF LaneInv, GroupsTyped
  <2>2. CASE Known(d)
    BY <1>0, <2>1, <2>2 DEF Fresh
  <2>3. CASE ~Known(d)
    <3>1. PICK members \in SUBSET Device : group = Group(members, TRUE)
      BY <1>0, <2>3 DEF Fresh
    <3>2. QED
      BY <2>1, <3>1, GroupParts
  <2>4. QED
    BY <2>1, <2>2, <2>3
<1>4. /\ c \in CommandTypes /\ c.pc = "fan" /\ c.op = "msg" /\ c.who = NoDevice
      /\ d \notin c.legs
  BY <1>3, GroupParts DEF Flow, CommandTypes
<1> HIDE DEF c
<1>5. /\ cmd'[d] = c /\ cmd' \in [Device -> CommandTypes]
      /\ \A e \in Device : d # e => cmd'[e] = cmd[e]
  BY <1>1, <1>4 DEF LaneInv, GroupsTyped, CommandTypes
<1>6. GroupsTyped'
  BY <1>1, <1>2, <1>4, <1>5 DEF LaneInv, GroupsTyped, CommandTypes, Orderly, Known
<1>7. Elsewhere(d)
  BY <1>1, <1>5 DEF Elsewhere
<1>8. DeviceInv(d)'
  <2>1. Known(d)' = Known(d) /\ LoadGroup(d)' = LoadGroup(d)
    BY <1>1 DEF Known, LoadGroup
  <2>2. StaysOut(d)'
    BY <1>1, <1>3, <2>1 DEF DeviceInv, StaysOut
  <2>3. CommandInHand(d)' /\ MessageInHand(d)'
    BY <1>1, <1>3, <1>4, <1>5 DEF DeviceInv, CommandInHand, MessageInHand, Reading
  <2>4. ~Holding(d)' /\ (Reading(d)' <=> Reading(d))
    BY <1>1, <1>4, <1>5 DEF Holding, Reading
  <2>5. ~overlap'[d] => RecordInHand(d)'
    BY <1>1, <1>3, <2>1, <2>4 DEF DeviceInv, RecordInHand
  <2>6. QED
    BY <2>2, <2>3, <2>5 DEF DeviceInv
<1>9. QED
  BY <1>1, <1>6, <1>7, <1>8, Begun, OneDevice

LEMMA SyncKeeps ==
  ASSUME LaneInv, NEW d \in Device, GroupSync(d)
  PROVE  LaneInv'
<1>1. /\ contacts' = [contacts EXCEPT ![d] = @ \cup (rec[d].members \ {d})] /\ Known(d)
      /\ UNCHANGED <<rec, cmd, rx, inbox, made, quiet, astray, alarmed, overlap, out,
                     commands, mishaps>>
  BY DEF GroupSync, history
<1>2. rec[d].members \in SUBSET Device
  BY GroupParts DEF LaneInv, GroupsTyped
<1>3. GroupsTyped'
  <2>1. contacts' \in [Device -> SUBSET Device] /\ \A e \in Device : e \notin contacts'[e]
    BY <1>1, <1>2 DEF LaneInv, GroupsTyped
  <2>2. QED
    BY <1>1, <2>1 DEF LaneInv, GroupsTyped
<1>4. Elsewhere(d)
  BY <1>1 DEF Elsewhere
<1>5. DeviceInv(d)'
  BY <1>1, ByDevice
     DEF DeviceInv, CommandInHand, MessageInHand, StaysOut, RecordInHand, Holding, Reading,
         Known, LoadGroup
<1>6. QED
  BY <1>1, <1>3, <1>4, <1>5, Begun, OneDevice

LEMMA PurgeKeeps ==
  ASSUME LaneInv, NEW d \in Device, GroupPurge(d)
  PROVE  LaneInv'
<1>1. /\ cmd[d] = Idle /\ Known(d) /\ rec' = [rec EXCEPT ![d] = NoGroup]
      /\ out' = [out EXCEPT ![d] = {}] /\ overlap' = [overlap EXCEPT ![d] = Reading(d)]
      /\ quiet' \in BOOLEAN
      /\ UNCHANGED <<contacts, cmd, rx, inbox, made, astray, alarmed, commands, mishaps>>
  BY DEF GroupPurge, SaveGroup, LaneInv, GroupsTyped
<1>2. /\ rec' \in [Device -> Groups] /\ rec'[d] = NoGroup
      /\ \A e \in Device : d # e => rec'[e] = rec[e]
  BY <1>1, GroupParts DEF LaneInv, GroupsTyped
<1>3. /\ overlap' \in [Device -> BOOLEAN] /\ (overlap'[d] <=> Reading(d))
      /\ \A e \in Device : d # e => overlap'[e] = overlap[e]
  BY <1>1 DEF LaneInv, GroupsTyped, Reading
<1>4. GroupsTyped'
  BY <1>1, <1>2, <1>3, OutTyped DEF LaneInv, GroupsTyped
<1>5. Elsewhere(d)
  BY <1>1, <1>2, <1>3, OutTyped DEF Elsewhere
<1>6. DeviceInv(d)'
  <2>1. DeviceInv(d)
    BY ByDevice
  <2>2. ~Known(d)'
    BY <1>2, GroupParts DEF Known, LoadGroup, IsValidGroup
  <2>3. ~Holding(d)' /\ (Reading(d)' <=> Reading(d))
    BY <1>1, IdleParts DEF Holding, Reading
  <2>4. CommandInHand(d)' /\ MessageInHand(d)'
    BY <1>1, <2>1 DEF DeviceInv, CommandInHand, MessageInHand, Reading
  <2>5. QED
    BY <1>3, <2>2, <2>3, <2>4 DEF DeviceInv, StaysOut, RecordInHand
<1>7. QED
  BY <1>1, <1>4, <1>5, <1>6, Begun, OneDevice

(* The receive lane. *)

LEMMA FirstMessageTyped ==
  ASSUME LaneInv, NEW d \in Device, ReadNext(d)
  PROVE  /\ Head(inbox[d]) \in Envelopes /\ inbox' \in [Device -> Seq(Envelopes)]
         /\ inbox' = [inbox EXCEPT ![d] = Tail(inbox[d])]
<1>1. inbox[d] \in Seq(Envelopes) /\ inbox[d] # <<>>
  BY DEF LaneInv, GroupsTyped, ReadNext
<1>2. Head(inbox[d]) \in Envelopes /\ Tail(inbox[d]) \in Seq(Envelopes)
  BY <1>1
<1>3. QED
  BY <1>2 DEF LaneInv, GroupsTyped, ReadNext

LEMMA ReadKeeps ==
  ASSUME LaneInv, NEW d \in Device, ReadNext(d)
  PROVE  LaneInv'
<1> DEFINE env == Head(inbox[d])
<1>1. /\ env \in Envelopes /\ inbox' \in [Device -> Seq(Envelopes)]
      /\ rx[d] = Listening /\ inbox[d] # <<>>
      /\ UNCHANGED <<rec, contacts, cmd, made, out, commands, mishaps>>
      /\ Refuse(d, env) \/ ShowText(d, env) \/ TakeUp(d, env)
  BY FirstMessageTyped DEF ReadNext, local
<1>2. DeviceInv(d) /\ made
  BY <1>1, ByDevice, Begun
<1> HIDE DEF env
<1>3. CASE rx' = rx /\ overlap' = overlap /\ {quiet', astray', alarmed'} \subseteq BOOLEAN
  <2>1. GroupsTyped'
    BY <1>1, <1>3 DEF LaneInv, GroupsTyped
  <2>2. Elsewhere(d)
    BY <1>1, <1>3 DEF Elsewhere
  <2>3. DeviceInv(d)'
    BY <1>1, <1>2, <1>3
       DEF DeviceInv, CommandInHand, MessageInHand, StaysOut, RecordInHand, Holding, Reading,
           Known, LoadGroup
  <2>4. QED
    BY <1>1, <1>2, <2>1, <2>2, <2>3, OneDevice
<1>4. CASE Refuse(d, env) \/ ShowText(d, env)
  BY <1>3, <1>4 DEF Refuse, ShowText, Warn, LaneInv, GroupsTyped
<1>5. CASE TakeUp(d, env)
  <2> DEFINE r == [pc |-> "apply", env |-> env, base |-> LoadGroup(d)]
  <2>1. /\ rx' = [rx EXCEPT ![d] = r]
        /\ overlap' = [overlap EXCEPT ![d] = @ \/ Holding(d)]
        /\ UNCHANGED <<quiet, astray, alarmed>>
        /\ ~Refused(d, env) /\ (Known(d) => env.action \notin {"invite", "msg"})
    BY <1>5 DEF TakeUp
  <2>2. /\ r \in [pc : {"idle", "apply"}, env : Envelopes \cup {NoEnvelope}, base : Groups]
        /\ r.pc = "apply" /\ r.env = env /\ r.base = LoadGroup(d)
    BY <1>1, LoadedTyped DEF LaneInv
  <2>3. (Holding(d)) \in BOOLEAN
    BY DEF Holding
  <2> HIDE DEF r
  <2>4. /\ rx' \in [Device -> [pc : {"idle", "apply"}, env : Envelopes \cup {NoEnvelope},
                               base : Groups]]
        /\ rx'[d] = r /\ \A e \in Device : d # e => rx'[e] = rx[e]
    BY <2>1, <2>2 DEF LaneInv, GroupsTyped
  <2>5. /\ overlap' \in [Device -> BOOLEAN] /\ (overlap'[d] <=> overlap[d] \/ Holding(d))
        /\ \A e \in Device : d # e => overlap'[e] = overlap[e]
    BY <2>1, <2>3 DEF LaneInv, GroupsTyped
  <2>6. GroupsTyped'
    BY <1>1, <2>1, <2>4, <2>5 DEF LaneInv, GroupsTyped
  <2>7. Elsewhere(d)
    BY <1>1, <2>4, <2>5 DEF Elsewhere
  <2>8. Known(d)' = Known(d) /\ LoadGroup(d)' = LoadGroup(d)
    BY <1>1 DEF Known, LoadGroup
  <2>9. Reading(d)' /\ (Holding(d)' <=> Holding(d))
    BY <1>1, <2>2, <2>4 DEF Reading, Holding
  <2>10. MessageInHand(d)'
    <3>1. env.from # d
      BY <2>1 DEF Refused, LaneInv, GroupsTyped
    <3>2. IF LoadGroup(d) = NoGroup THEN env.action = "invite"
                                    ELSE env.action \in {"add", "remove", "leave"}
      BY <1>1, <2>1, EnvelopeParts DEF Refused, Known
    <3>3. QED
      BY <1>1, <2>2, <2>4, <2>9, <3>1, <3>2 DEF MessageInHand
  <2>11. CommandInHand(d)' /\ StaysOut(d)'
    BY <1>1, <1>2, <2>5, <2>8 DEF DeviceInv, CommandInHand, StaysOut
  <2>12. ~overlap'[d] => RecordInHand(d)'
    BY <1>1, <1>2, <2>2, <2>4, <2>5, <2>8, <2>9 DEF DeviceInv, RecordInHand
  <2>13. DeviceInv(d)'
    BY <2>10, <2>11, <2>12 DEF DeviceInv
  <2>14. QED
    BY <1>1, <1>2, <2>6, <2>7, <2>13, OneDevice
<1>6. QED
  BY <1>1, <1>4, <1>5

(* What a record becomes when a message is applied to it. *)
LEMMA AnnouncedParts ==
  ASSUME NEW env \in Envelopes, NEW m \in SUBSET Device
  PROVE  /\ Announced(m, env) \in SUBSET Device
         /\ env.action = "add" => Announced(m, env) = m \cup {env.subject}
         /\ env.action = "remove" => Announced(m, env) = m \ {env.subject}
         /\ env.action = "leave" => Announced(m, env) = m \ {env.from}
<1>1. /\ env.action \in {"invite", "add", "remove", "leave", "msg"}
      /\ env.action \in {"add", "remove"} => env.subject \in Device
  BY EnvelopeParts
<1>2. QED
  BY <1>1 DEF Announced

LEMMA ApplyKeeps ==
  ASSUME LaneInv, NEW d \in Device, Apply(d)
  PROVE  LaneInv'
<1> DEFINE env == rx[d].env
           base == rx[d].base
<1>1. /\ DeviceInv(d) /\ Reading(d) /\ env \in Envelopes /\ env.from # d /\ base \in Groups
      /\ env.action \in (IF base = NoGroup THEN {"invite"} ELSE {"add", "remove", "leave"})
      /\ rx[d] # Listening
  <2>1. DeviceInv(d) /\ Reading(d) /\ rx[d] # Listening
    BY ByDevice, ListeningParts DEF Apply, Reading
  <2>2. MessageInHand(d)
    BY <2>1 DEF DeviceInv
  <2>3. base \in Groups
    BY DEF LaneInv, GroupsTyped
  <2>4. QED
    BY <2>1, <2>2, <2>3 DEF MessageInHand
<1>2. /\ rx' = [rx EXCEPT ![d] = Listening]
      /\ UNCHANGED <<contacts, cmd, inbox, made, quiet, astray, overlap, commands, mishaps>>
  BY DEF Apply
<1>3. PICK g \in Groups, s \in SUBSET Device :
        /\ rec' = [rec EXCEPT ![d] = g] /\ out' = [out EXCEPT ![d] = s]
        /\ \/ s = {}
           \/ /\ base # NoGroup
              /\ \/ g.members = base.members \cup {env.subject} /\ s = out[d] \ {env.subject}
                 \/ /\ g.members = base.members \ {env.subject}
                    /\ s = out[d] \cup {env.subject} /\ (env.subject = d => ~g.active)
                 \/ g.members = base.members \ {env.from} /\ s = out[d] \cup {env.from}
              /\ g.active => base.active
  <2>1. CASE Join(d)
    <3> DEFINE h == Group(env.members, TRUE)
    <3>1. rec' = [rec EXCEPT ![d] = h] /\ out' = [out EXCEPT ![d] = {}]
      BY <2>1 DEF Join, SaveGroup
    <3>2. h \in Groups
      BY <1>1, EnvelopeParts DEF Group, Groups
    <3>3. QED
      BY <3>1, <3>2
  <2>2. CASE ApplyChange(d)
    <3> DEFINE left == env.action = "remove" /\ env.subject = d
               h == Group(Announced(base.members, env), base.active /\ ~left)
    <3>1. base # NoGroup /\ rec' = [rec EXCEPT ![d] = h]
      BY <2>2 DEF ApplyChange, SaveGroup
    <3>2. base.members \in SUBSET Device /\ base.active \in BOOLEAN
      BY <1>1 DEF Groups
    <3>3. /\ h \in Groups /\ h.members = Announced(base.members, env)
          /\ h.active = (base.active /\ ~left)
      BY <1>1, <3>2, AnnouncedParts DEF Group, Groups
    <3> HIDE DEF h
    <3>4. CASE env.action = "add"
      <4>1. out' = [out EXCEPT ![d] = out[d] \ {env.subject}]
        BY <2>2, <3>4 DEF ApplyChange, Named
      <4>2. out[d] \ {env.subject} \in SUBSET Device
        BY DEF LaneInv, GroupsTyped
      <4>3. h.members = base.members \cup {env.subject} /\ (h.active => base.active)
        BY <1>1, <3>2, <3>3, <3>4, AnnouncedParts
      <4>4. QED
        BY <3>1, <3>3, <4>1, <4>2, <4>3
    <3>5. CASE env.action = "remove"
      <4>1. out' = [out EXCEPT ![d] = out[d] \cup {env.subject}]
        BY <2>2, <3>5 DEF ApplyChange, Gone
      <4>2. out[d] \cup {env.subject} \in SUBSET Device
        BY <1>1, <3>5, EnvelopeParts DEF LaneInv, GroupsTyped
      <4>3. /\ h.members = base.members \ {env.subject} /\ (h.active => base.active)
            /\ env.subject = d => ~h.active
        BY <1>1, <3>2, <3>3, <3>5, AnnouncedParts
      <4>4. QED
        BY <3>1, <3>3, <4>1, <4>2, <4>3
    <3>6. CASE env.action = "leave"
      <4>1. out' = [out EXCEPT ![d] = out[d] \cup {env.from}]
        BY <2>2, <3>6 DEF ApplyChange, Gone
      <4>2. out[d] \cup {env.from} \in SUBSET Device
        BY <1>1, EnvelopeParts DEF LaneInv, GroupsTyped
      <4>3. h.members = base.members \ {env.from} /\ (h.active => base.active)
        BY <1>1, <3>2, <3>3, <3>6, AnnouncedParts
      <4>4. QED
        BY <3>1, <3>3, <4>1, <4>2, <4>3
    <3>7. QED
      BY <1>1, <3>1, <3>4, <3>5, <3>6
  <2>3. QED
    BY <2>1, <2>2 DEF Apply
<1> HIDE DEF env, base
<1>4. /\ rec' \in [Device -> Groups] /\ rec'[d] = g /\ out'[d] = s
      /\ out' \in [Device -> SUBSET Device] /\ rx'[d] = Listening
      /\ \A e \in Device : d # e => rec'[e] = rec[e] /\ out'[e] = out[e] /\ rx'[e] = rx[e]
  BY <1>2, <1>3, OutTyped DEF LaneInv, GroupsTyped
<1>5. alarmed' \in BOOLEAN
  BY DEF Apply, Join, ApplyChange, Warn, LaneInv, GroupsTyped
<1>6. rx' \in [Device -> [pc : {"idle", "apply"}, env : Envelopes \cup {NoEnvelope},
                          base : Groups]]
  <2>1. Listening \in [pc : {"idle", "apply"}, env : Envelopes \cup {NoEnvelope}, base : Groups]
    BY GroupParts DEF Listening
  <2>2. QED
    BY <1>2, <2>1 DEF LaneInv, GroupsTyped
<1>7. GroupsTyped'
  BY <1>2, <1>4, <1>5, <1>6 DEF LaneInv, GroupsTyped
<1>8. Elsewhere(d)
  BY <1>2, <1>4 DEF Elsewhere
<1>9. DeviceInv(d)'
  <2>1. CommandInHand(d)' /\ MessageInHand(d)'
    BY <1>1, <1>2, <1>4 DEF DeviceInv, CommandInHand, MessageInHand
  <2>2. ~Reading(d)' /\ (Holding(d)' <=> Holding(d))
    BY <1>2, <1>4, ListeningParts DEF Reading, Holding
  <2>3. ASSUME ~overlap[d] PROVE StaysOut(d)' /\ RecordInHand(d)'
    <3>1. ~Holding(d) /\ base = LoadGroup(d)
      BY <1>1, <2>3 DEF DeviceInv, RecordInHand, base
    <3>2. RecordInHand(d)'
      BY <2>2, <3>1 DEF RecordInHand
    <3>3. CASE s = {}
      BY <1>4, <3>2, <3>3 DEF StaysOut
    <3>4. CASE s # {}
      <4>1. Known(d) /\ base = rec[d]
        BY <1>3, <3>1, <3>4, LoadedTyped DEF LaneInv
      <4>2. out[d] \cap rec[d].members = {} /\ (d \in out[d] => ~rec[d].active)
        BY <1>1, <2>3, <4>1 DEF DeviceInv, StaysOut
      <4>3. s \cap g.members = {} /\ (d \in s => ~g.active)
        BY <1>1, <1>3, <3>4, <4>1, <4>2
      <4>4. QED
        BY <1>4, <3>2, <4>3 DEF StaysOut
    <3>5. QED
      BY <3>3, <3>4
  <2>4. QED
    BY <1>2, <2>1, <2>3 DEF DeviceInv, StaysOut
<1>10. QED
  BY <1>1, <1>2, <1>7, <1>8, <1>9, Begun, OneDevice

LEMMA CloseKeeps ==
  ASSUME LaneInv, NEW d \in Device, Close(d)
  PROVE  LaneInv'
<1>1. /\ cmd' = [cmd EXCEPT ![d] = Idle] /\ rx' = [rx EXCEPT ![d] = Listening]
      /\ quiet' = FALSE /\ (cmd[d] # Idle \/ rx[d] # Listening)
      /\ UNCHANGED <<rec, contacts, inbox, made, astray, alarmed, overlap, out, commands>>
  BY DEF Close
<1>2. mishaps' \in 0 .. MaxMishaps
  BY BoundsTyped DEF Close, LaneInv, GroupsTyped
<1>3. /\ cmd' \in [Device -> CommandTypes] /\ cmd'[d] = Idle /\ rx'[d] = Listening
      /\ \A e \in Device : d # e => cmd'[e] = cmd[e] /\ rx'[e] = rx[e]
  BY <1>1, FlowParts DEF LaneInv, GroupsTyped, CommandTypes
<1>4. rx' \in [Device -> [pc : {"idle", "apply"}, env : Envelopes \cup {NoEnvelope},
                          base : Groups]]
  <2>1. Listening \in [pc : {"idle", "apply"}, env : Envelopes \cup {NoEnvelope}, base : Groups]
    BY GroupParts DEF Listening
  <2>2. QED
    BY <1>1, <2>1 DEF LaneInv, GroupsTyped
<1>5. GroupsTyped'
  BY <1>1, <1>2, <1>3, <1>4, IdleParts DEF LaneInv, GroupsTyped, CommandTypes
<1>6. Elsewhere(d)
  BY <1>1, <1>3 DEF Elsewhere
<1>7. DeviceInv(d)'
  <2>1. StaysOut(d)
    BY ByDevice DEF DeviceInv
  <2>2. StaysOut(d)'
    BY <1>1, <2>1 DEF StaysOut, Known, LoadGroup
  <2>3. QED
    BY <1>3, <2>2, IdleParts, ListeningParts
       DEF DeviceInv, CommandInHand, MessageInHand, RecordInHand, Holding, Reading
<1>8. QED
  BY <1>1, <1>5, <1>6, <1>7, Begun, OneDevice

LEMMA LanesBegin == GroupInit => LaneInv
<1> SUFFICES ASSUME GroupInit PROVE LaneInv
  OBVIOUS
<1>1. mishaps \in 0 .. MaxMishaps
  <2>1. PICK missing \in SUBSET Pairs :
          Cardinality(missing) <= MaxMishaps /\ mishaps = Cardinality(missing)
    BY DEF GroupInit
  <2>2. IsFiniteSet(Device \X Device)
    BY BoundsTyped, FS_Product
  <2>3. IsFiniteSet(missing)
    BY <2>1, <2>2, FS_Subset DEF Pairs
  <2>4. QED
    BY <2>1, <2>3, FS_CardinalityType, BoundsTyped
<1>2. contacts \in [Device -> SUBSET Device] /\ \A d \in Device : d \notin contacts[d]
  BY DEF GroupInit
<1>3. \A d \in Device : Untouched(d)
  BY DEF GroupInit, Untouched
<1>4. GroupsTyped
  <2>1. /\ rec \in [Device -> Groups] /\ cmd \in [Device -> CommandTypes]
        /\ \A d \in Device : d \notin cmd[d].legs
    BY GroupParts, FlowParts, IdleParts DEF GroupInit
  <2>2. rx \in [Device -> [pc : {"idle", "apply"}, env : Envelopes \cup {NoEnvelope},
                           base : Groups]]
    <3>1. Listening \in [pc : {"idle", "apply"}, env : Envelopes \cup {NoEnvelope},
                         base : Groups]
      BY GroupParts DEF Listening
    <3>2. QED
      BY <3>1 DEF GroupInit
  <2>3. inbox \in [Device -> Seq(Envelopes)]
    BY DEF GroupInit
  <2>4. commands \in 0 .. MaxCommands
    BY BoundsTyped DEF GroupInit
  <2>5. QED
    BY <1>1, <1>2, <2>1, <2>2, <2>3, <2>4 DEF GroupInit, GroupsTyped, CommandTypes
<1>5. ASSUME NEW d \in Device PROVE DeviceInv(d)
  BY <1>3, IdleParts, ListeningParts
     DEF Untouched, DeviceInv, CommandInHand, MessageInHand, StaysOut, RecordInHand, Holding,
         Reading
<1>6. QED
  BY <1>3, <1>4, <1>5, ByDevice

LEMMA RequestKeeps ==
  ASSUME LaneInv, NEW d \in Device, NEW who \in Device,
         GroupAdd(d, who) \/ GroupRemove(d, who) \/ GroupLeave(d)
  PROVE  LaneInv'
<1>1. /\ quiet' \in BOOLEAN /\ rec[d].members \in SUBSET Device /\ d \notin contacts[d]
  BY GroupParts DEF GroupAdd, GroupRemove, GroupLeave, Orderly, LaneInv, GroupsTyped
<1>2. CASE GroupAdd(d, who)
  <2>1. RequireGroup(d, "add", who, "save", {who}) /\ who # d
    BY <1>1, <1>2 DEF GroupAdd
  <2>2. QED
    BY <1>1, <2>1, RequireKeeps
<1>3. CASE GroupRemove(d, who)
  <2>1. RequireGroup(d, "remove", who, "save", rec[d].members \ {d})
    BY <1>3 DEF GroupRemove
  <2>2. QED
    BY <1>1, <2>1, RequireKeeps
<1>4. CASE GroupLeave(d)
  <2>1. RequireGroup(d, "leave", NoDevice, "fan", rec[d].members \ {d})
    BY <1>4 DEF GroupLeave
  <2>2. QED
    BY <1>1, <2>1, RequireKeeps
<1>5. QED
  BY <1>2, <1>3, <1>4

LEMMA LanesContinue == LaneInv /\ [GroupNext]_groupVars => LaneInv'
<1> SUFFICES ASSUME LaneInv, [GroupNext]_groupVars PROVE LaneInv'
  OBVIOUS
<1>1. CASE UNCHANGED groupVars
  BY <1>1 DEF groupVars, local, history, LaneInv, GroupsTyped, RemovedStaysOut, CommandInHand,
     MessageInHand, RecordInHand, Untouched, Holding, Reading, Known, LoadGroup
<1>2. ASSUME NEW d \in Device,
             Command(d) \/ FanOut(d) \/ ReadNext(d) \/ Apply(d) \/ Close(d)
      PROVE  LaneInv'
  <2>1. CASE Command(d)
    BY <2>1, NewKeeps, RequestKeeps, SendTextKeeps, SyncKeeps, PurgeKeeps DEF Command
  <2>2. CASE FanOut(d)
    BY <2>2, SaveChangeKeeps, FanOutDoneKeeps, PostLegKeeps DEF FanOut
  <2>3. QED
    BY <1>2, <2>1, <2>2, ReadKeeps, ApplyKeeps, CloseKeeps
<1>3. QED
  BY <1>1, <1>2 DEF GroupNext

(* For any number of devices, commands and mishaps: what each lane holds while
   it works, and that as long as the two have not met over it, it is what is
   stored (requireGroup, applyIncomingGroup). *)
THEOREM LanesHold == GroupSpec => []LaneInv
<1>1. QED
  BY LanesBegin, LanesContinue, PTL DEF GroupSpec

(* Every reachable state is well typed; in particular no device is its own
   contact or writes to itself (messaging.ts). *)
THEOREM GroupsWellTyped == GroupSpec => []GroupsTyped
<1>1. LaneInv => GroupsTyped
  BY DEF LaneInv
<1>2. QED
  BY <1>1, LanesHold, PTL

(* Whom a device saw go comes back only by name, whatever rosters arrive
   (applyAnnouncedChange), unless its lanes wrote over each other. *)
THEOREM WhoWentStaysOut == GroupSpec => []RemovedStaysOut
<1>1. LaneInv => RemovedStaysOut
  BY DEF LaneInv
<1>2. QED
  BY <1>1, LanesHold, PTL

-----------------------------------------------------------------------------
(* Quiet use. *)

LEMMA FirstUnderWay ==
  ASSUME LaneInv, NEW d \in Device, inbox[d] # <<>>
  PROVE  /\ inbox[d][1] \in Envelopes /\ Head(inbox[d]) = inbox[d][1]
         /\ Len(inbox[d]) \in Nat /\ 1 \in 1 .. Len(inbox[d])
<1>1. inbox[d] \in Seq(Envelopes)
  BY DEF LaneInv, GroupsTyped
<1>2. QED
  BY <1>1

LEMMA WhatIsUnderWay ==
  ASSUME LaneInv, NEW d \in Device
  PROVE  /\ cmd[d].op \in UnderWay /\ rx[d].env.action \in UnderWay
         /\ \A i \in 1 .. Len(inbox[d]) : inbox[d][i].action \in UnderWay
<1>1. ASSUME NEW i \in 1 .. Len(inbox[d]) PROVE inbox[d][i].action \in UnderWay
  BY <1>1 DEF UnderWay
<1>2. QED
  BY <1>1 DEF UnderWay

LEMMA AllAtRest ==
  ASSUME LaneInv, UnderWay \subseteq {"none", "msg"}, NEW d \in Device
  PROVE  /\ rx[d] = Listening /\ cmd[d].op \in {"none", "msg"}
         /\ \A i \in 1 .. Len(inbox[d]) : inbox[d][i].action = "msg"
         /\ Settled => cmd[d] = Idle /\ inbox[d] = <<>>
<1>1. CommandInHand(d) /\ MessageInHand(d) /\ GroupsTyped
  BY DEF LaneInv
<1>2. rx[d] = Listening
  BY <1>1, WhatIsUnderWay DEF MessageInHand
<1>3. ASSUME NEW i \in 1 .. Len(inbox[d]) PROVE inbox[d][i].action = "msg"
  <2>1. inbox[d] \in Seq(Envelopes)
    BY <1>1 DEF GroupsTyped
  <2>2. inbox[d][i] \in Envelopes
    BY <2>1
  <2>3. QED
    BY <2>2, EnvelopeParts, WhatIsUnderWay
<1>4. ASSUME Settled PROVE cmd[d] = Idle /\ inbox[d] = <<>>
  <2>1. cmd[d] = Idle
    BY <1>1, <1>4, CommandForms, WhatIsUnderWay DEF Settled
  <2>2. ASSUME inbox[d] # <<>> PROVE FALSE
    BY <1>3, <1>4, <2>2, FirstUnderWay, WhatIsUnderWay DEF Settled
  <2>3. QED
    BY <2>1, <2>2
<1>5. QED
  BY <1>2, <1>3, <1>4, WhatIsUnderWay

LEMMA OutcomeParts ==
  ASSUME NEW c \in Changes
  PROVE  /\ Roster(c) \in SUBSET Device \/ c.who = NoDevice
         /\ Outcome(c)[c.by] = Group(Roster(c), c.op # "leave")
         /\ \A d \in Audience(c) :
              /\ d # c.by
              /\ d \in Device =>
                   Outcome(c)[d] = Group(Roster(c), ~(c.op = "remove" /\ d = c.who))
         /\ \A d \in Device : d # c.by /\ d \notin Audience(c) => Outcome(c)[d] = rec[d]
<1>1. /\ c.by \in Device /\ c.who \in Device \cup {NoDevice} /\ c.members \in SUBSET Device
      /\ c.op \in {"invite", "add", "remove", "leave"}
  BY DEF Changes
<1>2. Roster(c) \in SUBSET Device \/ c.who = NoDevice
  BY <1>1 DEF Roster
<1>3. QED
  BY <1>1, <1>2 DEF Outcome, Audience

(* Once nothing but texts is under way, whatever change there was has reached
   everyone. *)
LEMMA QuietSettles ==
  ASSUME LaneInv, QuietInv, quiet, UnderWay \subseteq {"none", "msg"}
  PROVE  OnlyTexts
<1>1. CASE OnlyTexts
  BY <1>1
<1>2. ASSUME NEW x \in Device, InVain(x) PROVE OnlyTexts
  <2>1. cmd[x] = Idle
    BY <1>2, AllAtRest DEF InVain
  <2>2. ASSUME NEW d \in Device, NEW i \in 1 .. Len(inbox[d]) PROVE FALSE
    BY <1>2, <2>2, AllAtRest DEF InVain, VainFrom
  <2>3. QED
    BY <1>2, <2>1, <2>2 DEF InVain, OnlyTexts
<1>3. ASSUME NEW c \in Changes, Changing(c) PROVE OnlyTexts
  <2>1. /\ c.by \in Device /\ c.op \in {"invite", "add", "remove", "leave"}
        /\ Announcing(c) /\ InOrder(c)
    BY <1>3 DEF Changes, Changing
  <2>2. cmd[c.by] = Idle /\ rec[c.by] = Outcome(c)[c.by] /\ inbox[c.by] = <<>>
    BY <2>1, AllAtRest DEF Announcing
  <2>3. Owing(c.by) = {}
    BY <2>2, IdleParts DEF Owing
  <2>4. ASSUME NEW d \in Device \ {c.by} PROVE inbox[d] = <<>> /\ rec[d] = Outcome(c)[d] /\ cmd[d] = Idle
    <3>1. /\ cmd[d] = Idle /\ rx[d] = Listening
          /\ IF d \in Audience(c) THEN Told(c, d) ELSE inbox[d] = <<>>
      BY <1>3, AllAtRest DEF Changing
    <3>2. CASE d \in Audience(c)
      <4>1. inbox[d] # <<Letter(c, d)>>
        <5>1. Letter(c, d).action # "msg"
          BY <2>1, EnvelopeParts DEF Letter
        <5>2. ASSUME inbox[d] = <<Letter(c, d)>> PROVE FALSE
          <6>1. inbox[d][1] = Letter(c, d) /\ 1 \in 1 .. Len(inbox[d])
            BY <5>2
          <6>2. QED
            BY <5>1, <6>1, AllAtRest
        <5>3. QED
          BY <5>2
      <4>2. rx[d] # [pc |-> "apply", env |-> Letter(c, d), base |-> Before(c, d)]
        BY <3>1, ListeningParts
      <4>3. QED
        BY <2>3, <3>1, <3>2, <4>1, <4>2 DEF Told
    <3>3. CASE d \notin Audience(c)
      BY <3>1, <3>3, OutcomeParts
    <3>4. QED
      BY <3>2, <3>3
  <2>5. rec = Outcome(c)
    <3>1. rec = [d \in Device |-> rec[d]]
      BY DEF LaneInv, GroupsTyped
    <3>2. Outcome(c) = [d \in Device |-> Outcome(c)[d]]
      BY DEF Outcome
    <3>3. \A d \in Device : rec[d] = Outcome(c)[d]
      BY <2>2, <2>4
    <3> HIDE DEF Outcome
    <3>4. QED
      BY <3>1, <3>2, <3>3
  <2>6. Agree(rec)
    BY <1>3, <2>5 DEF Changing
  <2>7. \A d \in Device : inbox[d] = <<>> /\ cmd[d] = Idle
    BY <2>2, <2>4
  <2>8. QED
    BY <2>6, <2>7, AllAtRest DEF OnlyTexts
<1>4. QED
  BY <1>1, <1>2, <1>3 DEF QuietInv

-----------------------------------------------------------------------------
(* Rosters that agree. *)

(* A device that is out may hold whatever it likes, as long as nobody on its
   list lists it. *)
LEMMA AgreeOut ==
  ASSUME NEW r \in [Device -> Groups], Agree(r), NEW x \in Device, ~r[x].active,
         NEW s \in SUBSET Device, x \notin s, \A e \in s : x \notin r[e].members
  PROVE  Agree([r EXCEPT ![x] = Group(s, FALSE)])
<1> DEFINE n == [r EXCEPT ![x] = Group(s, FALSE)]
<1>1. /\ n[x].members = s /\ n[x].active = FALSE
      /\ \A e \in Device : e # x => n[e] = r[e]
  BY GroupParts
<1>2. \A e \in Device : r[e].members \in SUBSET Device
  BY GroupParts
<1> HIDE DEF n
<1>3. ASSUME NEW d \in Device
      PROVE  IF n[d].active
             THEN /\ d \in n[d].members /\ IsValidGroup(n[d])
                  /\ \A e \in n[d].members : n[e] = n[d]
             ELSE \A e \in n[d].members : d \notin n[e].members
  <2>1. CASE d = x
    <3>1. \A e \in s : e # x /\ n[e] = r[e]
      BY <1>1
    <3>2. QED
      BY <1>1, <2>1, <3>1
  <2>2. CASE d # x /\ r[d].active
    <3>1. d \in r[d].members /\ IsValidGroup(r[d]) /\ \A e \in r[d].members : r[e] = r[d]
      BY <2>2 DEF Agree
    <3>2. \A e \in r[d].members : e # x /\ n[e] = r[e]
      BY <1>1, <1>2, <2>2, <3>1
    <3>3. QED
      BY <1>1, <2>2, <3>1, <3>2
  <2>3. CASE d # x /\ ~r[d].active
    <3>1. n[d] = r[d] /\ \A e \in r[d].members : e \in Device /\ d \notin r[e].members
      BY <1>1, <1>2, <2>3 DEF Agree
    <3>2. ASSUME NEW e \in r[d].members PROVE d \notin n[e].members
      <4>1. CASE e = x
        <5>1. x \in r[d].members
          BY <4>1
        <5>2. d \notin s
          BY <5>1
        <5>3. QED
          BY <1>1, <4>1, <5>2
      <4>2. CASE e # x
        BY <1>1, <3>1, <4>2
      <4>3. QED
        BY <4>1, <4>2
    <3>3. QED
      BY <2>3, <3>1, <3>2
  <2>4. QED
    BY <2>1, <2>2, <2>3
<1>4. Agree(n)
  BY <1>3 DEF Agree
<1>5. QED
  BY <1>4 DEF n

Concerned(c) == Audience(c) \cup {c.by}

LEMMA ChangeTyped ==
  ASSUME NEW c \in Changes
  PROVE  /\ c.by \in Device /\ c.who \in Device \cup {NoDevice}
         /\ c.members \in SUBSET Device
         /\ c.op \in {"invite", "add", "remove", "leave"}
BY DEF Changes

LEMMA ChangeParts ==
  ASSUME NEW c \in Changes, InOrder(c)
  PROVE  /\ Roster(c) \in SUBSET Device /\ Audience(c) \in SUBSET Device
         /\ Concerned(c) \in SUBSET Device
         /\ Roster(c) \subseteq Concerned(c) /\ c.members \subseteq Concerned(c)
         /\ \A d \in Audience(c) : (~(c.op = "remove" /\ d = c.who)) <=> d \in Roster(c)
         /\ c.by \in Roster(c) <=> c.op # "leave"
         /\ \A d \in Audience(c) : ~Invited(c, d) => d \in c.members
<1>1. c.op \in {"add", "remove"} => c.who \in Device /\ c.who # c.by
  BY ChangeTyped DEF InOrder
<1>2. CASE c.op = "invite"
  BY <1>2, ChangeTyped DEF Roster, Audience, Concerned, InOrder, Invited
<1>3. CASE c.op = "add"
  BY <1>1, <1>3, ChangeTyped DEF Roster, Audience, Concerned, InOrder, Invited
<1>4. CASE c.op = "remove"
  BY <1>1, <1>4, ChangeTyped DEF Roster, Audience, Concerned, InOrder, Invited
<1>5. CASE c.op = "leave"
  BY <1>5, ChangeTyped DEF Roster, Audience, Concerned, InOrder, Invited
<1>6. QED
  BY <1>2, <1>3, <1>4, <1>5, ChangeTyped

(* After a change all it concerns hold the new roster, and those on it are
   in the group. *)
LEMMA OutcomeUniform ==
  ASSUME NEW c \in Changes, InOrder(c)
  PROVE  /\ Outcome(c) = [d \in Device |-> Outcome(c)[d]]
         /\ \A d \in Concerned(c) : Outcome(c)[d] = Group(Roster(c), d \in Roster(c))
         /\ \A d \in Device \ Concerned(c) : Outcome(c)[d] = rec[d]
<1>1. Outcome(c) = [d \in Device |-> Outcome(c)[d]]
  BY DEF Outcome
<1>2. (c.op # "leave") = (c.by \in Roster(c))
  BY ChangeParts
<1>3. ASSUME NEW d \in Audience(c)
      PROVE  (~(c.op = "remove" /\ d = c.who)) = (d \in Roster(c))
  BY ChangeParts
<1>4. QED
  BY <1>1, <1>2, <1>3, OutcomeParts, ChangeParts, ChangeTyped DEF Concerned

LEMMA AgreeAfter ==
  ASSUME NEW c \in Changes, InOrder(c), NEW r, NEW o,
         \A d \in Concerned(c) : o[d] = Group(Roster(c), d \in Roster(c)),
         \A d \in Device \ Concerned(c) : o[d] = r[d] /\ r[d] \in Groups,
         Agree(r),
         \A d \in Device \ Concerned(c) :
           r[d].active => r[d].members \cap Concerned(c) = {}
  PROVE  Agree(o)
<1> DEFINE t == Concerned(c)
           s == Roster(c)
<1>1. s \subseteq t /\ t \subseteq Device
  BY ChangeParts
<1>2. Cardinality(s) <= MaxMembers
  BY DEF InOrder
<1>3. \A d \in t : o[d] = Group(s, d \in s) /\ o[d].members = s /\ (o[d].active <=> d \in s)
  <2>1. ASSUME NEW d \in t PROVE o[d] = Group(s, d \in s)
    OBVIOUS
  <2>2. \A a : Group(s, a).members = s /\ Group(s, a).active = a
    BY GroupParts
  <2>3. ASSUME NEW d \in t PROVE o[d].members = s /\ (o[d].active <=> d \in s)
    <3>1. Group(s, d \in s).members = s /\ Group(s, d \in s).active = (d \in s)
      BY <2>2
    <3>2. QED
      BY <2>1, <3>1
  <2>4. QED
    BY <2>1, <2>3
<1>4. \A d \in Device \ t : o[d] = r[d] /\ r[d].members \in SUBSET Device
  BY GroupParts
<1> HIDE DEF t, s
<1>5. ASSUME NEW d \in Device
      PROVE  IF o[d].active
             THEN /\ d \in o[d].members /\ IsValidGroup(o[d])
                  /\ \A e \in o[d].members : o[e] = o[d]
             ELSE \A e \in o[d].members : d \notin o[e].members
  <2>1. CASE d \in t /\ d \in s
    <3>1. \A e \in s : o[e] = Group(s, TRUE)
      <4>1. \A e \in s : o[e] = Group(s, e \in s) /\ (e \in s) = TRUE
        BY <1>1, <1>3
      <4>2. QED
        BY <4>1
    <3>2. IsValidGroup(o[d])
      BY <1>2, <1>3, <2>1 DEF IsValidGroup
    <3>3. QED
      BY <1>3, <2>1, <3>1, <3>2
  <2>2. CASE d \in t /\ d \notin s
    BY <1>1, <1>3, <2>2
  <2>3. CASE d \notin t /\ r[d].active
    <3>1. /\ d \in r[d].members /\ IsValidGroup(r[d])
          /\ \A e \in r[d].members : r[e] = r[d]
      BY <2>3 DEF Agree
    <3>2. \A e \in r[d].members : e \in Device \ t
      BY <1>4, <2>3 DEF t
    <3>3. QED
      BY <1>4, <2>3, <3>1, <3>2
  <2>4. CASE d \notin t /\ ~r[d].active
    <3>1. \A e \in r[d].members : e \in Device /\ d \notin r[e].members
      BY <1>4, <2>4 DEF Agree
    <3>2. QED
      BY <1>1, <1>3, <1>4, <2>4, <3>1
  <2>5. QED
    BY <2>1, <2>2, <2>3, <2>4
<1>6. QED
  BY <1>5 DEF Agree

-----------------------------------------------------------------------------
(* Use that is quiet no longer is never quiet again, and neither history is
   written any more. *)

Step(d) == Command(d) \/ FanOut(d) \/ ReadNext(d) \/ Apply(d) \/ Close(d)

LEMMA StaysQuiet ==
  ASSUME NEW d \in Device, Step(d)
  PROVE  quiet' => quiet
<1>1. CASE Command(d)
  BY <1>1 DEF Command, GroupNew, GroupAdd, GroupRemove, GroupLeave, SendText, GroupSync,
     GroupPurge, history
<1>2. CASE FanOut(d)
  BY <1>2 DEF FanOut, SaveChange, FanOutDone, PostLeg
<1>3. CASE ReadNext(d)
  BY <1>3 DEF ReadNext, Refuse, ShowText, TakeUp
<1>4. CASE Apply(d) \/ Close(d)
  BY <1>4 DEF Apply, Close
<1>5. QED
  BY <1>1, <1>2, <1>3, <1>4 DEF Step

LEMMA HistoryStays ==
  ASSUME NEW d \in Device, Step(d), ~alarmed, ~astray,
         ~quiet' \/ (~ReadNext(d) /\ ~Apply(d))
  PROVE  ~alarmed' /\ ~astray'
<1>1. ASSUME Command(d) PROVE alarmed' = alarmed /\ astray' = astray
  <2>1. ASSUME NEW others, GroupNew(d, others) PROVE alarmed' = alarmed /\ astray' = astray
    BY <2>1 DEF GroupNew, history
  <2>2. ASSUME NEW who, GroupAdd(d, who) \/ GroupRemove(d, who) \/ GroupLeave(d)
        PROVE  alarmed' = alarmed /\ astray' = astray
    BY <2>2 DEF GroupAdd, GroupRemove, GroupLeave, RequireGroup
  <2>3. CASE SendText(d) \/ GroupSync(d) \/ GroupPurge(d)
    BY <2>3 DEF SendText, GroupSync, GroupPurge, history
  <2>4. QED
    BY <1>1, <2>1, <2>2, <2>3 DEF Command
<1>2. ASSUME FanOut(d) PROVE alarmed' = alarmed /\ astray' = astray
  <2>1. CASE SaveChange(d)
    BY <2>1 DEF SaveChange
  <2>2. CASE FanOutDone(d)
    BY <2>2 DEF FanOutDone
  <2>3. ASSUME NEW u, NEW sent, PostLeg(d, u, sent)
        PROVE  alarmed' = alarmed /\ astray' = astray
    BY <2>3 DEF PostLeg
  <2>4. QED
    BY <1>2, <2>1, <2>2, <2>3 DEF FanOut
<1>3. CASE ReadNext(d) /\ ~quiet'
  <2>1. PICK env : Refuse(d, env) \/ ShowText(d, env) \/ TakeUp(d, env)
    BY <1>3 DEF ReadNext
  <2>2. CASE Refuse(d, env)
    BY <1>3, <2>2 DEF Refuse
  <2>3. CASE ShowText(d, env)
    BY <1>3, <2>3 DEF ShowText, Warn
  <2>4. CASE TakeUp(d, env)
    BY <2>4 DEF TakeUp
  <2>5. QED
    BY <2>1, <2>2, <2>3, <2>4
<1>4. CASE Apply(d) /\ ~quiet'
  <2>1. astray' = astray /\ quiet' = quiet
    BY <1>4 DEF Apply
  <2>2. CASE Join(d)
    BY <2>1, <2>2 DEF Join
  <2>3. ASSUME NEW base, NEW env, Warn(d, base, env) PROVE ~alarmed'
    BY <1>4, <2>1, <2>3 DEF Warn
  <2>4. CASE ApplyChange(d)
    BY <2>1, <2>3, <2>4 DEF ApplyChange
  <2>5. QED
    BY <1>4, <2>2, <2>4 DEF Apply
<1>5. CASE Close(d)
  BY <1>5 DEF Close
<1>6. QED
  BY <1>1, <1>2, <1>3, <1>4, <1>5 DEF Step

Course == OnlyTexts \/ (\E x \in Device : InVain(x)) \/ (\E c \in Changes : Changing(c))

LEMMA QuietCourse == QuietInv <=> ~alarmed /\ ~astray /\ (quiet => Course)
BY DEF QuietInv, Course

-----------------------------------------------------------------------------
(* Commands begun in quiet use. *)


LEMMA CourseStays ==
  ASSUME Course, UNCHANGED <<rec, cmd, rx, inbox>>
  PROVE  Course'
<1>1. UNCHANGED <<rec, cmd, rx, inbox>>
  OBVIOUS
<1>2. OnlyTexts' <=> OnlyTexts
  BY <1>1 DEF OnlyTexts, Texting, TextFor
<1>3. \A x : InVain(x)' <=> InVain(x)
  BY <1>1 DEF InVain, VainFrom, Holding, Owing
<1>4. ASSUME NEW c \in Changes PROVE Changing(c)' <=> Changing(c)
  <2>1. Outcome(c)' = Outcome(c)
    BY <1>1 DEF Outcome
  <2>2. QED
    BY <1>1, <2>1 DEF Changing, Announcing, Told, Holding, Owing
<1>5. QED
  BY <1>2, <1>3, <1>4 DEF Course

LEMMA SendQuiet ==
  ASSUME LaneInv, QuietInv, NEW d \in Device, SendText(d), quiet'
  PROVE  OnlyTexts'
<1>1. UnderWay \subseteq {"none", "msg"} /\ quiet
  BY DEF SendText, Orderly
<1>2. OnlyTexts
  BY <1>1, QuietSettles
<1> DEFINE c == Flow("fan", "msg", NoDevice, rec[d], rec[d].members \ {d})
<1>3. /\ cmd' = [cmd EXCEPT ![d] = c] /\ rec[d].active
      /\ UNCHANGED <<rec, rx, inbox>>
  BY DEF SendText, Fresh, MaySend, Run, Become, local
<1>4. c.op = "msg" /\ c.base = rec[d] /\ c.legs \subseteq rec[d].members
  BY DEF Flow
<1> HIDE DEF c
<1>5. cmd'[d] = c /\ \A e \in Device : e # d => cmd'[e] = cmd[e]
  BY <1>3 DEF LaneInv, GroupsTyped
<1>6. Texting(d)'
  BY <1>3, <1>4, <1>5 DEF Texting
<1>7. ASSUME NEW e \in Device PROVE cmd'[e] = Idle \/ Texting(e)'
  BY <1>2, <1>3, <1>5, <1>6 DEF OnlyTexts, Texting
<1>8. QED
  BY <1>2, <1>3, <1>7 DEF OnlyTexts, TextFor

LEMMA PurgeQuiet ==
  ASSUME LaneInv, QuietInv, NEW d \in Device, GroupPurge(d), quiet'
  PROVE  OnlyTexts'
<1>1. Settled /\ quiet /\ ~rec[d].active
  BY DEF GroupPurge
<1>2. OnlyTexts
  BY <1>1, QuietSettles DEF Settled
<1>3. rec' = [rec EXCEPT ![d] = NoGroup] /\ UNCHANGED <<cmd, rx, inbox>>
  BY DEF GroupPurge, SaveGroup
<1>4. Agree(rec')
  <2>1. NoGroup = Group({}, FALSE)
    BY DEF NoGroup, Group
  <2>2. rec \in [Device -> Groups]
    BY DEF LaneInv, GroupsTyped
  <2>3. Agree([rec EXCEPT ![d] = Group({}, FALSE)])
    BY <1>1, <1>2, <2>2, AgreeOut DEF OnlyTexts
  <2>4. QED
    BY <1>3, <2>1, <2>3
<1>5. \A e \in Device : rx[e] = Listening /\ cmd[e] = Idle /\ inbox[e] = <<>>
  BY <1>1, AllAtRest DEF Settled
<1>6. QED
  BY <1>3, <1>4, <1>5 DEF OnlyTexts

(* What a command that changes the group asks for in quiet use. *)
InTurn(d, op, who, pc, legs) ==
  LET m == rec[d].members
  IN /\ RequireGroup(d, op, who, pc, legs) /\ quiet /\ Settled
     /\ \/ /\ op = "add" /\ pc = "save" /\ legs = {who}
           /\ who \in Device \ {d} /\ who \notin m /\ Cardinality(m) < MaxMembers
           /\ rec[who] = NoGroup
        \/ /\ op = "remove" /\ pc = "save" /\ legs = m \ {d} /\ who \in m \ {d}
        \/ op = "leave" /\ pc = "fan" /\ legs = m \ {d} /\ who = NoDevice

LEMMA SizeOfPart ==
  ASSUME NEW s \in SUBSET Device, NEW p \in SUBSET s
  PROVE  Cardinality(p) <= Cardinality(s) /\ Cardinality(s) \in Nat /\ Cardinality(p) \in Nat
<1>1. IsFiniteSet(s)
  BY BoundsTyped, FS_Subset
<1>2. QED
  BY <1>1, FS_Subset, FS_CardinalityType

Started(d, op, who, pc, legs) ==
  /\ Agree(rec) /\ op \in {"add", "remove", "leave"}
  /\ rec[d] \in Groups /\ rec[d].members \in SUBSET Device
  /\ IsValidGroup(rec[d]) /\ d # who
  /\ cmd'[d] = Flow(pc, op, who, rec[d], legs)
  /\ \A e \in Device : e # d => cmd'[e] = Idle
  /\ \A e \in Device : rx'[e] = Listening /\ inbox'[e] = <<>>
  /\ rec' = rec

LEMMA InTurnParts ==
  ASSUME LaneInv, QuietInv, NEW d \in Device, NEW op, NEW who \in Device \cup {NoDevice}, NEW pc,
         NEW legs \in SUBSET Device, InTurn(d, op, who, pc, legs)
  PROVE  Started(d, op, who, pc, legs)
<1>1. /\ quiet /\ Settled /\ RequireGroup(d, op, who, pc, legs)
      /\ op \in {"add", "remove", "leave"} /\ d # who
  BY BoundsTyped DEF InTurn
<1>2. OnlyTexts
  BY <1>1, QuietSettles DEF Settled
<1>3. \A e \in Device : rx[e] = Listening /\ cmd[e] = Idle /\ inbox[e] = <<>>
  BY <1>1, AllAtRest DEF Settled
<1>4. /\ Known(d) /\ LoadGroup(d) = rec[d] /\ rec[d] \in Groups
      /\ cmd' = [cmd EXCEPT ![d] = Flow(pc, op, who, rec[d], legs)]
      /\ rec' = rec /\ rx' = rx /\ inbox' = inbox
  <2>1. Known(d) /\ LoadGroup(d) = rec[d] /\ rec[d] \in Groups
    BY <1>1, LoadedTyped DEF RequireGroup, LaneInv
  <2>2. QED
    BY <1>1, <2>1 DEF RequireGroup, Become, local
<1>5. /\ cmd'[d] = Flow(pc, op, who, rec[d], legs)
      /\ \A e \in Device : e # d => cmd'[e] = cmd[e]
  BY <1>4 DEF LaneInv, GroupsTyped
<1>6. QED
  BY <1>1, <1>2, <1>3, <1>4, <1>5, KnownIsValid, GroupParts DEF OnlyTexts, Started

LEMMA ChangeBegins ==
  ASSUME LaneInv, QuietInv, NEW d \in Device, NEW op, NEW who \in Device \cup {NoDevice}, NEW pc,
         NEW legs \in SUBSET Device, InTurn(d, op, who, pc, legs), rec[d].active
  PROVE  \E c \in Changes : Changing(c)'
<1>1. /\ Agree(rec) /\ op \in {"add", "remove", "leave"} /\ rec[d] \in Groups
      /\ rec[d].members \in SUBSET Device /\ IsValidGroup(rec[d]) /\ d # who
      /\ cmd'[d] = Flow(pc, op, who, rec[d], legs)
      /\ \A e \in Device : e # d => cmd'[e] = Idle
      /\ \A e \in Device : rx'[e] = Listening /\ inbox'[e] = <<>>
      /\ rec' = rec
  <2>1. Started(d, op, who, pc, legs)
    BY InTurnParts
  <2>2. QED
    BY <2>1 DEF Started
<1> DEFINE m == rec[d].members
<1>2. d \in m /\ (\A e \in m : rec[e] = rec[d]) /\ rec[d] = Group(m, TRUE)
  <2>1. rec[d].active = TRUE
    BY <1>1, GroupParts
  <2>2. QED
    BY <1>1, <2>1, GroupParts DEF Agree
<1>3. \/ /\ op = "add" /\ pc = "save" /\ legs = {who}
         /\ who \in Device \ {d} /\ who \notin m /\ Cardinality(m) < MaxMembers
         /\ rec[who] = NoGroup
      \/ /\ op = "remove" /\ pc = "save" /\ legs = m \ {d} /\ who \in m \ {d}
      \/ op = "leave" /\ pc = "fan" /\ legs = m \ {d} /\ who = NoDevice
  BY DEF InTurn
<1>4. PICK c \in Changes : c.by = d /\ c.op = op /\ c.who = who /\ c.members = m
  <2>1. [by |-> d, op |-> op, who |-> who, members |-> m] \in Changes
    BY <1>1 DEF Changes
  <2>2. QED
    BY <2>1
<1>5. InOrder(c)
  <2>1. Cardinality(m) <= MaxMembers /\ IsFiniteSet(m)
    BY <1>1, BoundsTyped, FS_Subset DEF IsValidGroup
  <2>2. Cardinality(Roster(c)) <= MaxMembers
    <3>1. CASE op = "add"
      <4>1. Roster(c) = m \cup {who} /\ who \notin m /\ Cardinality(m) < MaxMembers
        BY <1>3, <1>4, <3>1 DEF Roster
      <4>2. Cardinality(m \cup {who}) = Cardinality(m) + 1 /\ Cardinality(m) \in Nat
        BY <2>1, <4>1, FS_AddElement, FS_CardinalityType
      <4>3. QED
        BY <4>1, <4>2, BoundsTyped
    <3>2. CASE op # "add"
      <4>1. Roster(c) \in SUBSET m
        BY <1>1, <1>4, <3>2 DEF Roster
      <4>2. QED
        BY <1>1, <2>1, <4>1, SizeOfPart, BoundsTyped
    <3>3. QED
      BY <3>1, <3>2
  <2>3. QED
    BY <1>1, <1>2, <1>3, <1>4, <2>1, <2>2 DEF InOrder
<1>6. /\ cmd'[d].pc = pc /\ cmd'[d].op = op /\ cmd'[d].who = who /\ cmd'[d].base = rec[d]
      /\ cmd'[d].legs = legs
  BY <1>1 DEF Flow
<1>7. Owing(d)' = Audience(c) /\ d \notin Audience(c)
  BY <1>2, <1>3, <1>4, <1>6 DEF Owing, Audience
<1>8. Agree(Outcome(c)')
  <2>1. Outcome(c)' = Outcome(c)
    BY <1>1 DEF Outcome
  <2>2. ASSUME NEW e \in Device \ Concerned(c), rec[e].active
        PROVE  rec[e].members \cap Concerned(c) = {}
    <3>1. e \in rec[e].members /\ \A f \in rec[e].members : rec[f] = rec[e]
      BY <1>1, <2>2 DEF Agree
    <3>2. e \notin m
      BY <1>4, <1>5, <2>2, ChangeParts
    <3>3. ASSUME NEW f \in rec[e].members, f \in Concerned(c) PROVE FALSE
      <4>1. rec[f] = rec[e]
        BY <3>1
      <4>2. f \in m \/ (op = "add" /\ f = who)
        BY <1>2, <1>4, <3>3 DEF Concerned, Audience
      <4>3. CASE f \in m
        BY <1>2, <3>1, <3>2, <4>1, <4>3
      <4>4. CASE op = "add" /\ f = who
        BY <1>3, <2>2, <4>1, <4>4, GroupParts
      <4>5. QED
        BY <4>2, <4>3, <4>4
    <3>4. QED
      BY <3>3
  <2>3. \A e \in Device \ Concerned(c) : Outcome(c)[e] = rec[e] /\ rec[e] \in Groups
    BY <1>4, <1>5, OutcomeUniform DEF LaneInv, GroupsTyped
  <2>4. \A e \in Concerned(c) : Outcome(c)[e] = Group(Roster(c), e \in Roster(c))
    BY <1>4, <1>5, OutcomeUniform
  <2>5. Agree(Outcome(c))
    BY <1>1, <1>4, <1>5, <2>2, <2>3, <2>4, AgreeAfter
  <2>6. QED
    BY <2>1, <2>5
<1>9. Announcing(c)'
  <2>1. Holding(d)'
    BY <1>1, <1>3, <1>6 DEF Holding
  <2>2. /\ rx'[d] = Listening /\ inbox'[d] = <<>> /\ Owing(d)' \subseteq Audience(c)
        /\ cmd'[d].op = op /\ cmd'[d].who = who /\ cmd'[d].base = Group(m, TRUE)
        /\ rec'[d] = cmd'[d].base
    BY <1>1, <1>2, <1>6, <1>7
  <2>3. op = "add" => cmd'[d].legs = {who} /\ cmd'[d].pc = "save"
    BY <1>3, <1>6
  <2>4. QED
    BY <1>4, <2>1, <2>2, <2>3 DEF Announcing
<1>10. ASSUME NEW e \in Device \ {d}
       PROVE  /\ cmd'[e] = Idle
              /\ IF e \in Audience(c) THEN Told(c, e)' ELSE inbox'[e] = <<>> /\ rx'[e] = Listening
  <2>1. ASSUME e \in Audience(c) PROVE rec[e] = Before(c, e)
    <3>1. CASE op = "add" /\ e = who
      BY <1>3, <1>4, <3>1 DEF Before, Invited
    <3>2. CASE ~(op = "add" /\ e = who)
      <4>1. e \in m /\ ~Invited(c, e)
        BY <1>1, <1>4, <2>1, <3>2 DEF Audience, Invited
      <4>2. QED
        BY <1>2, <1>4, <4>1 DEF Before
    <3>3. QED
      BY <3>1, <3>2
  <2>2. ASSUME e \in Audience(c) PROVE Told(c, e)'
    <3>1. e \in Owing(c.by)'
      BY <1>4, <1>7, <2>2
    <3>2. rec'[e] = Before(c, e)
      BY <1>1, <2>1, <2>2
    <3>3. QED
      BY <1>1, <3>1, <3>2 DEF Told
  <2>3. QED
    BY <1>1, <2>2
<1>11. Changing(c)'
  BY <1>4, <1>5, <1>8, <1>9, <1>10 DEF Changing
<1>12. QED
  BY <1>4, <1>11

LEMMA VainBegins ==
  ASSUME LaneInv, QuietInv, NEW d \in Device, NEW op, NEW who \in Device \cup {NoDevice}, NEW pc,
         NEW legs \in SUBSET Device, InTurn(d, op, who, pc, legs), ~rec[d].active
  PROVE  InVain(d)'
<1>1. /\ Agree(rec) /\ op \in {"add", "remove", "leave"} /\ rec[d] \in Groups
      /\ rec[d].members \in SUBSET Device /\ IsValidGroup(rec[d]) /\ d # who
      /\ cmd'[d] = Flow(pc, op, who, rec[d], legs)
      /\ \A e \in Device : e # d => cmd'[e] = Idle
      /\ \A e \in Device : rx'[e] = Listening /\ inbox'[e] = <<>>
      /\ rec' = rec
  <2>1. Started(d, op, who, pc, legs)
    BY InTurnParts
  <2>2. QED
    BY <2>1 DEF Started
<1> DEFINE m == rec[d].members
<1>2. \A e \in m : d \notin rec[e].members
  BY <1>1 DEF Agree
<1>3. d \notin m
  BY <1>2
<1>4. \/ /\ op = "add" /\ pc = "save" /\ legs = {who} /\ rec[who] = NoGroup
      \/ /\ op = "remove" /\ pc = "save" /\ legs = m \ {d}
      \/ op = "leave" /\ pc = "fan" /\ legs = m \ {d}
  BY DEF InTurn
<1>5. /\ cmd'[d].pc = pc /\ cmd'[d].op = op /\ cmd'[d].who = who /\ cmd'[d].base = rec[d]
      /\ cmd'[d].legs = legs
  BY <1>1 DEF Flow
<1>6. ASSUME NEW e \in Owing(d)' PROVE d \notin rec'[e].members
  <2>1. e \in m \/ (op = "add" /\ e = who)
    BY <1>4, <1>5, <1>6 DEF Owing
  <2>2. QED
    BY <1>1, <1>2, <1>4, <2>1, GroupParts
<1>7. \/ cmd'[d] = Idle
      \/ /\ cmd'[d].op \in {"add", "remove", "leave"}
         /\ d # cmd'[d].who /\ d \notin cmd'[d].base.members /\ ~cmd'[d].base.active
         /\ Holding(d)' => cmd'[d].base = rec'[d]
         /\ cmd'[d].op = "add" /\ cmd'[d].pc = "save" => rec'[cmd'[d].who] = NoGroup
         /\ \A e \in Owing(d)' : d \notin rec'[e].members
  BY <1>1, <1>3, <1>4, <1>5, <1>6
<1>8. QED
  BY <1>1, <1>7 DEF InVain

LEMMA RequestQuiet ==
  ASSUME LaneInv, QuietInv, NEW d \in Device, NEW who \in Device,
         GroupAdd(d, who) \/ GroupRemove(d, who) \/ GroupLeave(d), quiet'
  PROVE  Course'
<1>1. rec[d].members \in SUBSET Device /\ d \notin contacts[d] /\ rec[d].active \in BOOLEAN
  BY GroupParts DEF LaneInv, GroupsTyped
<1>2. PICK op, w, pc, legs :
        w \in Device \cup {NoDevice} /\ legs \in SUBSET Device /\ InTurn(d, op, w, pc, legs)
  <2>1. CASE GroupAdd(d, who)
    <3>1. InTurn(d, "add", who, "save", {who})
      BY <1>1, <2>1 DEF GroupAdd, InTurn, Settled, Orderly
    <3>2. QED
      BY <3>1
  <2>2. CASE GroupRemove(d, who)
    <3>1. InTurn(d, "remove", who, "save", rec[d].members \ {d})
      BY <1>1, <2>2 DEF GroupRemove, InTurn, Settled, Orderly
    <3>2. QED
      BY <1>1, <3>1
  <2>3. CASE GroupLeave(d)
    <3>1. InTurn(d, "leave", NoDevice, "fan", rec[d].members \ {d})
      BY <1>1, <2>3 DEF GroupLeave, InTurn, Settled, Orderly
    <3>2. QED
      BY <1>1, <3>1
  <2>4. QED
    BY <2>1, <2>2, <2>3
<1>3. CASE rec[d].active
  BY <1>2, <1>3, ChangeBegins DEF Course
<1>4. CASE ~rec[d].active
  BY <1>2, <1>4, VainBegins DEF Course
<1>5. QED
  BY <1>3, <1>4

LEMMA NewQuiet ==
  ASSUME LaneInv, NEW d \in Device, NEW others \in SUBSET Device, GroupNew(d, others)
  PROVE  \E c \in Changes : Changing(c)'
<1> DEFINE m == {d} \cup others
<1>1. /\ ~made /\ d \notin others /\ IsValidGroup(Group(m, TRUE))
      /\ rec' = [rec EXCEPT ![d] = Group(m, TRUE)]
      /\ cmd' = [cmd EXCEPT ![d] = Flow("fan", "invite", NoDevice, Group(m, TRUE), others)]
      /\ UNCHANGED <<rx, inbox>>
  BY DEF GroupNew, SaveGroup, Become, LaneInv, GroupsTyped
<1>2. \A e \in Device : /\ rec[e] = NoGroup /\ cmd[e] = Idle /\ rx[e] = Listening
                        /\ inbox[e] = <<>>
  BY <1>1 DEF LaneInv, Untouched
<1>3. PICK c \in Changes : c.by = d /\ c.op = "invite" /\ c.who = NoDevice /\ c.members = m
  <2>1. [by |-> d, op |-> "invite", who |-> NoDevice, members |-> m] \in Changes
    BY DEF Changes
  <2>2. QED
    BY <2>1
<1>4. /\ rec'[d] = Group(m, TRUE) /\ \A e \in Device : e # d => rec'[e] = NoGroup
  BY <1>1, <1>2 DEF LaneInv, GroupsTyped
<1>5. /\ cmd'[d] = Flow("fan", "invite", NoDevice, Group(m, TRUE), others)
      /\ \A e \in Device : e # d => cmd'[e] = Idle
  BY <1>1, <1>2 DEF LaneInv, GroupsTyped
<1>6. \A e \in Device : rx'[e] = Listening /\ inbox'[e] = <<>>
  BY <1>1, <1>2
<1>7. Roster(c) = m /\ Audience(c) = others /\ Concerned(c) = m /\ \A e : Invited(c, e)
  BY <1>1, <1>3 DEF Roster, Audience, Invited, Concerned
<1>8. InOrder(c)
  BY <1>1, <1>3, <1>7, GroupParts DEF InOrder, IsValidGroup
<1>9. /\ cmd'[d].pc = "fan" /\ cmd'[d].op = "invite" /\ cmd'[d].who = NoDevice
      /\ cmd'[d].base = Group(m, TRUE) /\ cmd'[d].legs = others
  BY <1>5 DEF Flow
<1>10. Owing(d)' = others /\ ~Holding(d)'
  BY <1>9 DEF Owing, Holding
<1>11. /\ \A e \in m : Outcome(c)'[e] = Group(m, e \in m)
       /\ \A e \in Device \ m : Outcome(c)'[e] = NoGroup
  <2>1. ASSUME NEW e \in m PROVE Outcome(c)'[e] = Group(m, e \in m)
    <3>1. Outcome(c)'[e] = Group(m, TRUE) /\ (e \in m) = TRUE
      BY <1>3, <1>7 DEF Outcome
    <3>2. QED
      BY <3>1
  <2>2. ASSUME NEW e \in Device \ m PROVE Outcome(c)'[e] = NoGroup
    BY <1>3, <1>4, <1>7 DEF Outcome
  <2>3. QED
    BY <2>1, <2>2
<1>12. Agree(Outcome(c)')
  <2>1. Agree([e \in Device |-> NoGroup])
    BY GroupParts DEF Agree
  <2>2. QED
    BY <1>7, <1>8, <1>11, <2>1, AgreeAfter, GroupParts
<1>13. Announcing(c)'
  <2>1. rec'[d] = Outcome(c)'[d]
    <3>1. (d \in m) = TRUE
      OBVIOUS
    <3>2. QED
      BY <1>4, <1>11, <3>1
  <2>2. QED
    BY <1>3, <1>6, <1>7, <1>9, <1>10, <2>1 DEF Announcing
<1>14. ASSUME NEW e \in Device \ {d}
       PROVE  /\ cmd'[e] = Idle
              /\ IF e \in Audience(c) THEN Told(c, e)' ELSE inbox'[e] = <<>> /\ rx'[e] = Listening
  <2>1. ASSUME e \in Audience(c) PROVE Told(c, e)'
    <3>1. e \in Owing(c.by)' /\ rec'[e] = Before(c, e)
      BY <1>3, <1>4, <1>7, <1>10, <2>1 DEF Before
    <3>2. QED
      BY <1>6, <3>1 DEF Told
  <2>2. QED
    BY <1>5, <1>6, <2>1
<1>15. Changing(c)'
  BY <1>3, <1>8, <1>12, <1>13, <1>14 DEF Changing
<1>16. QED
  BY <1>15

-----------------------------------------------------------------------------
(* What is in an inbox after a message came, and after one was taken out. *)

LEMMA Delivered ==
  ASSUME NEW s \in Seq(Envelopes), NEW n \in Envelopes, NEW i \in 1 .. Len(Append(s, n))
  PROVE  Append(s, n)[i] = n \/ \E j \in 1 .. Len(s) : Append(s, n)[i] = s[j]
<1>1. Len(Append(s, n)) = Len(s) + 1 /\ Len(s) \in Nat
  OBVIOUS
<1>2. CASE i = Len(s) + 1
  BY <1>1, <1>2
<1>3. CASE i \in 1 .. Len(s)
  BY <1>3
<1>4. QED
  BY <1>1, <1>2, <1>3

LEMMA Taken ==
  ASSUME NEW s \in Seq(Envelopes), s # <<>>, NEW i \in 1 .. Len(Tail(s))
  PROVE  \E j \in 1 .. Len(s) : Tail(s)[i] = s[j]
<1>1. Len(Tail(s)) = Len(s) - 1 /\ Len(s) \in Nat
  OBVIOUS
<1>2. Tail(s)[i] = s[i + 1] /\ i + 1 \in 1 .. Len(s)
  BY <1>1
<1>3. QED
  BY <1>2

(* A leg of a fan-out, in quiet use. *)
LEMMA LegPosted ==
  ASSUME LaneInv, NEW d \in Device, NEW u \in Device, NEW sent, PostLeg(d, u, sent), quiet'
  PROVE  /\ cmd[d].pc \in {"fan", "tell"} /\ cmd[d] # Idle /\ u \in cmd[d].legs /\ u # d
         /\ Notice(d) \in Envelopes
         /\ inbox'[u] = Append(inbox[u], Notice(d)) /\ inbox[u] \in Seq(Envelopes)
         /\ \A e \in Device : e # u => inbox'[e] = inbox[e]
         /\ cmd'[d] = [cmd[d] EXCEPT !.legs = @ \ {u}] /\ cmd[d] \in CommandTypes
         /\ \A e \in Device : e # d => cmd'[e] = cmd[e]
         /\ rec' = rec /\ rx' = rx
<1>1. sent /\ cmd[d].pc \in {"fan", "tell"} /\ u \in cmd[d].legs
  BY DEF PostLeg
<1>2. CommandInHand(d) /\ GroupsTyped
  BY DEF LaneInv
<1>3. cmd[d] # Idle
  BY <1>1, IdleParts
<1>4. Notice(d) \in Envelopes
  BY <1>1, <1>2, <1>3, AfterTyped
<1>5. u # d /\ cmd[d] \in CommandTypes
  BY <1>1, <1>2, CommandForms
<1>6. /\ inbox' = [inbox EXCEPT ![u] = Append(@, Notice(d))] /\ rec' = rec /\ rx' = rx
      /\ cmd' = [cmd EXCEPT ![d] = [cmd[d] EXCEPT !.legs = @ \ {u}]]
  BY <1>1 DEF PostLeg, Become, local
<1>7. /\ inbox'[u] = Append(inbox[u], Notice(d)) /\ inbox[u] \in Seq(Envelopes)
      /\ \A e \in Device : e # u => inbox'[e] = inbox[e]
  BY <1>2, <1>6 DEF GroupsTyped
<1>8. /\ cmd'[d] = [cmd[d] EXCEPT !.legs = @ \ {u}]
      /\ \A e \in Device : e # d => cmd'[e] = cmd[e]
  BY <1>2, <1>6 DEF GroupsTyped
<1>9. QED
  BY <1>1, <1>3, <1>4, <1>5, <1>6, <1>7, <1>8

LEMMA OneLegLess ==
  ASSUME NEW c \in CommandTypes, NEW u
  PROVE  LET n == [c EXCEPT !.legs = @ \ {u}]
         IN /\ n.pc = c.pc /\ n.op = c.op /\ n.who = c.who /\ n.base = c.base
            /\ n.legs = c.legs \ {u}
BY DEF CommandTypes

-----------------------------------------------------------------------------
(* While only texts are under way. *)

LEMMA TextPosted ==
  ASSUME LaneInv, OnlyTexts, NEW d \in Device, NEW u \in Device, NEW sent,
         PostLeg(d, u, sent), quiet'
  PROVE  OnlyTexts'
<1> DEFINE n == Notice(d)
<1>1. /\ cmd[d] # Idle /\ u \in cmd[d].legs /\ n \in Envelopes
      /\ inbox'[u] = Append(inbox[u], n) /\ inbox[u] \in Seq(Envelopes)
      /\ \A e \in Device : e # u => inbox'[e] = inbox[e]
      /\ cmd'[d] = [cmd[d] EXCEPT !.legs = @ \ {u}] /\ cmd[d] \in CommandTypes
      /\ \A e \in Device : e # d => cmd'[e] = cmd[e]
      /\ rec' = rec /\ rx' = rx
  BY LegPosted
<1>2. Texting(d)
  BY <1>1 DEF OnlyTexts
<1>3. TextFor(u, n)
  <2>1. n = Envelope(d, "msg", NoDevice, rec[d].members)
    <3>1. cmd[d].pc = "fan" /\ cmd[d].op = "msg" /\ cmd[d].base = rec[d]
      BY <1>2, CommandForms DEF Texting, LaneInv
    <3>2. QED
      BY <3>1 DEF Notice, After
  <2>2. QED
    BY <1>1, <1>2, <2>1, EnvelopeParts DEF TextFor, Texting
<1> HIDE DEF n
<1>4. Texting(d)'
  BY <1>1, <1>2, OneLegLess DEF Texting
<1>5. ASSUME NEW e \in Device PROVE cmd'[e] = Idle \/ Texting(e)'
  BY <1>1, <1>4 DEF OnlyTexts, Texting
<1>6. ASSUME NEW e \in Device, NEW i \in 1 .. Len(inbox'[e]) PROVE TextFor(e, inbox'[e][i])
  <2>1. CASE e = u
    BY <1>1, <1>3, <1>6, <2>1, Delivered DEF OnlyTexts
  <2>2. CASE e # u
    BY <1>1, <1>6, <2>2 DEF OnlyTexts
  <2>3. QED
    BY <2>1, <2>2
<1>7. ASSUME NEW e \in Device, NEW i \in 1 .. Len(inbox'[e]) PROVE TextFor(e, inbox[e][i])'
  BY <1>1, <1>6 DEF TextFor
<1>8. QED
  BY <1>1, <1>5, <1>7 DEF OnlyTexts

LEMMA TextDone ==
  ASSUME LaneInv, OnlyTexts, NEW d \in Device, FanOutDone(d)
  PROVE  OnlyTexts'
<1>1. Texting(d) 
  BY IdleParts DEF OnlyTexts, FanOutDone
<1>2. /\ cmd' = [cmd EXCEPT ![d] = Idle] /\ UNCHANGED <<rec, rx, inbox>>
  BY <1>1 DEF FanOutDone, Become, Texting
<1>3. ASSUME NEW e \in Device PROVE cmd'[e] = Idle \/ Texting(e)'
  BY <1>2 DEF OnlyTexts, Texting, LaneInv, GroupsTyped
<1>4. QED
  BY <1>2, <1>3 DEF OnlyTexts, TextFor

(* A text reaches a member, who knows the sender as one and holds the same
   roster. *)
LEMMA TextRead ==
  ASSUME LaneInv, OnlyTexts, ~alarmed, ~astray, quiet, NEW d \in Device, ReadNext(d), quiet'
  PROVE  OnlyTexts' /\ ~alarmed' /\ ~astray'
<1> DEFINE env == Head(inbox[d])
<1>1. /\ inbox[d] # <<>> /\ inbox' = [inbox EXCEPT ![d] = Tail(@)]
      /\ Refuse(d, env) \/ ShowText(d, env) \/ TakeUp(d, env)
      /\ rec' = rec /\ cmd' = cmd
  BY DEF ReadNext, local
<1>2. env \in Envelopes /\ TextFor(d, env)
  BY <1>1, FirstUnderWay DEF OnlyTexts
<1>3. /\ env.action = "msg" /\ env.from \in Device /\ env.members = rec[env.from].members
      /\ rec[env.from].active /\ d \in rec[env.from].members
  BY <1>2 DEF TextFor
<1> HIDE DEF env
<1>4. /\ rec[d] = rec[env.from] /\ env.from \in rec[env.from].members
      /\ IsValidGroup(rec[env.from])
  BY <1>3 DEF OnlyTexts, Agree
<1>5. Known(d)
  BY <1>4, KnownIsValid
<1>6. Decodes(env) /\ Listed(d, env)
  <2>1. env.subject = NoDevice
    BY <1>2, <1>3, EnvelopeParts
  <2>2. QED
    BY <1>3, <1>4, <2>1 DEF Decodes, Listed, IsValidGroup
<1>7. env.from \in contacts[d] => ~Refused(d, env)
  BY <1>3, <1>4, <1>5, <1>6 DEF Refused
<1>8. ShowText(d, env)
  BY <1>1, <1>3, <1>5, <1>7 DEF Refuse, TakeUp
<1>9. ~alarmed' /\ ~astray' /\ rx' = rx
  <2>1. ~Diverges(rec[d], env)
    BY <1>3, <1>4 DEF Diverges, Announced
  <2>2. QED
    BY <1>3, <1>4, <1>8, <2>1 DEF ShowText, Warn
<1>10. ASSUME NEW e \in Device, NEW i \in 1 .. Len(inbox'[e]) PROVE TextFor(e, inbox'[e][i])
  <2>1. inbox[e] \in Seq(Envelopes)
    BY DEF LaneInv, GroupsTyped
  <2>2. CASE e = d
    <3>1. inbox'[e] = Tail(inbox[d])
      BY <1>1, <2>2 DEF LaneInv, GroupsTyped
    <3>2. QED
      BY <1>1, <1>10, <2>1, <2>2, <3>1, Taken DEF OnlyTexts
  <2>3. CASE e # d
    <3>1. inbox'[e] = inbox[e]
      BY <1>1, <2>3 DEF LaneInv, GroupsTyped
    <3>2. QED
      BY <1>10, <3>1 DEF OnlyTexts
  <2>4. QED
    BY <2>2, <2>3
<1>11. ASSUME NEW e \in Device, NEW i \in 1 .. Len(inbox'[e]) PROVE TextFor(e, inbox[e][i])'
  <2>1. rec' = rec
    BY <1>1
  <2>2. TextFor(e, inbox'[e][i])
    BY <1>10
  <2>3. QED
    BY <2>1, <2>2 DEF TextFor
<1>12. OnlyTexts'
  BY <1>1, <1>9, <1>11 DEF OnlyTexts, Texting
<1>13. QED
  BY <1>9, <1>12

-----------------------------------------------------------------------------
(* While one who is out makes a change. *)

InVainHand(x) ==
  /\ cmd[x].op \in {"add", "remove", "leave"}
  /\ x # cmd[x].who /\ x \notin cmd[x].base.members /\ ~cmd[x].base.active
  /\ Holding(x) => cmd[x].base = rec[x]
  /\ cmd[x].op = "add" /\ cmd[x].pc = "save" => rec[cmd[x].who] = NoGroup
  /\ \A d \in Owing(x) : x \notin rec[d].members

LEMMA InVainParts ==
  ASSUME NEW x \in Device
  PROVE  InVain(x) <=>
           /\ Agree(rec) /\ ~rec[x].active
           /\ \A d \in Device : /\ rx[d] = Listening
                                /\ d # x => cmd[d] = Idle
                                /\ \A i \in 1 .. Len(inbox[d]) : VainFrom(x, d, inbox[d][i])
           /\ cmd[x] = Idle \/ InVainHand(x)
BY DEF InVain, InVainHand

(* Its own record is the only one that changes. *)
LEMMA OwnRecord ==
  ASSUME LaneInv, NEW x \in Device, InVain(x), NEW s \in SUBSET Device, x \notin s,
         \A e \in s : x \notin rec[e].members,
         rec' = [rec EXCEPT ![x] = Group(s, FALSE)], inbox' = inbox
  PROVE  /\ Agree(rec)' /\ rec'[x] = Group(s, FALSE) /\ ~rec'[x].active
         /\ \A e \in Device : e # x => rec'[e] = rec[e]
         /\ \A d \in Device : x \notin rec[d].members => x \notin rec'[d].members
         /\ \A d \in Device : \A i \in 1 .. Len(inbox'[d]) : VainFrom(x, d, inbox[d][i])'
<1>1. rec \in [Device -> Groups]
  BY DEF LaneInv, GroupsTyped
<1>2. Agree(rec')
  BY <1>1, AgreeOut DEF InVain
<1>3. /\ rec'[x] = Group(s, FALSE) /\ \A e \in Device : e # x => rec'[e] = rec[e]
  BY <1>1
<1>4. Group(s, FALSE).members = s /\ Group(s, FALSE).active = FALSE
  BY GroupParts
<1>5. ASSUME NEW d \in Device, x \notin rec[d].members PROVE x \notin rec'[d].members
  BY <1>3, <1>4, <1>5
<1>6. \A d \in Device : \A i \in 1 .. Len(inbox'[d]) : VainFrom(x, d, inbox[d][i])'
  BY <1>5 DEF InVain, VainFrom
<1>7. QED
  BY <1>2, <1>3, <1>4, <1>5, <1>6

LEMMA VainSaved ==
  ASSUME LaneInv, NEW x \in Device, InVain(x), NEW d \in Device, SaveChange(d)
  PROVE  InVain(x)'
<1>1. cmd[d].pc = "save" /\ d = x /\ InVainHand(x)
  BY IdleParts, InVainParts DEF SaveChange
<1>2. /\ cmd[x] \in CommandTypes /\ cmd[x].op \in {"add", "remove"} /\ cmd[x].who \in Device
  BY <1>1, CommandForms DEF LaneInv
<1>3. /\ cmd[x].base = rec[x] /\ ~rec[x].active /\ x \notin rec[x].members /\ x # cmd[x].who
      /\ rec[x].members \in SUBSET Device /\ rec[x].active = FALSE
  BY <1>1, GroupParts DEF InVainHand, Holding, LaneInv, GroupsTyped
<1> DEFINE s == After(x)
<1>4. /\ s \in SUBSET Device /\ x \notin s
      /\ \A e \in s : e \in rec[x].members \/ (cmd[x].op = "add" /\ e = cmd[x].who)
  BY <1>2, <1>3 DEF After
<1>5. \A e \in s : x \notin rec[e].members
  <2>1. \A e \in rec[x].members : x \notin rec[e].members
    BY <1>3 DEF InVain, Agree
  <2>2. cmd[x].op = "add" => rec[cmd[x].who].members = {}
    BY <1>1, GroupParts DEF InVainHand
  <2>3. QED
    BY <1>4, <2>1, <2>2
<1>6. /\ rec' = [rec EXCEPT ![x] = Group(s, FALSE)] /\ UNCHANGED <<rx, inbox>>
      /\ cmd' = [cmd EXCEPT ![x] = [cmd[x] EXCEPT !.pc = "fan"]]
  BY <1>1, <1>3 DEF SaveChange, SaveGroup, Become
<1> HIDE DEF s
<1>7. /\ cmd'[x].pc = "fan" /\ cmd'[x].op = cmd[x].op /\ cmd'[x].who = cmd[x].who
      /\ cmd'[x].base = cmd[x].base /\ cmd'[x].legs = cmd[x].legs
      /\ \A e \in Device : e # x => cmd'[e] = cmd[e]
  BY <1>2, <1>6 DEF LaneInv, GroupsTyped, CommandTypes
<1>8. Owing(x)' = Owing(x) /\ ~Holding(x)' /\ Owing(x) \in SUBSET Device
  BY <1>1, <1>2, <1>3, <1>7 DEF Owing, Holding, CommandTypes
<1>9. /\ Agree(rec)' /\ ~rec'[x].active
      /\ \A e \in Device : x \notin rec[e].members => x \notin rec'[e].members
      /\ \A e \in Device : \A i \in 1 .. Len(inbox'[e]) : VainFrom(x, e, inbox[e][i])'
  BY <1>4, <1>5, <1>6, OwnRecord
<1>10. InVainHand(x)'
  BY <1>1, <1>7, <1>8, <1>9 DEF InVainHand
<1>11. QED
  BY <1>6, <1>7, <1>9, <1>10 DEF InVain, InVainHand

LEMMA VainPosted ==
  ASSUME LaneInv, NEW x \in Device, InVain(x), NEW d \in Device, NEW u \in Device, NEW sent,
         PostLeg(d, u, sent), quiet'
  PROVE  InVain(x)'
<1> DEFINE n == Notice(d)
<1>1. /\ cmd[d].pc \in {"fan", "tell"} /\ cmd[d] # Idle /\ u \in cmd[d].legs /\ n \in Envelopes
      /\ inbox'[u] = Append(inbox[u], n) /\ inbox[u] \in Seq(Envelopes)
      /\ \A e \in Device : e # u => inbox'[e] = inbox[e]
      /\ cmd'[d] = [cmd[d] EXCEPT !.legs = @ \ {u}] /\ cmd[d] \in CommandTypes
      /\ \A e \in Device : e # d => cmd'[e] = cmd[e]
      /\ rec' = rec /\ rx' = rx
  BY LegPosted
<1>2. d = x /\ InVainHand(x)
  BY <1>1, InVainParts
<1>3. VainFrom(x, u, n)
  <2>1. x \notin rec[u].members
    BY <1>1, <1>2 DEF InVainHand, Owing
  <2>2. x \notin After(x)
    BY <1>2 DEF InVainHand, After
  <2>3. n.from = x /\ n.action # "msg" /\ n.members = After(x)
    BY <1>2, EnvelopeParts DEF Notice, InVainHand
  <2>4. QED
    BY <2>1, <2>2, <2>3 DEF VainFrom
<1> HIDE DEF n
<1>4. InVainHand(x)'
  <2>1. /\ cmd'[x].pc = cmd[x].pc /\ cmd'[x].op = cmd[x].op /\ cmd'[x].who = cmd[x].who
        /\ cmd'[x].base = cmd[x].base /\ cmd'[x].legs = cmd[x].legs \ {u}
    <3>1. cmd'[x] = [cmd[x] EXCEPT !.legs = @ \ {u}] /\ cmd[x] \in CommandTypes
      BY <1>1, <1>2
    <3>2. QED
      BY <3>1 DEF CommandTypes
  <2>2. (Holding(x)' <=> Holding(x)) /\ Owing(x)' \subseteq Owing(x)
    BY <2>1 DEF Holding, Owing
  <2>3. QED
    BY <1>1, <1>2, <2>1, <2>2 DEF InVainHand
<1>5. ASSUME NEW e \in Device, NEW i \in 1 .. Len(inbox'[e]) PROVE VainFrom(x, e, inbox'[e][i])
  <2>1. CASE e = u
    BY <1>1, <1>3, <1>5, <2>1, Delivered DEF InVain
  <2>2. CASE e # u
    BY <1>1, <1>5, <2>2 DEF InVain
  <2>3. QED
    BY <2>1, <2>2
<1>6. ASSUME NEW e \in Device, NEW i \in 1 .. Len(inbox'[e]) PROVE VainFrom(x, e, inbox[e][i])'
  BY <1>1, <1>5 DEF VainFrom
<1>7. QED
  BY <1>1, <1>2, <1>4, <1>6 DEF InVain, InVainHand

LEMMA VainDone ==
  ASSUME LaneInv, NEW x \in Device, InVain(x), NEW d \in Device, FanOutDone(d)
  PROVE  InVain(x)'
<1>1. d = x /\ InVainHand(x) /\ cmd[x].legs = {} /\ UNCHANGED <<rx, inbox>>
  BY IdleParts, InVainParts DEF FanOutDone
<1>2. cmd[x] \in CommandTypes /\ cmd[x].base.members \in SUBSET Device
  BY GroupParts DEF LaneInv, GroupsTyped, CommandTypes
<1>3. CASE cmd[x].op = "add" /\ cmd[x].pc = "fan"
  <2>1. /\ cmd' = [cmd EXCEPT ![x] = [cmd[x] EXCEPT !.pc = "tell",
                                                    !.legs = cmd[x].base.members \ {x}]]
        /\ rec' = rec
    BY <1>1, <1>3 DEF FanOutDone, Become
  <2>2. /\ cmd'[x].pc = "tell" /\ cmd'[x].op = cmd[x].op /\ cmd'[x].who = cmd[x].who
        /\ cmd'[x].base = cmd[x].base /\ cmd'[x].legs = cmd[x].base.members \ {x}
        /\ \A e \in Device : e # x => cmd'[e] = cmd[e]
    BY <1>2, <2>1 DEF LaneInv, GroupsTyped, CommandTypes
  <2>3. ~Holding(x)' /\ Owing(x)' \subseteq Owing(x)
    BY <1>3, <2>2 DEF Holding, Owing
  <2>4. InVainHand(x)'
    BY <1>1, <2>1, <2>2, <2>3 DEF InVainHand
  <2>5. QED
    BY <1>1, <2>1, <2>2, <2>4 DEF InVain, InVainHand, VainFrom
<1>4. CASE ~(cmd[x].op = "add" /\ cmd[x].pc = "fan")
  <2>1. cmd' = [cmd EXCEPT ![x] = Idle]
    BY <1>1, <1>4 DEF FanOutDone, Become
  <2>2. cmd'[x] = Idle /\ \A e \in Device : e # x => cmd'[e] = cmd[e]
    BY <2>1 DEF LaneInv, GroupsTyped
  <2>3. CASE cmd[x].op = "leave"
    <3>1. Holding(x) /\ cmd[x].base = rec[x] /\ x \notin rec[x].members
      BY <1>1, <2>3, IdleParts DEF FanOutDone, Holding, InVainHand
    <3>2. After(x) = rec[x].members
      BY <2>3, <3>1 DEF After
    <3>3. rec' = [rec EXCEPT ![x] = Group(rec[x].members, FALSE)]
      BY <1>1, <2>3, <3>2 DEF FanOutDone, SaveGroup
    <3>4. \A e \in rec[x].members : x \notin rec[e].members
      BY DEF InVain, Agree
    <3>5. /\ Agree(rec)' /\ ~rec'[x].active
          /\ \A e \in Device : \A i \in 1 .. Len(inbox'[e]) : VainFrom(x, e, inbox[e][i])'
      BY <1>1, <1>2, <3>1, <3>3, <3>4, OwnRecord
    <3>6. QED
      BY <1>1, <2>2, <3>5 DEF InVain
  <2>4. CASE cmd[x].op # "leave"
    <3>1. rec' = rec
      BY <1>1, <2>4 DEF FanOutDone
    <3>2. QED
      BY <1>1, <2>2, <3>1 DEF InVain, VainFrom
  <2>5. QED
    BY <2>3, <2>4
<1>5. QED
  BY <1>3, <1>4

(* Nobody takes the sender for a member, so everyone refuses it. *)
LEMMA VainRead ==
  ASSUME LaneInv, NEW x \in Device, InVain(x), ~alarmed, ~astray, NEW d \in Device, ReadNext(d)
  PROVE  InVain(x)' /\ ~alarmed' /\ ~astray'
<1> DEFINE env == Head(inbox[d])
<1>1. /\ inbox[d] # <<>> /\ inbox' = [inbox EXCEPT ![d] = Tail(@)]
      /\ Refuse(d, env) \/ ShowText(d, env) \/ TakeUp(d, env)
      /\ rec' = rec /\ cmd' = cmd
  BY DEF ReadNext, local
<1>2. VainFrom(x, d, env)
  BY <1>1, FirstUnderWay DEF InVain
<1> HIDE DEF env
<1>3. Refused(d, env)
  <2>1. CASE env.action = "invite"
    BY <1>2, <2>1 DEF Refused, Listed, VainFrom
  <2>2. CASE env.action # "invite"
    BY <1>2, <2>2 DEF Refused, VainFrom
  <2>3. QED
    BY <2>1, <2>2
<1>4. ~alarmed' /\ ~astray' /\ rx' = rx
  <2>1. Refuse(d, env)
    BY <1>1, <1>3 DEF ShowText, TakeUp
  <2>2. env.action # "msg"
    BY <1>2 DEF VainFrom
  <2>3. QED
    BY <2>1, <2>2 DEF Refuse
<1>5. ASSUME NEW e \in Device, NEW i \in 1 .. Len(inbox'[e]) PROVE VainFrom(x, e, inbox'[e][i])
  <2>1. inbox[e] \in Seq(Envelopes)
    BY DEF LaneInv, GroupsTyped
  <2>2. CASE e = d
    <3>1. inbox'[e] = Tail(inbox[d])
      BY <1>1, <2>2 DEF LaneInv, GroupsTyped
    <3>2. QED
      BY <1>1, <1>5, <2>1, <2>2, <3>1, Taken DEF InVain
  <2>3. CASE e # d
    <3>1. inbox'[e] = inbox[e]
      BY <1>1, <2>3 DEF LaneInv, GroupsTyped
    <3>2. QED
      BY <1>5, <3>1 DEF InVain
  <2>4. QED
    BY <2>2, <2>3
<1>6. ASSUME NEW e \in Device, NEW i \in 1 .. Len(inbox'[e]) PROVE VainFrom(x, e, inbox[e][i])'
  BY <1>1, <1>5 DEF VainFrom
<1>7. cmd'[x] = Idle \/ InVainHand(x)'
  <2>1. InVainHand(x)' <=> InVainHand(x)
    BY <1>1 DEF InVainHand, Holding, Owing
  <2>2. QED
    BY <1>1, <2>1, InVainParts
<1>8. InVain(x)'
  BY <1>1, <1>4, <1>6, <1>7 DEF InVain, InVainHand
<1>9. QED
  BY <1>4, <1>8

-----------------------------------------------------------------------------
(* While a member makes a change, and the others are told. *)

LEMMA OutcomeStays ==
  ASSUME NEW c \in Changes,
         \A e \in Device : e # c.by /\ e \notin Audience(c) => rec'[e] = rec[e]
  PROVE  Outcome(c)' = Outcome(c)
BY DEF Outcome

(* The one who makes it, at work on it. *)
AtWork(c) ==
  LET d == c.by
  IN /\ cmd[d] # Idle /\ cmd[d] \in CommandTypes
     /\ cmd[d].op = c.op /\ cmd[d].who = c.who /\ cmd[d].base = Group(c.members, TRUE)
     /\ cmd[d].base.members = c.members /\ cmd[d].base.active = TRUE
     /\ c.op = "add" => cmd[d].legs \subseteq (IF cmd[d].pc = "tell" THEN c.members ELSE {c.who})
     /\ rec[d] = IF Holding(d) THEN cmd[d].base ELSE Outcome(c)[d]
     /\ After(d) = Roster(c)

LEMMA WhoIsAtWork ==
  ASSUME LaneInv, NEW c \in Changes, Changing(c), NEW d \in Device, cmd[d] # Idle
  PROVE  /\ d = c.by /\ AtWork(c) /\ rx[d] = Listening /\ inbox[d] = <<>>
         /\ Owing(d) \subseteq Audience(c)
<1>1. d = c.by
  BY DEF Changing
<1>2. Announcing(c) /\ cmd[d] \in CommandTypes
  BY DEF Changing, LaneInv, GroupsTyped, CommandTypes
<1>3. /\ rx[d] = Listening /\ inbox[d] = <<>> /\ Owing(d) \subseteq Audience(c)
      /\ cmd[d].op = c.op /\ cmd[d].who = c.who /\ cmd[d].base = Group(c.members, TRUE)
      /\ c.op = "add" => cmd[d].legs \subseteq (IF cmd[d].pc = "tell" THEN c.members ELSE {c.who})
      /\ rec[d] = IF Holding(d) THEN cmd[d].base ELSE Outcome(c)[d]
  BY <1>1, <1>2 DEF Announcing
<1>4. cmd[d].base.members = c.members /\ cmd[d].base.active = TRUE
  <2>1. Group(c.members, TRUE).members = c.members /\ Group(c.members, TRUE).active = TRUE
    BY GroupParts
  <2>2. QED
    BY <1>3, <2>1
<1>5. After(d) = Roster(c)
  BY <1>1, <1>3, <1>4 DEF After, Roster
<1>6. QED
  BY <1>1, <1>2, <1>3, <1>4, <1>5 DEF AtWork

(* What the step of one device leaves of the others' part in it. *)
LEMMA ToldStays ==
  ASSUME NEW c \in Changes, NEW e \in Device, Told(c, e),
         rec'[e] = rec[e], rx'[e] = rx[e], inbox'[e] = inbox[e],
         e \in Owing(c.by)' <=> e \in Owing(c.by), Outcome(c)' = Outcome(c)
  PROVE  Told(c, e)'
<1>1. CASE /\ inbox[e] = <<>> /\ rx[e] = Listening
           /\ rec[e] = IF e \in Owing(c.by) THEN Before(c, e) ELSE Outcome(c)[e]
  <2>1. /\ inbox'[e] = <<>> /\ rx'[e] = Listening
        /\ rec'[e] = IF e \in Owing(c.by)' THEN Before(c, e) ELSE Outcome(c)'[e]
    BY <1>1
  <2>2. QED
    BY <2>1 DEF Told
<1>2. CASE /\ e \notin Owing(c.by) /\ rec[e] = Before(c, e)
           /\ \/ inbox[e] = <<Letter(c, e)>> /\ rx[e] = Listening
              \/ /\ inbox[e] = <<>>
                 /\ rx[e] = [pc |-> "apply", env |-> Letter(c, e), base |-> Before(c, e)]
  BY <1>2 DEF Told
<1>3. QED
  BY <1>1, <1>2 DEF Told

LEMMA ChangeSaved ==
  ASSUME LaneInv, NEW c \in Changes, Changing(c), NEW d \in Device, SaveChange(d)
  PROVE  Changing(c)'
<1>1. cmd[d].pc = "save" /\ cmd[d] # Idle
  BY IdleParts DEF SaveChange
<1>2. /\ d = c.by /\ AtWork(c) /\ rx[d] = Listening /\ inbox[d] = <<>>
      /\ Owing(d) \subseteq Audience(c)
  BY <1>1, WhoIsAtWork
<1>3. /\ cmd[d] \in CommandTypes /\ c.op \in {"add", "remove"} /\ cmd[d].op = c.op
      /\ cmd[d].who = c.who /\ cmd[d].base = Group(c.members, TRUE)
      /\ cmd[d].base.active = TRUE /\ After(d) = Roster(c)
  <2>1. cmd[d].op \in {"add", "remove"}
    BY <1>1, CommandForms DEF LaneInv
  <2>2. QED
    BY <1>2, <2>1 DEF AtWork
<1>4. /\ rec' = [rec EXCEPT ![d] = Group(Roster(c), TRUE)] /\ UNCHANGED <<rx, inbox>>
      /\ cmd' = [cmd EXCEPT ![d] = [cmd[d] EXCEPT !.pc = "fan"]]
  BY <1>3 DEF SaveChange, SaveGroup, Become
<1>5. /\ cmd'[d].pc = "fan" /\ cmd'[d].op = cmd[d].op /\ cmd'[d].who = cmd[d].who
      /\ cmd'[d].base = cmd[d].base /\ cmd'[d].legs = cmd[d].legs
      /\ \A e \in Device : e # d => cmd'[e] = cmd[e]
  BY <1>3, <1>4 DEF LaneInv, GroupsTyped, CommandTypes
<1>6. Owing(d)' = Owing(d) /\ ~Holding(d)'
  BY <1>1, <1>3, <1>5 DEF Owing, Holding
<1>7. rec'[d] = Group(Roster(c), TRUE) /\ \A e \in Device : e # d => rec'[e] = rec[e]
  BY <1>4 DEF LaneInv, GroupsTyped
<1>8. Outcome(c)' = Outcome(c)
  BY <1>2, <1>7, OutcomeStays
<1>9. Outcome(c)[d] = Group(Roster(c), TRUE)
  <2>1. (c.op # "leave") = TRUE
    BY <1>3
  <2>2. QED
    BY <1>2, <2>1, OutcomeParts
<1>10. Announcing(c)'
  <2>1. c.op = "add" => cmd'[d].legs \subseteq (IF cmd'[d].pc = "tell" THEN c.members ELSE {c.who})
    BY <1>1, <1>2, <1>5 DEF AtWork
  <2>2. rec'[d] = Outcome(c)'[d]
    BY <1>7, <1>8, <1>9
  <2>3. QED
    BY <1>2, <1>3, <1>4, <1>5, <1>6, <2>1, <2>2 DEF Announcing
<1>11. ASSUME NEW e \in Device \ {c.by}
       PROVE  /\ cmd'[e] = Idle
              /\ IF e \in Audience(c) THEN Told(c, e)' ELSE inbox'[e] = <<>> /\ rx'[e] = Listening
  <2>1. /\ cmd[e] = Idle
        /\ IF e \in Audience(c) THEN Told(c, e) ELSE inbox[e] = <<>> /\ rx[e] = Listening
    BY DEF Changing
  <2>2. rec'[e] = rec[e] /\ rx'[e] = rx[e] /\ inbox'[e] = inbox[e] /\ cmd'[e] = cmd[e]
    BY <1>2, <1>4, <1>5, <1>7
  <2>3. e \in Owing(c.by)' <=> e \in Owing(c.by)
    BY <1>2, <1>6
  <2>4. QED
    BY <1>8, <2>1, <2>2, <2>3, ToldStays
<1>12. InOrder(c) /\ Agree(Outcome(c)')
  BY <1>8 DEF Changing
<1>13. QED
  BY <1>10, <1>11, <1>12 DEF Changing

LEMMA ChangePosted ==
  ASSUME LaneInv, NEW c \in Changes, Changing(c), NEW d \in Device, NEW u \in Device, NEW sent,
         PostLeg(d, u, sent), quiet'
  PROVE  Changing(c)'
<1> DEFINE n == Notice(d)
<1>1. /\ cmd[d].pc \in {"fan", "tell"} /\ cmd[d] # Idle /\ u \in cmd[d].legs /\ u # d
      /\ inbox'[u] = Append(inbox[u], n) /\ inbox[u] \in Seq(Envelopes)
      /\ \A e \in Device : e # u => inbox'[e] = inbox[e]
      /\ cmd'[d] = [cmd[d] EXCEPT !.legs = @ \ {u}]
      /\ \A e \in Device : e # d => cmd'[e] = cmd[e]
      /\ rec' = rec /\ rx' = rx
  BY LegPosted
<1>2. /\ d = c.by /\ AtWork(c) /\ rx[d] = Listening /\ inbox[d] = <<>>
      /\ Owing(d) \subseteq Audience(c)
  BY <1>1, WhoIsAtWork
<1>3. /\ cmd[d] \in CommandTypes /\ cmd[d].op = c.op /\ cmd[d].who = c.who
      /\ cmd[d].base = Group(c.members, TRUE) /\ cmd[d].base.members = c.members
      /\ c.op = "add" => cmd[d].legs \subseteq (IF cmd[d].pc = "tell" THEN c.members ELSE {c.who})
      /\ rec[d] = IF Holding(d) THEN cmd[d].base ELSE Outcome(c)[d]
      /\ After(d) = Roster(c)
  BY <1>2 DEF AtWork
<1>4. InOrder(c) /\ c.op \in {"invite", "add", "remove", "leave"}
  BY ChangeTyped DEF Changing
<1>5. n = Letter(c, u)
  <2>1. CASE c.op = "add" /\ cmd[d].pc = "fan"
    <3>1. u = c.who
      BY <1>1, <1>3, <2>1
    <3>2. QED
      BY <1>2, <1>3, <2>1, <3>1 DEF Notice, Letter, Invited
  <2>2. CASE c.op = "add" /\ cmd[d].pc = "tell"
    <3>1. u \in c.members /\ u # c.who
      BY <1>1, <1>3, <1>4, <2>2 DEF InOrder
    <3>2. QED
      BY <1>2, <1>3, <2>2, <3>1 DEF Notice, Letter, Invited
  <2>3. CASE c.op # "add"
    <3>1. c.op # "remove" => c.who = NoDevice
      BY <1>4, <2>3 DEF InOrder
    <3>2. QED
      BY <1>2, <1>3, <1>4, <2>3, <3>1 DEF Notice, Letter, Invited
  <2>4. QED
    BY <1>1, <2>1, <2>2, <2>3
<1> HIDE DEF n
<1>6. /\ cmd'[d].pc = cmd[d].pc /\ cmd'[d].op = cmd[d].op /\ cmd'[d].who = cmd[d].who
      /\ cmd'[d].base = cmd[d].base /\ cmd'[d].legs = cmd[d].legs \ {u}
  BY <1>1, <1>3 DEF CommandTypes
<1>7. /\ u \in Owing(d) /\ u \notin Owing(d)' /\ (Holding(d)' <=> Holding(d))
      /\ \A e : e # u => (e \in Owing(d)' <=> e \in Owing(d))
  <2>1. u \in Owing(d) /\ (Holding(d)' <=> Holding(d))
    BY <1>1, <1>6 DEF Owing, Holding
  <2>2. \A e : e # u => (e \in Owing(d)' <=> e \in Owing(d))
    BY <1>6 DEF Owing
  <2>3. c.op = "add" /\ cmd[d].pc = "fan" => u \notin c.members
    BY <1>1, <1>3, <1>4 DEF InOrder
  <2>4. u \notin Owing(d)'
    BY <1>1, <1>3, <1>6, <2>3 DEF Owing
  <2>5. QED
    BY <2>1, <2>2, <2>4
<1>8. Outcome(c)' = Outcome(c)
  BY <1>1, OutcomeStays
<1>9. Announcing(c)'
  <2>1. /\ rx'[d] = Listening /\ inbox'[d] = <<>> /\ Owing(d)' \subseteq Audience(c)
    BY <1>1, <1>2, <1>7
  <2>2. c.op = "add" => cmd'[d].legs \subseteq (IF cmd'[d].pc = "tell" THEN c.members ELSE {c.who})
    BY <1>3, <1>6
  <2>3. rec'[d] = IF Holding(d)' THEN cmd'[d].base ELSE Outcome(c)'[d]
    BY <1>1, <1>3, <1>6, <1>7, <1>8
  <2>4. QED
    BY <1>2, <1>3, <1>6, <2>1, <2>2, <2>3 DEF Announcing
<1>10. ASSUME NEW e \in Device \ {c.by}
       PROVE  /\ cmd'[e] = Idle
              /\ IF e \in Audience(c) THEN Told(c, e)' ELSE inbox'[e] = <<>> /\ rx'[e] = Listening
  <2>1. /\ cmd[e] = Idle
        /\ IF e \in Audience(c) THEN Told(c, e) ELSE inbox[e] = <<>> /\ rx[e] = Listening
    BY DEF Changing
  <2>2. CASE e = u
    <3>1. e \in Audience(c) /\ e \in Owing(c.by)
      BY <1>2, <1>7, <2>2
    <3>2. inbox[e] = <<>> /\ rx[e] = Listening /\ rec[e] = Before(c, e)
      BY <2>1, <3>1 DEF Told
    <3>3. inbox'[e] = <<Letter(c, e)>>
      BY <1>1, <1>5, <2>2, <3>2
    <3>4. Told(c, e)'
      BY <1>1, <1>2, <1>7, <2>2, <3>2, <3>3 DEF Told
    <3>5. QED
      BY <1>1, <1>2, <2>1, <3>1, <3>4
  <2>3. CASE e # u
    <3>1. rec'[e] = rec[e] /\ rx'[e] = rx[e] /\ inbox'[e] = inbox[e] /\ cmd'[e] = cmd[e]
      BY <1>1, <1>2, <2>3
    <3>2. e \in Owing(c.by)' <=> e \in Owing(c.by)
      BY <1>2, <1>7, <2>3
    <3>3. QED
      BY <1>8, <2>1, <3>1, <3>2, ToldStays
  <2>4. QED
    BY <2>2, <2>3
<1>11. InOrder(c) /\ Agree(Outcome(c)')
  BY <1>8 DEF Changing
<1>12. QED
  BY <1>9, <1>10, <1>11 DEF Changing

LEMMA ChangeDone ==
  ASSUME LaneInv, NEW c \in Changes, Changing(c), NEW d \in Device, FanOutDone(d)
  PROVE  Changing(c)'
<1>1. /\ cmd[d].pc \in {"fan", "tell"} /\ cmd[d].legs = {} /\ cmd[d] # Idle
      /\ UNCHANGED <<rx, inbox>>
  BY IdleParts DEF FanOutDone
<1>2. /\ d = c.by /\ AtWork(c) /\ rx[d] = Listening /\ inbox[d] = <<>>
      /\ Owing(d) \subseteq Audience(c)
  BY <1>1, WhoIsAtWork
<1>3. /\ cmd[d] \in CommandTypes /\ cmd[d].op = c.op /\ cmd[d].who = c.who
      /\ cmd[d].base = Group(c.members, TRUE) /\ cmd[d].base.members = c.members
      /\ rec[d] = IF Holding(d) THEN cmd[d].base ELSE Outcome(c)[d]
      /\ After(d) = Roster(c)
  BY <1>2 DEF AtWork
<1>4. Announcing(c)' /\ Owing(d)' = Owing(d)
      /\ (\A e \in Device : e # d => cmd'[e] = cmd[e] /\ rec'[e] = rec[e])
      /\ Outcome(c)' = Outcome(c)
  <2>1. CASE c.op = "add" /\ cmd[d].pc = "fan"
    <3>1. /\ cmd' = [cmd EXCEPT ![d] = [cmd[d] EXCEPT !.pc = "tell",
                                                      !.legs = cmd[d].base.members \ {d}]]
          /\ rec' = rec
      BY <1>3, <2>1 DEF FanOutDone, Become
    <3>2. /\ cmd'[d].pc = "tell" /\ cmd'[d].op = cmd[d].op /\ cmd'[d].who = cmd[d].who
          /\ cmd'[d].base = cmd[d].base /\ cmd'[d].legs = cmd[d].base.members \ {d}
          /\ \A e \in Device : e # d => cmd'[e] = cmd[e]
      BY <1>3, <3>1 DEF LaneInv, GroupsTyped, CommandTypes
    <3>3. Owing(d)' = Owing(d) /\ ~Holding(d)' /\ ~Holding(d)
      BY <1>1, <1>3, <2>1, <3>2 DEF Owing, Holding
    <3>4. Outcome(c)' = Outcome(c)
      BY <3>1, OutcomeStays
    <3>5. rec'[d] = Outcome(c)'[d] /\ cmd'[d].legs \subseteq c.members
      BY <1>3, <3>1, <3>2, <3>3, <3>4
    <3>6. Announcing(c)'
      BY <1>1, <1>2, <1>3, <3>2, <3>3, <3>5 DEF Announcing
    <3>7. QED
      BY <3>1, <3>2, <3>3, <3>4, <3>6
  <2>2. CASE ~(c.op = "add" /\ cmd[d].pc = "fan")
    <3>1. cmd' = [cmd EXCEPT ![d] = Idle]
      BY <1>3, <2>2 DEF FanOutDone, Become
    <3>2. cmd'[d] = Idle /\ \A e \in Device : e # d => cmd'[e] = cmd[e]
      BY <3>1 DEF LaneInv, GroupsTyped
    <3>3. Owing(d) = {} /\ Owing(d)' = {}
      BY <1>1, <1>3, <2>2, <3>2, IdleParts DEF Owing
    <3>4. rec'[d] = Outcome(c)[d] /\ \A e \in Device : e # d => rec'[e] = rec[e]
      <4>1. CASE c.op = "leave"
        <5>1. rec' = [rec EXCEPT ![d] = Group(Roster(c), FALSE)]
          BY <1>3, <4>1 DEF FanOutDone, SaveGroup
        <5>2. (c.op # "leave") = FALSE
          BY <4>1
        <5>3. Outcome(c)[d] = Group(Roster(c), FALSE)
          BY <1>2, <5>2, OutcomeParts
        <5>4. QED
          BY <5>1, <5>3 DEF LaneInv, GroupsTyped
      <4>2. CASE c.op # "leave"
        <5>1. rec' = rec
          BY <1>3, <4>2 DEF FanOutDone
        <5>2. ~Holding(d)
          BY <1>1, <1>3, <4>2 DEF Holding
        <5>3. QED
          BY <1>3, <5>1, <5>2
      <4>3. QED
        BY <4>1, <4>2
    <3>5. Outcome(c)' = Outcome(c)
      BY <1>2, <3>4, OutcomeStays
    <3>6. Announcing(c)'
      BY <1>1, <1>2, <3>2, <3>3, <3>4, <3>5 DEF Announcing
    <3>7. QED
      BY <3>2, <3>3, <3>4, <3>5, <3>6
  <2>3. QED
    BY <2>1, <2>2
<1>5. ASSUME NEW e \in Device \ {c.by}
      PROVE  /\ cmd'[e] = Idle
             /\ IF e \in Audience(c) THEN Told(c, e)' ELSE inbox'[e] = <<>> /\ rx'[e] = Listening
  <2>1. /\ cmd[e] = Idle
        /\ IF e \in Audience(c) THEN Told(c, e) ELSE inbox[e] = <<>> /\ rx[e] = Listening
    BY DEF Changing
  <2>2. rec'[e] = rec[e] /\ rx'[e] = rx[e] /\ inbox'[e] = inbox[e] /\ cmd'[e] = cmd[e]
    BY <1>1, <1>2, <1>4
  <2>3. e \in Owing(c.by)' <=> e \in Owing(c.by)
    BY <1>2, <1>4
  <2>4. QED
    BY <1>4, <2>1, <2>2, <2>3, ToldStays
<1>6. InOrder(c) /\ Agree(Outcome(c)')
  BY <1>4 DEF Changing
<1>7. QED
  BY <1>4, <1>5, <1>6 DEF Changing

(* The letter one of the others gets is one it heeds. *)
LEMMA LetterHeeded ==
  ASSUME LaneInv, NEW c \in Changes, InOrder(c), NEW d \in Audience(c), d \in Device,
         rec[d] = Before(c, d), c.by \in contacts[d]
  PROVE  /\ ~Refused(d, Letter(c, d)) /\ LoadGroup(d) = Before(c, d)
         /\ Known(d) => Letter(c, d).action \notin {"invite", "msg"}
<1> DEFINE env == Letter(c, d)
<1>1. /\ c.by \in Device /\ c.op \in {"invite", "add", "remove", "leave"}
      /\ c.members \in SUBSET Device /\ d # c.by
  BY ChangeTyped, OutcomeParts
<1>2. /\ env.from = c.by /\ env.members = Roster(c)
      /\ Invited(c, d) => env.action = "invite" /\ env.subject = NoDevice
      /\ ~Invited(c, d) => env.action = c.op /\ env.subject = c.who
  BY EnvelopeParts DEF Letter
<1>3. ~Invited(c, d) => c.op \in {"add", "remove", "leave"}
  BY <1>1 DEF Invited
<1> HIDE DEF env
<1>4. Decodes(env)
  <2>1. Roster(c) # {} /\ Cardinality(Roster(c)) <= MaxMembers
    <3>1. c.by \in Roster(c) \/ d \in Roster(c)
      BY <1>1, ChangeParts
    <3>2. QED
      BY <3>1 DEF InOrder
  <2>2. (env.action \in {"add", "remove"}) = (env.subject # NoDevice)
    BY <1>1, <1>2, <1>3, BoundsTyped DEF InOrder
  <2>3. QED
    BY <1>2, <2>1, <2>2 DEF Decodes
<1>5. Listed(d, env)
  <2>1. c.by \in Roster(c) \/ env.action = "leave"
    <3>1. c.op = "leave" => ~Invited(c, d)
      BY DEF Invited
    <3>2. QED
      BY <1>1, <1>2, <3>1, ChangeParts
  <2>2. d \in Roster(c) \/ (env.action = "remove" /\ env.subject = d)
    <3>1. c.op = "remove" => ~Invited(c, d)
      BY DEF Invited
    <3>2. QED
      BY <1>2, <3>1, ChangeParts
  <2>3. QED
    BY <1>2, <2>1, <2>2 DEF Listed
<1>6. /\ Invited(c, d) => ~Known(d) /\ rec[d] = NoGroup
      /\ ~Invited(c, d) => Known(d) /\ rec[d].members = c.members
  <2>1. ASSUME Invited(c, d) PROVE ~Known(d) /\ rec[d] = NoGroup
    BY <2>1, KnownIsValid, GroupParts DEF Before, IsValidGroup
  <2>2. ASSUME ~Invited(c, d) PROVE Known(d) /\ rec[d].members = c.members
    <3>1. rec[d].members = c.members
      <4>1. Group(c.members, TRUE).members = c.members
        BY GroupParts
      <4>2. QED
        BY <2>2, <4>1 DEF Before
    <3>2. c.members # {} /\ Cardinality(c.members) <= MaxMembers
      BY DEF InOrder
    <3>3. QED
      BY <3>1, <3>2, KnownIsValid DEF IsValidGroup
  <2>3. QED
    BY <2>1, <2>2
<1>7. ~Refused(d, env)
  <2>1. c.by \in c.members
    BY DEF InOrder
  <2>2. Known(d) => env.from \in rec[d].members
    BY <1>2, <1>6, <2>1
  <2>3. ~Known(d) => env.action = "invite"
    BY <1>2, <1>6
  <2>4. QED
    BY <1>2, <1>4, <1>5, <2>2, <2>3 DEF Refused
<1>8. LoadGroup(d) = Before(c, d)
  BY <1>1, <1>6, LoadedTyped, OutcomeParts DEF LaneInv
<1>9. Known(d) => env.action \notin {"invite", "msg"}
  BY <1>2, <1>3, <1>6
<1>10. QED
  BY <1>7, <1>8, <1>9 DEF env

LEMMA LetterRead ==
  ASSUME LaneInv, NEW c \in Changes, Changing(c), ~alarmed, ~astray, NEW d \in Device,
         ReadNext(d), quiet'
  PROVE  Changing(c)' /\ ~alarmed' /\ ~astray'
<1> DEFINE env == Head(inbox[d])
<1>1. /\ inbox[d] # <<>> /\ inbox' = [inbox EXCEPT ![d] = Tail(@)]
      /\ Refuse(d, env) \/ ShowText(d, env) \/ TakeUp(d, env)
      /\ rec' = rec /\ cmd' = cmd
  BY DEF ReadNext, local
<1>2. d # c.by /\ d \in Audience(c) /\ Told(c, d)
  BY <1>1 DEF Changing, Announcing
<1>3. /\ inbox[d] = <<Letter(c, d)>> /\ rx[d] = Listening
      /\ d \notin Owing(c.by) /\ rec[d] = Before(c, d)
  BY <1>1, <1>2 DEF Told
<1>4. env = Letter(c, d) /\ Tail(inbox[d]) = <<>>
  BY <1>3
<1> HIDE DEF env
<1>5. InOrder(c) /\ env.from = c.by
  BY <1>4, EnvelopeParts DEF Changing, Letter
<1>6. c.by \in contacts[d] => /\ ~Refused(d, env) /\ LoadGroup(d) = Before(c, d)
                              /\ Known(d) => env.action \notin {"invite", "msg"}
  BY <1>2, <1>3, <1>4, <1>5, LetterHeeded
<1>7. ASSUME c.by \notin contacts[d] PROVE FALSE
  <2>1. Refused(d, env)
    BY <1>5, <1>7 DEF Refused
  <2>2. Refuse(d, env)
    BY <1>1, <2>1 DEF ShowText, TakeUp
  <2>3. QED
    BY <1>5, <1>7, <2>2 DEF Refuse
<1>8. TakeUp(d, env)
  BY <1>1, <1>6, <1>7 DEF Refuse, ShowText
<1>9. /\ ~alarmed' /\ ~astray'
      /\ rx' = [rx EXCEPT ![d] = [pc |-> "apply", env |-> Letter(c, d), base |-> Before(c, d)]]
  BY <1>4, <1>6, <1>7, <1>8 DEF TakeUp
<1>10. /\ rx'[d] = [pc |-> "apply", env |-> Letter(c, d), base |-> Before(c, d)]
       /\ inbox'[d] = <<>>
       /\ \A e \in Device : e # d => rx'[e] = rx[e] /\ inbox'[e] = inbox[e]
  BY <1>1, <1>4, <1>9 DEF LaneInv, GroupsTyped
<1>11. Outcome(c)' = Outcome(c)
  BY <1>1, OutcomeStays
<1>12. \A e \in Device : Owing(e)' = Owing(e)
  BY <1>1 DEF Owing
<1>13. Announcing(c)'
  <2>1. rx'[c.by] = rx[c.by] /\ inbox'[c.by] = inbox[c.by]
    BY <1>2, <1>10, ChangeTyped
  <2>2. Announcing(c) /\ Owing(c.by)' = Owing(c.by) /\ (Holding(c.by)' <=> Holding(c.by))
    BY <1>1, <1>12, ChangeTyped DEF Changing, Holding
  <2>3. QED
    BY <1>1, <1>11, <2>1, <2>2 DEF Announcing
<1>14. ASSUME NEW e \in Device \ {c.by}
       PROVE  /\ cmd'[e] = Idle
              /\ IF e \in Audience(c) THEN Told(c, e)' ELSE inbox'[e] = <<>> /\ rx'[e] = Listening
  <2>1. /\ cmd[e] = Idle
        /\ IF e \in Audience(c) THEN Told(c, e) ELSE inbox[e] = <<>> /\ rx[e] = Listening
    BY DEF Changing
  <2>2. CASE e = d
    <3>1. rec'[d] = Before(c, d) /\ d \notin Owing(c.by)'
      BY <1>1, <1>3, <1>12, ChangeTyped
    <3>2. Told(c, d)'
      BY <1>10, <3>1 DEF Told
    <3>3. QED
      BY <1>1, <1>2, <2>1, <2>2, <3>2
  <2>3. CASE e # d
    <3>1. rec'[e] = rec[e] /\ rx'[e] = rx[e] /\ inbox'[e] = inbox[e] /\ cmd'[e] = cmd[e]
      BY <1>1, <1>10, <2>3
    <3>2. e \in Owing(c.by)' <=> e \in Owing(c.by)
      BY <1>12, ChangeTyped
    <3>3. QED
      BY <1>11, <2>1, <3>1, <3>2, ToldStays
  <2>4. QED
    BY <2>2, <2>3
<1>15. InOrder(c) /\ Agree(Outcome(c)')
  BY <1>11 DEF Changing
<1>16. QED
  BY <1>9, <1>13, <1>14, <1>15 DEF Changing

(* It does what it says, and the rosters do not diverge. *)
LEMMA LetterApplied ==
  ASSUME LaneInv, NEW c \in Changes, Changing(c), ~alarmed, ~astray, NEW d \in Device, Apply(d)
  PROVE  Changing(c)' /\ ~alarmed' /\ ~astray'
<1>1. /\ rx[d] # Listening /\ rx[d].pc = "apply" /\ (Join(d) \/ ApplyChange(d))
      /\ rx' = [rx EXCEPT ![d] = Listening]
      /\ UNCHANGED <<cmd, inbox, quiet, astray>>
  BY ListeningParts DEF Apply, Reading
<1>2. d # c.by /\ d \in Audience(c) /\ Told(c, d) /\ InOrder(c)
  BY <1>1 DEF Changing, Announcing
<1>3. /\ d \notin Owing(c.by) /\ inbox[d] = <<>> /\ rec[d] = Before(c, d)
      /\ rx[d] = [pc |-> "apply", env |-> Letter(c, d), base |-> Before(c, d)]
  BY <1>1, <1>2 DEF Told
<1>4. rx[d].env = Letter(c, d) /\ rx[d].base = Before(c, d)
  BY <1>3
<1>5. /\ Letter(c, d).from = c.by /\ Letter(c, d).members = Roster(c)
      /\ Invited(c, d) => Letter(c, d).action = "invite"
      /\ ~Invited(c, d) => Letter(c, d).action = c.op /\ Letter(c, d).subject = c.who
  BY EnvelopeParts DEF Letter
<1>6. /\ Outcome(c)[d] = Group(Roster(c), ~(c.op = "remove" /\ d = c.who))
      /\ c.op \in {"invite", "add", "remove", "leave"}
  BY <1>2, OutcomeParts, ChangeTyped
<1>7. rec' = [rec EXCEPT ![d] = Outcome(c)[d]] /\ ~alarmed'
  <2>1. CASE Invited(c, d)
    <3>1. Before(c, d) = NoGroup /\ Letter(c, d).action = "invite"
      BY <1>5, <2>1 DEF Before
    <3>2. Join(d)
      BY <1>1, <1>4, <3>1 DEF ApplyChange
    <3>3. (~(c.op = "remove" /\ d = c.who)) = TRUE
      BY <2>1 DEF Invited
    <3>4. Outcome(c)[d] = Group(Roster(c), TRUE)
      BY <1>6, <3>3
    <3>5. QED
      BY <1>4, <1>5, <3>2, <3>4 DEF Join, SaveGroup
  <2>2. CASE ~Invited(c, d)
    <3>1. /\ Before(c, d) = Group(c.members, TRUE) /\ Letter(c, d).action = c.op
          /\ Letter(c, d).subject = c.who /\ c.op \in {"add", "remove", "leave"}
      BY <1>5, <1>6, <2>2 DEF Before, Invited
    <3>2. Group(c.members, TRUE).members = c.members /\ Group(c.members, TRUE).active = TRUE
      BY GroupParts
    <3>3. ApplyChange(d)
      <4>1. Group(c.members, TRUE) # NoGroup
        BY <3>2, GroupParts
      <4>2. QED
        BY <1>1, <1>4, <3>1, <4>1 DEF Join
    <3>4. Announced(c.members, Letter(c, d)) = Roster(c)
      BY <1>5, <3>1 DEF Announced, Roster
    <3>5. (TRUE /\ ~(c.op = "remove" /\ c.who = d)) = (~(c.op = "remove" /\ d = c.who))
      OBVIOUS
    <3>6. rec' = [rec EXCEPT ![d] =
                    Group(Announced(rx[d].base.members, rx[d].env),
                          rx[d].base.active
                            /\ ~(rx[d].env.action = "remove" /\ rx[d].env.subject = d))]
      BY <3>3 DEF ApplyChange, SaveGroup
    <3>7. rec' = [rec EXCEPT ![d] = Outcome(c)[d]]
      <4>1. Announced(rx[d].base.members, rx[d].env) = Roster(c)
        BY <1>4, <3>1, <3>2, <3>4
      <4>2. (rx[d].base.active /\ ~(rx[d].env.action = "remove" /\ rx[d].env.subject = d))
              = (~(c.op = "remove" /\ d = c.who))
        BY <1>4, <3>1, <3>2, <3>5
      <4>3. QED
        BY <1>6, <3>6, <4>1, <4>2
    <3>8. ~Diverges(rx[d].base, rx[d].env)
      BY <1>4, <1>5, <3>1, <3>2, <3>4 DEF Diverges
    <3>9. Warn(d, rx[d].base, rx[d].env)
      BY <3>3 DEF ApplyChange
    <3>10. ~alarmed'
      BY <3>8, <3>9 DEF Warn
    <3>11. QED
      BY <3>7, <3>10
  <2>3. QED
    BY <2>1, <2>2
<1>8. /\ rec'[d] = Outcome(c)[d] /\ rx'[d] = Listening
      /\ \A e \in Device : e # d => rx'[e] = rx[e] /\ rec'[e] = rec[e]
  BY <1>1, <1>7 DEF LaneInv, GroupsTyped
<1>9. Outcome(c)' = Outcome(c)
  BY <1>2, <1>8, OutcomeStays
<1>10. \A e \in Device : Owing(e)' = Owing(e)
  BY <1>1 DEF Owing
<1>11. Announcing(c)'
  <2>1. rx'[c.by] = rx[c.by] /\ rec'[c.by] = rec[c.by]
    BY <1>2, <1>8, ChangeTyped
  <2>2. Announcing(c) /\ Owing(c.by)' = Owing(c.by) /\ (Holding(c.by)' <=> Holding(c.by))
    BY <1>1, <1>10, ChangeTyped DEF Changing, Holding
  <2>3. QED
    BY <1>1, <1>9, <2>1, <2>2 DEF Announcing
<1>12. ASSUME NEW e \in Device \ {c.by}
       PROVE  /\ cmd'[e] = Idle
              /\ IF e \in Audience(c) THEN Told(c, e)' ELSE inbox'[e] = <<>> /\ rx'[e] = Listening
  <2>1. /\ cmd[e] = Idle
        /\ IF e \in Audience(c) THEN Told(c, e) ELSE inbox[e] = <<>> /\ rx[e] = Listening
    BY DEF Changing
  <2>2. CASE e = d
    <3>1. d \notin Owing(c.by)' /\ inbox'[d] = <<>> /\ rec'[d] = Outcome(c)'[d]
      BY <1>1, <1>3, <1>8, <1>9, <1>10, ChangeTyped
    <3>2. Told(c, d)'
      BY <1>8, <3>1 DEF Told
    <3>3. QED
      BY <1>1, <1>2, <2>1, <2>2, <3>2
  <2>3. CASE e # d
    <3>1. rec'[e] = rec[e] /\ rx'[e] = rx[e] /\ inbox'[e] = inbox[e] /\ cmd'[e] = cmd[e]
      BY <1>1, <1>8, <2>3
    <3>2. e \in Owing(c.by)' <=> e \in Owing(c.by)
      BY <1>10, ChangeTyped
    <3>3. QED
      BY <1>9, <2>1, <3>1, <3>2, ToldStays
  <2>4. QED
    BY <2>2, <2>3
<1>13. Agree(Outcome(c)')
  BY <1>9 DEF Changing
<1>14. QED
  BY <1>1, <1>2, <1>7, <1>11, <1>12, <1>13 DEF Changing

-----------------------------------------------------------------------------
(* Quiet use, step by step. *)

LEMMA QuietBegins == GroupInit => QuietInv
<1> SUFFICES ASSUME GroupInit PROVE QuietInv
  OBVIOUS
<1>1. \A d \in Device : /\ rec[d] = NoGroup /\ cmd[d] = Idle /\ rx[d] = Listening
                        /\ inbox[d] = <<>>
  BY DEF GroupInit
<1>2. Agree(rec)
  BY <1>1, GroupParts DEF Agree
<1>3. OnlyTexts
  BY <1>1, <1>2 DEF OnlyTexts
<1>4. QED
  BY <1>3 DEF GroupInit, QuietInv

LEMMA CommandQuiet ==
  ASSUME LaneInv, QuietInv, NEW d \in Device, Command(d), quiet'
  PROVE  Course'
<1>1. quiet /\ Course
  BY StaysQuiet, QuietCourse DEF Step
<1>2. CASE \E others \in SUBSET Device : GroupNew(d, others)
  BY <1>2, NewQuiet DEF Course
<1>3. CASE \/ \E who \in Device : GroupAdd(d, who) \/ GroupRemove(d, who)
           \/ GroupLeave(d)
  BY <1>3, RequestQuiet
<1>4. CASE SendText(d) \/ GroupPurge(d)
  BY <1>4, SendQuiet, PurgeQuiet DEF Course
<1>5. CASE GroupSync(d)
  BY <1>1, <1>5, CourseStays DEF GroupSync
<1>6. QED
  BY <1>2, <1>3, <1>4, <1>5 DEF Command

LEMMA FanOutQuiet ==
  ASSUME LaneInv, Course, NEW d \in Device, FanOut(d), quiet'
  PROVE  Course'
<1>1. CASE OnlyTexts
  <2>1. ~SaveChange(d)
    <3>1. SaveChange(d) => cmd[d].pc = "save" /\ cmd[d] # Idle
      BY IdleParts DEF SaveChange
    <3>2. cmd[d] = Idle \/ cmd[d].op = "msg"
      BY <1>1 DEF OnlyTexts, Texting
    <3>3. cmd[d].pc = "save" => cmd[d].op \in {"add", "remove"}
      BY CommandForms DEF LaneInv
    <3>4. QED
      BY <3>1, <3>2, <3>3
  <2>2. QED
    BY <1>1, <2>1, TextPosted, TextDone DEF FanOut, Course
<1>2. ASSUME NEW x \in Device, InVain(x) PROVE Course'
  BY <1>2, VainSaved, VainPosted, VainDone DEF FanOut, Course
<1>3. ASSUME NEW c \in Changes, Changing(c) PROVE Course'
  BY <1>3, ChangeSaved, ChangePosted, ChangeDone DEF FanOut, Course
<1>4. QED
  BY <1>1, <1>2, <1>3 DEF Course

LEMMA ArrivalQuiet ==
  ASSUME LaneInv, QuietInv, NEW d \in Device, ReadNext(d) \/ Apply(d), quiet'
  PROVE  Course' /\ ~alarmed' /\ ~astray'
<1>1. quiet /\ Course /\ ~alarmed /\ ~astray
  BY StaysQuiet, QuietCourse DEF Step
<1>2. CASE OnlyTexts
  <2>1. ~Apply(d)
    BY <1>2, ListeningParts DEF OnlyTexts, Apply, Reading
  <2>2. QED
    BY <1>1, <1>2, <2>1, TextRead DEF Course
<1>3. ASSUME NEW x \in Device, InVain(x) PROVE Course' /\ ~alarmed' /\ ~astray'
  <2>1. ~Apply(d)
    BY <1>3, ListeningParts DEF InVain, Apply, Reading
  <2>2. QED
    BY <1>1, <1>3, <2>1, VainRead DEF Course
<1>4. ASSUME NEW c \in Changes, Changing(c) PROVE Course' /\ ~alarmed' /\ ~astray'
  BY <1>1, <1>4, LetterRead, LetterApplied DEF Course
<1>5. QED
  BY <1>1, <1>2, <1>3, <1>4 DEF Course

LEMMA QuietContinues == LaneInv /\ QuietInv /\ [GroupNext]_groupVars => QuietInv'
<1> SUFFICES ASSUME LaneInv, QuietInv, [GroupNext]_groupVars PROVE QuietInv'
  OBVIOUS
<1>1. CASE UNCHANGED groupVars
  <2>1. UNCHANGED <<rec, cmd, rx, inbox, quiet, alarmed, astray>>
    BY <1>1 DEF groupVars, local, history
  <2>2. quiet => Course'
    BY <2>1, QuietCourse, CourseStays
  <2>3. QED
    BY <2>1, <2>2 DEF QuietInv, Course
<1>2. ASSUME NEW d \in Device, Step(d) PROVE QuietInv'
  <2>1. CASE ~quiet'
    <3>1. ~alarmed' /\ ~astray'
      BY <1>2, <2>1, HistoryStays DEF QuietInv
    <3>2. QED
      BY <2>1, <3>1 DEF QuietInv
  <2>2. CASE quiet'
    <3>1. Course' /\ ~alarmed' /\ ~astray'
      <4>1. CASE ReadNext(d) \/ Apply(d)
        BY <2>2, <4>1, ArrivalQuiet
      <4>2. CASE ~ReadNext(d) /\ ~Apply(d)
        <5>1. ~alarmed' /\ ~astray'
          BY <1>2, <4>2, HistoryStays DEF QuietInv
        <5>2. quiet /\ Course
          BY <1>2, <2>2, StaysQuiet, QuietCourse
        <5>3. ~Close(d)
          BY <2>2 DEF Close
        <5>4. QED
          BY <1>2, <2>2, <4>2, <5>1, <5>2, <5>3, CommandQuiet, FanOutQuiet DEF Step
      <4>3. QED
        BY <4>1, <4>2
    <3>2. QED
      BY <3>1 DEF Course, QuietInv
  <2>3. QED
    BY <2>1, <2>2
<1>3. QED
  BY <1>1, <1>2 DEF GroupNext, Step

(* In quiet use there are texts, or the vain change of one who is out, or one
   change of a member with each of the others not yet told, told, or reading
   (group-commands.ts, applyIncomingGroup). *)
THEOREM GroupHolds == GroupSpec => []GroupInv
<1>1. GroupInit => GroupInv
  BY LanesBegin, QuietBegins DEF GroupInv
<1>2. GroupInv /\ [GroupNext]_groupVars => GroupInv'
  BY LanesContinue, QuietContinues DEF GroupInv
<1>3. QED
  BY <1>1, <1>2, PTL DEF GroupSpec

(* Once the changes made one after the other have reached everyone, all who
   are in the group hold the roster they are on (applyAnnouncedChange). *)
THEOREM WhatIsSettledAgrees == GroupSpec => []SettledAgree
<1>1. GroupInv => SettledAgree
  <2> SUFFICES ASSUME LaneInv, QuietInv, quiet, Settled, NEW d \in Device, rec[d].active
               PROVE  d \in rec[d].members /\ \A e \in rec[d].members : rec[e] = rec[d]
    BY DEF GroupInv, SettledAgree
  <2>1. OnlyTexts
    BY QuietSettles DEF Settled
  <2>2. QED
    BY <2>1 DEF OnlyTexts, Agree
<1>2. QED
  BY <1>1, GroupHolds, PTL

(* In quiet use no device warns of a different member list
   (warnOnRosterDivergence). *)
THEOREM NobodyIsAlarmed == GroupSpec => []NoFalseAlarm
<1>1. GroupInv => NoFalseAlarm
  BY DEF GroupInv, QuietInv, NoFalseAlarm
<1>2. QED
  BY <1>1, GroupHolds, PTL

(* In quiet use a text is read by everyone it was sent to, each of them in the
   group (sendGroupText, recordGroupMessage). *)
THEOREM NoTextGoesAstray == GroupSpec => []TextsLand
<1>1. GroupInv => TextsLand
  BY DEF GroupInv, QuietInv, TextsLand
<1>2. QED
  BY <1>1, GroupHolds, PTL
=============================================================================
