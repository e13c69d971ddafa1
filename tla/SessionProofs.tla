----------------------------- MODULE SessionProofs -----------------------------
(***************************************************************************)
(* Sessions, before they ratchet and while they are stored, for every      *)
(* bound.  Handshake: types, one answer per one-time prekey, no first      *)
(* delivery refused, and where calm reigns the two sides' sessions meet.   *)
(* SessionLanes: as long as the two lanes stay apart, the stored record is *)
(* an implementation of Ratchet.                                           *)
(***************************************************************************)
EXTENDS Handshake, SessionLanes, TLAPS

LEMMA OtherDevice ==
  \A p \in Device : Other(p) \in Device /\ Other(p) # p /\ Other(Other(p)) = p
BY HandshakeBounds DEF Device, Other

LEMMA InitHolds == Init => IInv
<1> SUFFICES ASSUME Init PROVE IInv
  OBVIOUS
<1> USE OtherDevice, HandshakeBounds DEF Init
<1>1. TypeOK
  BY DEF TypeOK, NoSession, Fresh, NoRequest, Command, Rest, OneTime
<1>2. AnsweredOnce
  BY DEF AnsweredOnce
<1>3. \A p \in Device : KeyLedger(p)
  BY DEF KeyLedger, KeyedHandshakes, Claimed, Rest
<1>4. QED
  BY <1>1, <1>2, <1>3 DEF IInv

-----------------------------------------------------------------------------
(* Types. *)

LEMMA EnvelopesTyped ==
  ASSUME NEW k \in Nat, NEW opk \in OneTime \cup {NoPrekey}, NEW n \in Nat, NEW t \in Nat
  PROVE  FirstMessage(k, opk, t) \in Envelope /\ RatchetMessage(k, n, t) \in Envelope
BY DEF FirstMessage, RatchetMessage, Envelope, NoPrekey

LEMMA CommandsTyped ==
  /\ Rest \in Command
  /\ \A opk \in OneTime \cup {NoPrekey} : [pc |-> "bundle", opk |-> opk] \in Command
  /\ \A k \in Nat : [pc |-> "posted", kx |-> k] \in Command
  /\ \A b \in BOOLEAN : [pc |-> "adding", saved |-> b] \in Command
  /\ \A c \in Command :
       /\ c.pc = "bundle" => c.opk \in OneTime \cup {NoPrekey}
       /\ c.pc = "posted" => c.kx \in Nat
       /\ c.pc = "adding" => c.saved \in BOOLEAN
BY DEF Command, Rest

LEMMA ClaimBundleTyped ==
  ASSUME TypeOK, NEW p \in Device, ClaimBundle(p)
  PROVE  TypeOK'
<1> USE OtherDevice DEF TypeOK, ClaimBundle, Claimable, store, history, answers
<1>1. PICK opk \in OneTime \cup {NoPrekey} :
        /\ offered' = [offered EXCEPT ![Other(p)] = @ \ {opk}]
        /\ cmd' = [cmd EXCEPT ![p] = [pc |-> "bundle", opk |-> opk]]
  OBVIOUS
<1>2. cmd' \in [Device -> Command]
  BY <1>1, CommandsTyped
<1>3. offered' \in [Device -> SUBSET OneTime]
  BY <1>1
<1>4. \A q \in Device : /\ offered'[q] \subseteq secrets'[q]
                        /\ net'[q] \cup answered'[q] \subseteq sealed'[Other(q)]
  BY <1>1
<1>5. QED
  BY <1>2, <1>3, <1>4

(* What the shared pieces of the actions leave behind. *)
LEMMA FaultTyped == TypeOK /\ Fault => faults' \in 0..MaxFaults
BY HandshakeBounds DEF TypeOK, Fault

LEMMA SubmitTyped ==
  ASSUME TypeOK, NEW p \in Device, NEW e \in Envelope, NEW outcome, Submit(p, e, outcome)
  PROVE  /\ net' \in [Device -> SUBSET Envelope] /\ sealed' \in [Device -> SUBSET Envelope]
         /\ serial' \in [Device -> Nat]
         /\ faults' \in 0..MaxFaults
         /\ \A q \in Device : net'[q] \cup answered[q] \subseteq sealed'[Other(q)]
<1>1. faults' \in 0..MaxFaults
  BY FaultTyped DEF Submit, Priced, TypeOK
<1>2. serial' \in [Device -> Nat]
  BY DEF TypeOK, Submit
<1>3. \A q \in Device : /\ net'[q] \subseteq net[q] \cup (IF q = Other(p) THEN {e} ELSE {})
                        /\ sealed'[q] = sealed[q] \cup (IF q = p THEN {e} ELSE {})
  BY OtherDevice DEF TypeOK, Submit
<1>4. net' \in [Device -> SUBSET Envelope] /\ sealed' \in [Device -> SUBSET Envelope]
  BY OtherDevice DEF TypeOK, Submit
<1>5. \A q \in Device : net'[q] \cup answered[q] \subseteq sealed'[Other(q)]
  BY <1>3, OtherDevice DEF TypeOK
<1>6. QED
  BY <1>1, <1>2, <1>4, <1>5

LEMMA AnswerTyped ==
  ASSUME TypeOK, NEW p \in Device, NEW e \in Envelope, NEW acked \in BOOLEAN,
         Answer(p, e, acked)
  PROVE  /\ net' \in [Device -> SUBSET Envelope] /\ tried' \in [Device -> SUBSET Envelope]
         /\ faults' \in 0..MaxFaults
         /\ \A q \in Device : net'[q] \subseteq net[q]
<1>1. faults' \in 0..MaxFaults
  BY FaultTyped DEF Answer, TypeOK
<1>2. net' = net \/ net' = [net EXCEPT ![p] = @ \ {e}]
  BY DEF Answer
<1>3. /\ net' \in [Device -> SUBSET Envelope]
      /\ \A q \in Device : net'[q] \subseteq net[q]
  <2>1. net \in [Device -> SUBSET Envelope]
    BY DEF TypeOK
  <2>2. CASE net' = net
    BY <2>1, <2>2
  <2>3. CASE net' = [net EXCEPT ![p] = @ \ {e}]
    BY <2>1, <2>3
  <2>4. QED
    BY <1>2, <2>2, <2>3
<1>4. tried' \in [Device -> SUBSET Envelope]
  BY DEF TypeOK, Answer
<1>5. QED
  BY <1>1, <1>3, <1>4

LEMMA ShowTyped ==
  ASSUME TypeOK, NEW p \in Device, NEW t, Show(p, t)
  PROVE  shown' \in [Device -> [1..MaxTexts -> Nat]]
<1> DEFINE row == [shown[p] EXCEPT ![t] = @ + 1]
<1>1. shown[p] \in [1..MaxTexts -> Nat]
  BY DEF TypeOK
<1>2. row \in [1..MaxTexts -> Nat]
  <2>1. ASSUME NEW u \in 1..MaxTexts PROVE row[u] \in Nat
    <3>1. shown[p][u] \in Nat
      BY <1>1
    <3>2. CASE u = t
      BY <1>1, <3>1, <3>2
    <3>3. CASE u # t
      BY <1>1, <3>1, <3>3
    <3>4. QED
      BY <3>2, <3>3
  <2>2. row = [u \in 1..MaxTexts |-> row[u]]
    BY <1>1
  <2> HIDE DEF row
  <2>3. QED
    BY <2>1, <2>2
<1>3. shown' = [shown EXCEPT ![p] = row]
  BY DEF Show
<1> HIDE DEF row
<1>4. QED
  BY <1>2, <1>3 DEF TypeOK

LEMMA SessionsTyped ==
  /\ \A k \in Nat : Fresh(k) \in [kx : Nat, sent : Nat, read : SUBSET Nat]
  /\ NoSession \in [kx : Nat, sent : Nat, read : SUBSET Nat]
  /\ NoRequest \in [kx : Nat, text : Nat]
  /\ \A e \in Envelope : Request(e) \in [kx : Nat, text : Nat]
BY DEF Fresh, NoSession, NoRequest, Request, Envelope

LEMMA LanesHoldEnvelopes ==
  ASSUME TypeOK, NEW p \in Device, rx[p] # Rest \/ rx[p].pc \in {"adopting", "binding"}
  PROVE  rx[p].env \in Envelope
BY DEF TypeOK, Rest

-----------------------------------------------------------------------------
(* Every step keeps the types. *)

LEMMA SendingTyped ==
  ASSUME TypeOK, NEW p \in Device, NEW outcome,
         \/ PostFirst(p, outcome) \/ StoreFirst(p) \/ SendRatchet(p, outcome)
  PROVE  TypeOK'
<1>1. CASE PostFirst(p, outcome)
  <2> DEFINE e == FirstMessage(kxs + 1, cmd[p].opk, serial[p] + 1)
  <2>1. e \in Envelope
    <3>1. cmd[p] \in Command /\ cmd[p].pc = "bundle"
      BY <1>1 DEF TypeOK, PostFirst
    <3>2. kxs + 1 \in Nat /\ serial[p] + 1 \in Nat
      BY DEF TypeOK
    <3>3. QED
      BY <3>1, <3>2, EnvelopesTyped, CommandsTyped
  <2>2. Submit(p, e, outcome)
    BY <1>1 DEF PostFirst
  <2>3. cmd' \in [Device -> Command]
    BY <1>1, CommandsTyped DEF TypeOK, PostFirst
  <2> HIDE DEF e
  <2>4. /\ net' \in [Device -> SUBSET Envelope] /\ sealed' \in [Device -> SUBSET Envelope]
        /\ serial' \in [Device -> Nat] /\ faults' \in 0..MaxFaults
        /\ \A q \in Device : net'[q] \cup answered[q] \subseteq sealed'[Other(q)]
    BY <2>1, <2>2, SubmitTyped
  <2>5. /\ UNCHANGED <<offered, contact, session, pending, secrets, rx, tried,
                       shown, answered, again, removals>>
        /\ kxs' = kxs + 1
    BY <1>1 DEF PostFirst, store, answers
  <2>6. QED
    BY SMTT(20), <2>3, <2>4, <2>5 DEF TypeOK
<1>2. CASE StoreFirst(p)
  <2>1. session' \in [Device -> [kx : Nat, sent : Nat, read : SUBSET Nat]]
    BY <1>2, CommandsTyped, SessionsTyped DEF TypeOK, StoreFirst
  <2>2. cmd' \in [Device -> Command]
    BY <1>2, CommandsTyped DEF TypeOK, StoreFirst
  <2>3. QED
    BY <1>2, <2>1, <2>2 DEF TypeOK, StoreFirst, history, answers
<1>3. CASE SendRatchet(p, outcome)
  <2> DEFINE e == RatchetMessage(session[p].kx, session[p].sent, serial[p] + 1)
  <2>1. e \in Envelope
    <3>1. session[p].kx \in Nat /\ session[p].sent \in Nat /\ serial[p] + 1 \in Nat
      BY DEF TypeOK
    <3>2. QED
      BY <3>1, EnvelopesTyped DEF NoPrekey
  <2>2. Submit(p, e, outcome)
    BY <1>3 DEF SendRatchet
  <2>3. session' \in [Device -> [kx : Nat, sent : Nat, read : SUBSET Nat]]
    <3> DEFINE s == [session[p] EXCEPT !.sent = @ + 1]
    <3>1. s \in [kx : Nat, sent : Nat, read : SUBSET Nat]
      <4>1. session[p] \in [kx : Nat, sent : Nat, read : SUBSET Nat]
        BY DEF TypeOK
      <4>2. session[p].sent + 1 \in Nat
        BY <4>1
      <4>3. QED
        BY <4>1, <4>2
    <3>2. session' = [session EXCEPT ![p] = s]
      BY <1>3 DEF SendRatchet
    <3> HIDE DEF s
    <3>3. QED
      BY <3>1, <3>2 DEF TypeOK
  <2> HIDE DEF e
  <2>4. QED
    BY <1>3, <2>1, <2>2, <2>3, SubmitTyped DEF TypeOK, SendRatchet, answers
<1>4. QED
  BY <1>1, <1>2, <1>3

LEMMA BeginKxTyped ==
  ASSUME TypeOK, NEW p \in Device, KeyLedger(p), NEW e \in net[p], BeginKx(p, e)
  PROVE  TypeOK'
<1>1. e \in Envelope /\ e \in sealed[Other(p)]
  BY DEF TypeOK
<1>2. /\ secrets' = [secrets EXCEPT ![p] = @ \ {e.opk}]
      /\ rx' = [rx EXCEPT ![p] = Lane(IF contact[p] THEN "adopting" ELSE "binding", e)]
      /\ answered' = [answered EXCEPT ![p] = @ \cup {e}]
      /\ again' = again \/ again' = [again EXCEPT ![p] = @ \cup {e}]
      /\ UNCHANGED <<offered, net, contact, session, pending, cmd, serial, sealed,
                     kxs, tried, shown, removals, faults>>
  BY DEF BeginKx, Count, history
<1>3. secrets' \in [Device -> SUBSET OneTime]
  BY <1>2 DEF TypeOK
<1>4. rx' \in [Device -> {Rest} \cup [pc : {"adopting", "binding"}, env : Envelope]]
  BY <1>1, <1>2 DEF TypeOK, Lane
<1>5. answered' \in [Device -> SUBSET Envelope]
  BY <1>1, <1>2 DEF TypeOK
<1>6. again' \in [Device -> SUBSET Envelope]
  <2>1. again \in [Device -> SUBSET Envelope]
    BY DEF TypeOK
  <2>2. QED
    BY <1>1, <1>2, <2>1
<1>7. \A q \in Device : offered[q] \subseteq secrets'[q]
  <2>1. e.opk \notin offered[p]
    <3>1. CASE e.opk = NoPrekey
      BY <3>1 DEF TypeOK, NoPrekey, OneTime
    <3>2. CASE e.opk # NoPrekey
      BY <1>1, <3>2 DEF KeyLedger, KeyedHandshakes, BeginKx
    <3>3. QED
      BY <3>1, <3>2
  <2>2. QED
    BY <1>2, <2>1 DEF TypeOK
<1>8. \A q \in Device : net[q] \cup answered'[q] \subseteq sealed[Other(q)]
  BY <1>1, <1>2 DEF TypeOK
<1>9. QED
  BY <1>2, <1>3, <1>4, <1>5, <1>6, <1>7, <1>8 DEF TypeOK

LEMMA HandlingTyped ==
  ASSUME TypeOK, NEW p \in Device, NEW acked \in BOOLEAN, NEW e \in Envelope,
         \/ RejectKx(p, e, acked) \/ ReadRatchet(p, e, acked)
  PROVE  TypeOK'
<1>1. Answer(p, e, acked)
  BY DEF RejectKx, ReadRatchet
<1>2. /\ net' \in [Device -> SUBSET Envelope] /\ tried' \in [Device -> SUBSET Envelope]
      /\ faults' \in 0..MaxFaults
      /\ \A q \in Device : net'[q] \subseteq net[q]
  BY <1>1, AnswerTyped
<1>3. /\ UNCHANGED <<offered, contact, pending, secrets, cmd, rx, serial, sealed,
                     kxs, answered, again, removals>>
      /\ \/ UNCHANGED <<session, shown>>
         \/ /\ session' = [session EXCEPT ![p].read = @ \cup {e.n}]
            /\ Show(p, e.text)
  BY DEF RejectKx, ReadRatchet, store, history, answers
<1>4. session' \in [Device -> [kx : Nat, sent : Nat, read : SUBSET Nat]]
  <2> DEFINE s == [session[p] EXCEPT !.read = @ \cup {e.n}]
  <2>1. s \in [kx : Nat, sent : Nat, read : SUBSET Nat]
    <3>1. session[p] \in [kx : Nat, sent : Nat, read : SUBSET Nat]
      BY DEF TypeOK
    <3>2. session[p].read \cup {e.n} \in SUBSET Nat
      BY <3>1 DEF Envelope
    <3>3. QED
      BY <3>1, <3>2
  <2>2. session' = session \/ session' = [session EXCEPT ![p] = s]
    BY <1>3
  <2> HIDE DEF s
  <2>3. QED
    BY <2>1, <2>2 DEF TypeOK
<1>5. shown' \in [Device -> [1..MaxTexts -> Nat]]
  <2>1. CASE UNCHANGED <<session, shown>>
    BY <2>1 DEF TypeOK
  <2>2. CASE Show(p, e.text)
    BY <2>2, ShowTyped
  <2>3. QED
    BY <1>3, <2>1, <2>2
<1>6. \A q \in Device : net'[q] \cup answered[q] \subseteq sealed[Other(q)]
  BY <1>2 DEF TypeOK
<1>7. QED
  BY <1>2, <1>3, <1>4, <1>5, <1>6 DEF TypeOK

LEMMA ConcludingTyped ==
  ASSUME TypeOK, NEW p \in Device, NEW acked \in BOOLEAN,
         Adopt(p, acked) \/ Hold(p, acked) \/ BindingFails(p)
  PROVE  TypeOK'
<1> DEFINE e == rx[p].env
<1>1. e \in Envelope
  BY LanesHoldEnvelopes DEF Adopt, Hold, BindingFails
<1>2. rx' = [rx EXCEPT ![p] = Rest]
  BY DEF Adopt, Hold, BindingFails
<1>3. rx' \in [Device -> {Rest} \cup [pc : {"adopting", "binding"}, env : Envelope]]
  BY <1>2 DEF TypeOK
<1>4. UNCHANGED <<offered, contact, secrets, cmd, serial, sealed, kxs, answered,
                  again, removals>>
  BY DEF Adopt, Hold, BindingFails, store, history, answers
<1>5. /\ net' \in [Device -> SUBSET Envelope] /\ tried' \in [Device -> SUBSET Envelope]
      /\ faults' \in 0..MaxFaults
      /\ \A q \in Device : net'[q] \subseteq net[q]
  <2>1. CASE Adopt(p, acked) \/ Hold(p, acked)
    <3>1. Answer(p, e, acked)
      BY <2>1 DEF Adopt, Hold
    <3> HIDE DEF e
    <3>2. QED
      BY <1>1, <3>1, AnswerTyped
  <2>2. CASE BindingFails(p)
    <3>1. /\ faults' \in 0..MaxFaults
          /\ net' = [net EXCEPT ![p] = @ \ {e}]
          /\ tried' = [tried EXCEPT ![p] = @ \cup {e}]
      BY <2>2, FaultTyped DEF BindingFails
    <3>2. net \in [Device -> SUBSET Envelope] /\ tried \in [Device -> SUBSET Envelope]
      BY DEF TypeOK
    <3> HIDE DEF e
    <3>3. QED
      BY <1>1, <3>1, <3>2
  <2>3. QED
    BY <2>1, <2>2
<1>6. \A q \in Device : net'[q] \cup answered[q] \subseteq sealed[Other(q)]
  BY <1>5 DEF TypeOK
<1>7. /\ session' \in [Device -> [kx : Nat, sent : Nat, read : SUBSET Nat]]
      /\ shown' \in [Device -> [1..MaxTexts -> Nat]]
      /\ pending' \in [Device -> [kx : Nat, text : Nat]]
  <2>1. CASE Adopt(p, acked)
    <3>1. Fresh(e.kx) \in [kx : Nat, sent : Nat, read : SUBSET Nat]
      BY <1>1, SessionsTyped DEF Envelope
    <3>2. /\ session' = [session EXCEPT ![p] = Fresh(e.kx)]
          /\ Show(p, e.text) /\ pending' = pending
      BY <2>1 DEF Adopt
    <3> HIDE DEF e
    <3>3. QED
      BY <3>1, <3>2, ShowTyped DEF TypeOK
  <2>2. CASE Hold(p, acked)
    BY <1>1, <2>2, SessionsTyped DEF TypeOK, Hold
  <2>3. CASE BindingFails(p)
    BY <2>3 DEF TypeOK, BindingFails, store
  <2>4. QED
    BY <2>1, <2>2, <2>3
<1> HIDE DEF e
<1>8. QED
  BY <1>3, <1>4, <1>5, <1>6, <1>7 DEF TypeOK

LEMMA ContactsTyped ==
  ASSUME TypeOK, NEW p \in Device,
         Add(p) \/ FinishAdd(p) \/ Remove(p) \/ Interrupt(p)
  PROVE  TypeOK'
<1>1. UNCHANGED <<offered, net, secrets, serial, sealed, kxs, tried, answered, again>>
  BY DEF Add, FinishAdd, Remove, Interrupt, history, answers
<1>2. faults' \in 0..MaxFaults /\ removals' \in 0..MaxRemovals
  <2>1. faults' = faults \/ Fault
    BY DEF Add, FinishAdd, Remove, Interrupt
  <2>2. removals' = removals \/ (removals < MaxRemovals /\ removals' = removals + 1)
    BY DEF Add, FinishAdd, Remove, Interrupt
  <2>3. faults \in 0..MaxFaults /\ removals \in 0..MaxRemovals
    BY DEF TypeOK
  <2>4. QED
    BY <2>1, <2>2, <2>3, FaultTyped, HandshakeBounds
<1>3. rx' \in [Device -> {Rest} \cup [pc : {"adopting", "binding"}, env : Envelope]]
  BY DEF TypeOK, Add, FinishAdd, Remove, Interrupt
<1>4. /\ cmd' \in [Device -> Command] /\ contact' \in [Device -> BOOLEAN]
      /\ session' \in [Device -> [kx : Nat, sent : Nat, read : SUBSET Nat]]
      /\ pending' \in [Device -> [kx : Nat, text : Nat]]
      /\ shown' \in [Device -> [1..MaxTexts -> Nat]]
  <2>1. CASE Add(p)
    <3>1. contact[p] \in BOOLEAN
      BY DEF TypeOK
    <3>2. [pc |-> "adding", saved |-> contact[p]] \in Command
      BY <3>1, CommandsTyped
    <3>3. Fresh(pending[p].kx) \in [kx : Nat, sent : Nat, read : SUBSET Nat]
      BY SessionsTyped DEF TypeOK
    <3>4. /\ cmd' = cmd \/ cmd' = [cmd EXCEPT ![p] = [pc |-> "adding", saved |-> contact[p]]]
          /\ session' = session \/ session' = [session EXCEPT ![p] = Fresh(pending[p].kx)]
          /\ shown' = shown \/ Show(p, pending[p].text)
          /\ contact' = [contact EXCEPT ![p] = TRUE] /\ pending' = pending
      BY <2>1 DEF Add
    <3>5. shown' \in [Device -> [1..MaxTexts -> Nat]]
      BY <3>4, ShowTyped DEF TypeOK
    <3>6. cmd' \in [Device -> Command]
      BY ZenonT(40), <3>2, <3>4 DEF TypeOK
    <3>7. session' \in [Device -> [kx : Nat, sent : Nat, read : SUBSET Nat]]
      <4>1. session \in [Device -> [kx : Nat, sent : Nat, read : SUBSET Nat]]
        BY DEF TypeOK
      <4>2. QED
        BY <3>3, <3>4, <4>1
    <3>8. QED
      BY <3>4, <3>5, <3>6, <3>7 DEF TypeOK
  <2>2. CASE FinishAdd(p)
    BY <2>2, CommandsTyped, SessionsTyped DEF TypeOK, FinishAdd
  <2>3. CASE Remove(p)
    BY <2>3, SessionsTyped DEF TypeOK, Remove
  <2>4. CASE Interrupt(p)
    <3>1. contact' \in [Device -> BOOLEAN]
      <4>1. cmd[p].pc = "adding" => cmd[p].saved \in BOOLEAN
        BY CommandsTyped DEF TypeOK
      <4>2. QED
        BY <2>4, <4>1 DEF TypeOK, Interrupt
    <3>2. QED
      BY <2>4, <3>1, CommandsTyped DEF TypeOK, Interrupt
  <2>5. QED
    BY <2>1, <2>2, <2>3, <2>4
<1>5. QED
  BY <1>1, <1>2, <1>3, <1>4 DEF TypeOK

-----------------------------------------------------------------------------
(* Every step keeps the ledger of one-time prekeys. *)

(* Actions that touch neither the keys nor the handshakes, and claim nothing. *)
LEMMA LedgerUntouched ==
  ASSUME NEW q \in Device, KeyLedger(q),
         UNCHANGED <<offered, secrets, answered>>,
         KeyedHandshakes(q)' = KeyedHandshakes(q),
         Claimed(q)' => Claimed(q) /\ cmd'[Other(q)] = cmd[Other(q)]
  PROVE  KeyLedger(q)'
BY DEF KeyLedger

LEMMA ClaimBundleLedger ==
  ASSUME IInv, NEW p \in Device, ClaimBundle(p), NEW q \in Device
  PROVE  KeyLedger(q)'
<1>1. PICK opk \in OneTime \cup {NoPrekey} :
        /\ opk \in offered[Other(p)] \/ opk = NoPrekey
        /\ offered' = [offered EXCEPT ![Other(p)] = @ \ {opk}]
        /\ cmd' = [cmd EXCEPT ![p] = [pc |-> "bundle", opk |-> opk]]
  BY OtherDevice DEF ClaimBundle, Claimable, IInv, TypeOK
<1>2. UNCHANGED <<secrets, sealed, answered>>
  BY DEF ClaimBundle, store, history, answers
<1>3. KeyLedger(q) /\ KeyedHandshakes(q)' = KeyedHandshakes(q)
  BY <1>2 DEF IInv, KeyedHandshakes
<1>4. CASE q = p
  <2>1. offered'[q] = offered[q] /\ cmd'[Other(q)] = cmd[Other(q)]
    BY <1>1, <1>4, OtherDevice DEF IInv, TypeOK
  <2>2. QED
    BY <1>2, <1>3, <2>1 DEF KeyLedger, Claimed
<1>5. CASE q = Other(p)
  <2>1. /\ Other(q) = p
        /\ offered'[q] = offered[q] \ {opk}
        /\ cmd'[p] = [pc |-> "bundle", opk |-> opk]
    BY <1>1, <1>5, OtherDevice DEF IInv, TypeOK
  <2>2. opk # NoPrekey => opk \in secrets[q]
    BY <1>1, <1>5, OtherDevice DEF IInv, TypeOK
  <2>3. opk # NoPrekey => \A e \in KeyedHandshakes(q) : e.opk # opk
    BY <1>1, <1>3, <1>5 DEF KeyLedger
  <2>4. QED
    BY <1>2, <1>3, <2>1, <2>2, <2>3 DEF KeyLedger, Claimed
<1>6. QED
  BY <1>4, <1>5, HandshakeBounds DEF Device, Other

LEMMA PostFirstLedger ==
  ASSUME IInv, NEW p \in Device, NEW outcome, PostFirst(p, outcome), NEW q \in Device
  PROVE  KeyLedger(q)'
<1> DEFINE e == FirstMessage(kxs + 1, cmd[p].opk, serial[p] + 1)
<1>1. /\ UNCHANGED <<offered, secrets, answered>>
      /\ sealed' = [sealed EXCEPT ![p] = @ \cup {e}]
      /\ cmd' = [cmd EXCEPT ![p] = IF outcome = "answered"
                                   THEN [pc |-> "posted", kx |-> kxs + 1] ELSE Rest]
  BY DEF PostFirst, Submit, store, answers
<1>2. e.kind = "kx" /\ e.opk = cmd[p].opk
  BY DEF FirstMessage
<1> HIDE DEF e
<1>3. KeyLedger(q)
  BY DEF IInv
<1>4. CASE q = p
  <2>1. sealed'[Other(q)] = sealed[Other(q)] /\ cmd'[Other(q)] = cmd[Other(q)]
    BY <1>1, <1>4, OtherDevice DEF IInv, TypeOK
  <2>2. QED
    BY <1>1, <1>3, <2>1, LedgerUntouched DEF KeyedHandshakes, Claimed
<1>5. CASE q = Other(p)
  <2>1. /\ Other(q) = p
        /\ sealed'[p] = sealed[p] \cup {e}
        /\ cmd[p].pc = "bundle"
        /\ cmd'[p].pc # "bundle"
    BY <1>1, <1>5, OtherDevice DEF IInv, TypeOK, PostFirst, Rest
  <2>2. ~Claimed(q)'
    BY <2>1 DEF Claimed
  <2>3. CASE e.opk = NoPrekey
    <3>1. KeyedHandshakes(q)' = KeyedHandshakes(q)
      BY <2>1, <2>3 DEF KeyedHandshakes
    <3>2. QED
      BY <1>1, <1>3, <2>2, <3>1, LedgerUntouched
  <2>4. CASE e.opk # NoPrekey
    <3>1. KeyedHandshakes(q)' = KeyedHandshakes(q) \cup {e}
      BY <1>2, <2>1, <2>4 DEF KeyedHandshakes
    <3>2. /\ e.opk \in secrets[q] \ offered[q]
          /\ \A f \in KeyedHandshakes(q) : f.opk # e.opk
      BY <1>2, <1>3, <2>1, <2>4 DEF KeyLedger, Claimed
    <3>3. e \notin answered[q]
      <4>1. e \notin KeyedHandshakes(q)
        BY <3>2
      <4>2. answered[q] \subseteq sealed[p]
        BY <2>1 DEF IInv, TypeOK
      <4>3. QED
        BY <1>2, <2>1, <2>4, <4>1, <4>2 DEF KeyedHandshakes
    <3>4. QED
      BY <1>1, <1>3, <2>2, <3>1, <3>2, <3>3 DEF KeyLedger
  <2>5. QED
    BY <2>3, <2>4
<1>6. QED
  BY <1>4, <1>5, HandshakeBounds DEF Device, Other

LEMMA SendRatchetLedger ==
  ASSUME IInv, NEW p \in Device, NEW outcome, SendRatchet(p, outcome), NEW q \in Device
  PROVE  KeyLedger(q)'
<1> DEFINE e == RatchetMessage(session[p].kx, session[p].sent, serial[p] + 1)
<1>1. /\ UNCHANGED <<offered, secrets, answered, cmd>>
      /\ sealed' = [sealed EXCEPT ![p] = @ \cup {e}]
  BY DEF SendRatchet, Submit, answers
<1>2. e.kind = "msg"
  BY DEF RatchetMessage
<1> HIDE DEF e
<1>3. KeyedHandshakes(q)' = KeyedHandshakes(q)
  BY <1>1, <1>2, OtherDevice DEF IInv, TypeOK, KeyedHandshakes
<1>4. QED
  BY <1>1, <1>3, LedgerUntouched DEF IInv, Claimed

LEMMA BeginKxLedger ==
  ASSUME IInv, NEW p \in Device, NEW e \in net[p], BeginKx(p, e), NEW q \in Device
  PROVE  KeyLedger(q)'
<1>1. /\ secrets' = [secrets EXCEPT ![p] = @ \ {e.opk}]
      /\ answered' = [answered EXCEPT ![p] = @ \cup {e}]
      /\ UNCHANGED <<offered, cmd, sealed>>
      /\ e.kind = "kx" /\ CanAnswer(p, e)
  BY DEF BeginKx, Count, history
<1>2. KeyLedger(q) /\ KeyedHandshakes(q)' = KeyedHandshakes(q)
  BY <1>1 DEF IInv, KeyedHandshakes
<1>3. CASE q # p
  BY <1>1, <1>2, <1>3, LedgerUntouched DEF IInv, TypeOK, KeyLedger, Claimed
<1>4. CASE q = p
  <2>1. e \in sealed[Other(p)] /\ (e.opk # NoPrekey => e \in KeyedHandshakes(p))
    BY <1>1 DEF IInv, TypeOK, KeyedHandshakes
  <2>2. /\ secrets'[p] = secrets[p] \ {e.opk}
        /\ answered'[p] = answered[p] \cup {e}
    BY <1>1 DEF IInv, TypeOK
  <2>3. \A f \in KeyedHandshakes(p) :
          f.opk \in secrets'[p] <=> f \notin answered'[p]
    <3>1. SUFFICES ASSUME NEW f \in KeyedHandshakes(p)
                   PROVE  f.opk \in secrets'[p] <=> f \notin answered'[p]
      OBVIOUS
    <3>2. f.opk # NoPrekey /\ (f.opk \in secrets[p] <=> f \notin answered[p])
      BY <1>2, <1>4 DEF KeyLedger, KeyedHandshakes
    <3>3. f.opk = e.opk => f = e
      BY <1>2, <1>4, <2>1, <3>2 DEF KeyLedger
    <3>4. QED
      BY <2>2, <3>2, <3>3
  <2>4. Claimed(p) => cmd[Other(p)].opk # e.opk
    BY <1>2, <1>4, <2>1 DEF KeyLedger, Claimed
  <2>5. QED
    BY <1>1, <1>2, <1>4, <2>2, <2>3, <2>4 DEF KeyLedger, Claimed
<1>5. QED
  BY <1>3, <1>4

LEMMA OtherLedger ==
  ASSUME IInv, NEW p \in Device, NEW acked, NEW e,
         \/ StoreFirst(p) \/ RejectKx(p, e, acked) \/ ReadRatchet(p, e, acked)
         \/ Adopt(p, acked) \/ Hold(p, acked) \/ BindingFails(p)
         \/ Add(p) \/ FinishAdd(p) \/ Remove(p) \/ Interrupt(p),
         NEW q \in Device
  PROVE  KeyLedger(q)'
<1>1. UNCHANGED <<offered, secrets, answered, sealed>>
  BY DEF StoreFirst, RejectKx, ReadRatchet, Adopt, Hold, BindingFails, Add, FinishAdd,
         Remove, Interrupt, store, history, answers
<1>2. \/ cmd' = cmd
      \/ cmd' = [cmd EXCEPT ![p] = Rest]
      \/ cmd' = [cmd EXCEPT ![p] = [pc |-> "adding", saved |-> contact[p]]]
  BY DEF StoreFirst, RejectKx, ReadRatchet, Adopt, Hold, BindingFails, Add, FinishAdd,
         Remove, Interrupt
<1>3. cmd'[Other(q)].pc = "bundle" => cmd'[Other(q)] = cmd[Other(q)]
  BY SMTT(20), <1>2, OtherDevice DEF IInv, TypeOK, Rest
<1>4. QED
  BY <1>1, <1>3, LedgerUntouched DEF IInv, KeyedHandshakes, Claimed

-----------------------------------------------------------------------------
(* One handshake, one answer: only BeginKx counts answers, and the ledger
   has the secret gone once a keyed handshake is answered. *)
LEMMA AnsweredOnceStep ==
  ASSUME IInv, NEW p \in Device, NEW e \in net[p], BeginKx(p, e)
  PROVE  AnsweredOnce'
<1>1. e \in answered[p] => e.opk = NoPrekey
  <2>1. SUFFICES ASSUME e \in answered[p], e.opk # NoPrekey PROVE FALSE
    OBVIOUS
  <2>2. e \in KeyedHandshakes(p)
    BY <2>1 DEF IInv, TypeOK, KeyedHandshakes, BeginKx
  <2>3. e.opk \notin secrets[p]
    BY <2>1, <2>2 DEF IInv, KeyLedger
  <2>4. QED
    BY <2>1, <2>3 DEF BeginKx, CanAnswer
<1>2. again' = IF e \in answered[p] THEN [again EXCEPT ![p] = @ \cup {e}] ELSE again
  BY DEF BeginKx, Count
<1>3. \A q \in Device : \A f \in again'[q] : f \in again[q] \/ f.opk = NoPrekey
  BY <1>1, <1>2 DEF IInv, TypeOK
<1>4. QED
  BY <1>3 DEF AnsweredOnce, IInv

-----------------------------------------------------------------------------
LEMMA StutterHolds == IInv /\ UNCHANGED vars => IInv'
<1> SUFFICES ASSUME IInv, UNCHANGED vars PROVE IInv'
  OBVIOUS
<1>1. UNCHANGED <<offered, net, contact, session, pending, secrets, cmd, rx, serial,
                  sealed, kxs, tried, shown, answered, again, removals, faults>>
  BY DEF vars, store, history, answers
<1>2. TypeOK'
  BY <1>1 DEF IInv, TypeOK
<1>3. \A q \in Device : KeyLedger(q)'
  BY <1>1 DEF IInv, KeyLedger, KeyedHandshakes, Claimed
<1>4. AnsweredOnce'
  BY <1>1 DEF IInv, AnsweredOnce
<1>5. QED
  BY <1>2, <1>3, <1>4 DEF IInv

LEMMA StepHolds == IInv /\ Next => IInv'
<1> SUFFICES ASSUME IInv, NEW p \in Device,
                    \/ ClaimBundle(p) \/ SendSteps(p)
                    \/ \E e \in net[p], acked \in BOOLEAN : Handle(p, e, acked)
                    \/ \E acked \in BOOLEAN : Conclude(p, acked)
                    \/ BindingFails(p)
                    \/ Add(p) \/ FinishAdd(p) \/ Remove(p)
                    \/ Interrupt(p)
             PROVE  IInv'
  BY DEF Next
<1>1. TypeOK /\ AnsweredOnce
  BY DEF IInv
<1>2. \A e \in net[p] : e \in Envelope
  BY <1>1 DEF TypeOK
<1>3. CASE ClaimBundle(p)
  <2>1. again' = again
    BY <1>3 DEF ClaimBundle, answers
  <2>2. QED
    BY <1>1, <1>3, <2>1, ClaimBundleTyped, ClaimBundleLedger DEF IInv, AnsweredOnce
<1>4. CASE \E outcome \in Outcome : PostFirst(p, outcome)
  <2>1. again' = again
    BY <1>4 DEF PostFirst, answers
  <2>2. QED
    BY <1>1, <1>4, <2>1, SendingTyped, PostFirstLedger DEF IInv, AnsweredOnce
<1>5. CASE \E outcome \in Outcome : SendRatchet(p, outcome)
  <2>1. again' = again
    BY <1>5 DEF SendRatchet, answers
  <2>2. QED
    BY <1>1, <1>5, <2>1, SendingTyped, SendRatchetLedger DEF IInv, AnsweredOnce
<1>6. CASE StoreFirst(p)
  <2>1. again' = again
    BY <1>6 DEF StoreFirst, answers
  <2>2. QED
    BY <1>1, <1>6, <2>1, SendingTyped, OtherLedger DEF IInv, AnsweredOnce
<1>7. CASE \E e \in net[p] : BeginKx(p, e)
  BY <1>1, <1>7, BeginKxTyped, BeginKxLedger, AnsweredOnceStep DEF IInv
<1>8. CASE \E e \in net[p], acked \in BOOLEAN :
             RejectKx(p, e, acked) \/ ReadRatchet(p, e, acked)
  <2>1. again' = again
    BY <1>8 DEF RejectKx, ReadRatchet, answers
  <2>2. QED
    BY <1>1, <1>2, <1>8, <2>1, HandlingTyped, OtherLedger DEF IInv, AnsweredOnce
<1>9. CASE \E acked \in BOOLEAN : Adopt(p, acked) \/ Hold(p, acked) \/ BindingFails(p)
  <2>1. again' = again
    BY <1>9 DEF Adopt, Hold, BindingFails, answers
  <2>2. QED
    BY <1>1, <1>9, <2>1, ConcludingTyped, OtherLedger DEF IInv, AnsweredOnce
<1>10. CASE Add(p) \/ FinishAdd(p) \/ Remove(p) \/ Interrupt(p)
  <2>1. again' = again
    BY <1>10 DEF Add, FinishAdd, Remove, Interrupt, answers
  <2>2. QED
    BY <1>1, <1>10, <2>1, ContactsTyped, OtherLedger DEF IInv, AnsweredOnce
<1>11. QED
  BY <1>3, <1>4, <1>5, <1>6, <1>7, <1>8, <1>9, <1>10 DEF SendSteps, Handle, Conclude

(* The ledger of one-time prekeys holds in every reachable state, whatever
   is delivered late, twice or never, and wherever a tab is closed. *)
THEOREM LedgerHolds == Spec => []IInv
<1>1. IInv /\ [Next]_vars => IInv'
  BY StutterHolds, StepHolds
<1>2. QED
  BY InitHolds, <1>1, PTL DEF Spec

(* Types of processEnvelope, sendFirstMessage, /add and /remove: above all,
   a device still holds the secret of every prekey the server offers. *)
THEOREM TypesHold == Spec => []TypeOK
BY LedgerHolds, PTL DEF IInv

(* processEnvelope answers a handshake with a one-time prekey once at most:
   a second delivery finds the secret gone. *)
THEOREM KeyedHandshakeAnsweredOnce == Spec => []AnsweredOnce
BY LedgerHolds, PTL DEF IInv

(* A handshake nobody has answered can be answered still. *)
LEMMA FirstAnswered == IInv => FirstDeliveryAnswered
<1> SUFFICES ASSUME IInv, NEW p \in Device, NEW e \in net[p] \ answered[p],
                    e.kind = "kx", e.opk # NoPrekey
             PROVE  CanAnswer(p, e)
  BY DEF FirstDeliveryAnswered, CanAnswer
<1>1. e \in KeyedHandshakes(p)
  BY DEF IInv, TypeOK, KeyedHandshakes
<1>2. QED
  BY <1>1 DEF IInv, KeyLedger, CanAnswer

(* A first delivery is never refused with E511: whoever else fetched a
   bundle meanwhile, the one-time prekey this handshake names is still held. *)
THEOREM NoFirstDeliveryRefused == Spec => []FirstDeliveryAnswered
BY LedgerHolds, FirstAnswered, PTL

-----------------------------------------------------------------------------
(* Where calm reigns, the sessions meet. *)

(* All that MeetInv reads of one device. *)
View(q) ==
  <<contact[q], session[q], pending[q], cmd[q], rx[q], net[q], tried[q], answered[q],
    sealed[q], serial[q]>>

LEMMA SameView ==
  ASSUME NEW q \in Device, View(q)' = View(q)
  PROVE  /\ TakenInTurn(q)' <=> TakenInTurn(q)
         /\ ContactFirst(q)' <=> ContactFirst(q)
         /\ Due(q)' = Due(q)
<1>1. /\ contact'[q] = contact[q] /\ session'[q] = session[q] /\ pending'[q] = pending[q]
      /\ cmd'[q] = cmd[q] /\ rx'[q] = rx[q] /\ net'[q] = net[q] /\ tried'[q] = tried[q]
      /\ answered'[q] = answered[q] /\ sealed'[q] = sealed[q] /\ serial'[q] = serial[q]
  BY DEF View
<1>2. Unhandled(q)' = Unhandled(q)
  BY <1>1 DEF Unhandled
<1>3. TakenInTurn(q)' <=> TakenInTurn(q)
  BY <1>1, <1>2 DEF TakenInTurn
<1>4. ContactFirst(q)' <=> ContactFirst(q)
  BY <1>1 DEF ContactFirst
<1>5. Due(q)' = Due(q)
  BY <1>1, <1>2 DEF Due
<1>6. QED
  BY <1>3, <1>4, <1>5

(* A step at one device that promises no session but one promised before. *)
LEMMA LocalStep ==
  ASSUME MeetInv, NEW p \in Device,
         View(Other(p))' = View(Other(p)),
         TakenInTurn(p)', ContactFirst(p)',
         Due(p)' \subseteq Due(p),
         ~(\A r \in Device : Initiating(r)')
  PROVE  MeetInv'
<1> DEFINE q == Other(p)
<1>1. q \in Device /\ Other(q) = p /\ \A r \in Device : r = p \/ r = q
  BY OtherDevice DEF Device, Other
<1>2. TakenInTurn(q)' /\ ContactFirst(q)' /\ Due(q)' = Due(q)
  BY <1>1, SameView DEF MeetInv
<1>3. \A r \in Device : TakenInTurn(r)' /\ ContactFirst(r)'
  BY <1>1, <1>2
<1>4. \A r \in Device : \A k \in Due(r)', l \in Due(Other(r))' : k = l
  BY <1>1, <1>2 DEF MeetInv
<1>5. QED
  BY <1>3, <1>4 DEF MeetInv

(* The last of a set of envelopes. *)
LEMMA LatestOf ==
  ASSUME NEW s \in SUBSET Envelope, NEW e \in Envelope
  PROVE  /\ e \in s /\ (\A f \in s : e.text <= f.text) =>
              /\ Latest(s \ {e}) \subseteq Latest(s)
              /\ s \ {e} = {} => Latest(s) = {e}
         /\ (\A f \in s : f.text < e.text) => Latest(s \cup {e}) = {e}
<1>1. e.text \in Nat /\ \A f \in s : f.text \in Nat
  BY DEF Envelope
<1>2. QED
  BY <1>1 DEF Latest

(* What the invariant says of one device, for use. *)
LEMMA AtRestMeets ==
  ASSUME IInv, MeetInv, NEW p \in Device
  PROVE  /\ TakenInTurn(p) /\ ContactFirst(p)
         /\ Unhandled(p) \in SUBSET Envelope
         /\ \A e \in net[p] \cup answered[p] :
              e \in Envelope /\ e.kx # 0 /\ e.text <= serial[Other(p)]
         /\ cmd[p].pc \in {"bundle", "posted"} =>
              /\ ~Initiating(Other(p)) /\ Unhandled(p) = {}
              /\ session[p] = NoSession /\ pending[p] = NoRequest /\ contact[p]
<1>1. TakenInTurn(p) /\ ContactFirst(p) /\ TakenInTurn(Other(p))
  BY OtherDevice DEF MeetInv
<1>2. Unhandled(p) \in SUBSET Envelope
  BY DEF Unhandled, IInv, TypeOK
<1>3. net[p] \cup answered[p] \subseteq sealed[Other(p)] /\ sealed[Other(p)] \subseteq Envelope
  BY OtherDevice DEF IInv, TypeOK
<1>4. \A e \in net[p] \cup answered[p] :
        e \in Envelope /\ e.kx # 0 /\ e.text <= serial[Other(p)]
  BY <1>1, <1>3 DEF TakenInTurn
<1>5. ASSUME cmd[p].pc \in {"bundle", "posted"}
      PROVE  /\ ~Initiating(Other(p)) /\ Unhandled(p) = {}
             /\ session[p] = NoSession /\ pending[p] = NoRequest /\ contact[p]
  <2>1. Initiating(p)
    BY <1>5 DEF Initiating
  <2>2. ~Initiating(Other(p))
    BY <2>1 DEF MeetInv, Device, Other
  <2>3. Unhandled(p) = {}
    BY <2>2, OtherDevice DEF Initiating, Unhandled
  <2>4. contact[p] /\ session[p] = NoSession /\ pending[p] = NoRequest
    BY <1>1, <1>5 DEF ContactFirst, Rest
  <2>5. QED
    BY <2>2, <2>3, <2>4
<1>6. QED
  BY <1>1, <1>2, <1>4, <1>5

-----------------------------------------------------------------------------
(* Steps of the command lane. *)

LEMMA ClaimMeets ==
  ASSUME IInv, MeetInv, NEW p \in Device, ~HandshakeUnderWay(p), ClaimBundle(p)
  PROVE  MeetInv'
<1>1. PICK opk \in OneTime \cup {NoPrekey} :
        cmd' = [cmd EXCEPT ![p] = [pc |-> "bundle", opk |-> opk]]
  BY OtherDevice DEF ClaimBundle, Claimable, IInv, TypeOK
<1>2. /\ cmd[p] = Rest /\ contact[p] /\ session[p] = NoSession
      /\ UNCHANGED <<contact, session, pending, rx, net, tried, answered, sealed, serial>>
  BY DEF ClaimBundle, MaySend, Established, store, history, answers
<1>3. /\ cmd'[p] = [pc |-> "bundle", opk |-> opk]
      /\ cmd'[Other(p)] = cmd[Other(p)]
  BY <1>1, OtherDevice DEF IInv, TypeOK
<1>4. View(Other(p))' = View(Other(p))
  BY <1>2, <1>3 DEF View
<1>5. TakenInTurn(p)'
  BY <1>2, AtRestMeets DEF TakenInTurn, Unhandled
<1>6. ContactFirst(p)'
  BY <1>2, <1>3, AtRestMeets DEF ContactFirst, NoSession, Fresh, Rest
<1>7. Due(p)' \subseteq Due(p)
  BY <1>2, <1>3 DEF Due, Unhandled, Rest
<1>8. ~Initiating(Other(p))'
  BY <1>2, <1>3, OtherDevice DEF Initiating, HandshakeUnderWay
<1>9. QED
  BY <1>4, <1>5, <1>6, <1>7, <1>8, LocalStep, OtherDevice

LEMMA StoreMeets ==
  ASSUME IInv, MeetInv, NEW p \in Device, StoreFirst(p)
  PROVE  MeetInv'
<1>1. /\ cmd[p].pc = "posted"
      /\ session'[p] = Fresh(cmd[p].kx) /\ cmd'[p] = Rest
      /\ session'[Other(p)] = session[Other(p)] /\ cmd'[Other(p)] = cmd[Other(p)]
      /\ UNCHANGED <<contact, pending, rx, net, tried, answered, sealed, serial>>
  BY OtherDevice DEF StoreFirst, IInv, TypeOK, history, answers
<1>2. /\ ~Initiating(Other(p)) /\ Unhandled(p) = {} /\ contact[p]
      /\ cmd[p].kx # 0 /\ pending[p] = NoRequest
  BY <1>1, AtRestMeets DEF ContactFirst
<1>3. View(Other(p))' = View(Other(p))
  BY <1>1 DEF View
<1>4. TakenInTurn(p)'
  BY <1>1, AtRestMeets DEF TakenInTurn, Unhandled
<1>5. ContactFirst(p)'
  BY <1>1, <1>2 DEF ContactFirst, NoSession, Fresh, Rest
<1>6. Due(p)' \subseteq Due(p)
  BY <1>1, <1>2 DEF Due, Unhandled, Rest, Fresh
<1>7. ~Initiating(Other(p))'
  BY <1>1, <1>2, OtherDevice DEF Initiating
<1>8. QED
  BY <1>3, <1>4, <1>5, <1>6, <1>7, LocalStep, OtherDevice

(* What goes out, and where it may be found afterwards. *)
LEMMA Submitted ==
  ASSUME IInv, NEW p \in Device, NEW e \in Envelope, NEW outcome, Submit(p, e, outcome)
  PROVE  /\ sealed'[p] = sealed[p] \cup {e} /\ serial'[p] = serial[p] + 1
         /\ sealed'[Other(p)] = sealed[Other(p)] /\ serial'[Other(p)] = serial[Other(p)]
         /\ net'[p] = net[p]
         /\ net'[Other(p)] = IF outcome = "refused" THEN net[Other(p)]
                             ELSE net[Other(p)] \cup {e}
BY OtherDevice DEF Submit, IInv, TypeOK

(* The sender's books after a text has gone out. *)
LEMMA SenderInTurn ==
  ASSUME IInv, MeetInv, NEW p \in Device, NEW e \in Envelope,
         e.kx # 0, e.text = serial[p] + 1,
         sealed'[p] = sealed[p] \cup {e}, serial'[p] = serial[p] + 1,
         net'[p] = net[p], UNCHANGED <<tried, answered, rx, contact>>
  PROVE  TakenInTurn(p)'
<1>1. TakenInTurn(p) /\ sealed[p] \subseteq Envelope /\ serial[p] \in Nat
  BY AtRestMeets DEF IInv, TypeOK
<1>2. \A f \in sealed'[p] : f.kx # 0 /\ f.text <= serial'[p]
  <2>1. \A f \in sealed[p] : f.kx # 0 /\ f.text <= serial[p] /\ f.text \in Nat
    BY <1>1 DEF TakenInTurn, Envelope
  <2>2. QED
    BY <1>1, <2>1
<1>3. QED
  BY <1>1, <1>2 DEF TakenInTurn, Unhandled

(* Who has not handled it takes what was just sent in its turn: it is the
   last in the mail. *)
LEMMA ReceiverInTurn ==
  ASSUME IInv, MeetInv, NEW p \in Device, NEW e \in Envelope,
         e.text = serial[p] + 1,
         net'[Other(p)] = net[Other(p)] \/ net'[Other(p)] = net[Other(p)] \cup {e},
         sealed'[Other(p)] = sealed[Other(p)], serial'[Other(p)] = serial[Other(p)],
         UNCHANGED <<tried, answered, rx, contact>>
  PROVE  /\ TakenInTurn(Other(p))'
         /\ \A f \in Unhandled(Other(p)) : f.text < e.text
         /\ e.kind = "kx" => e \notin tried[Other(p)]
<1> DEFINE q == Other(p)
<1>1. q \in Device /\ Other(q) = p /\ serial[p] \in Nat
  BY OtherDevice DEF IInv, TypeOK
<1>2. TakenInTurn(q) /\ \A f \in net[q] \cup answered[q] : f \in Envelope /\ f.text <= serial[p]
  BY <1>1, AtRestMeets
<1>3. e \notin net[q] \cup answered[q]
  BY <1>1, <1>2
<1>4. e.kind = "kx" => e \notin tried[q]
  BY <1>2, <1>3 DEF TakenInTurn
<1>5. \A f \in Unhandled(q) : f.text < e.text
  BY <1>1, <1>2 DEF Unhandled, Envelope
<1> HIDE DEF q
<1>6. /\ Unhandled(q) \subseteq Unhandled(q)'
      /\ Unhandled(q)' \subseteq Unhandled(q) \cup {e}
  BY DEF Unhandled, q
<1>7. rx'[q] # Rest =>
        /\ rx'[q].env \in answered'[q] \cap Unhandled(q)'
        /\ \A f \in Unhandled(q)' : rx'[q].env.text <= f.text
        /\ rx'[q].pc = IF contact'[q] THEN "adopting" ELSE "binding"
  <2>1. SUFFICES ASSUME rx[q] # Rest
                 PROVE  /\ rx[q].env \in answered[q] \cap Unhandled(q)'
                        /\ \A f \in Unhandled(q)' : rx[q].env.text <= f.text
                        /\ rx[q].pc = IF contact[q] THEN "adopting" ELSE "binding"
    OBVIOUS
  <2>2. /\ rx[q].env \in answered[q] \cap Unhandled(q)
        /\ \A f \in Unhandled(q) : rx[q].env.text <= f.text
        /\ rx[q].pc = IF contact[q] THEN "adopting" ELSE "binding"
    BY <1>2, <2>1 DEF TakenInTurn
  <2>3. rx[q].env.text <= e.text
    BY <1>5, <2>2, <1>1, <1>2 DEF Envelope
  <2>4. QED
    BY <1>6, <2>2, <2>3
<1>8. \A f \in net'[q] \cap tried[q] : f.kind = "kx" => f.opk # NoPrekey
  BY <1>2, <1>4 DEF TakenInTurn, q
<1>9. \A f \in sealed'[q] : f.kx # 0 /\ f.text <= serial'[q]
  BY <1>2 DEF TakenInTurn, q
<1>10. /\ \A f \in tried[q] : f.kind = "kx" => f \in answered[q]
       /\ \A f \in answered[q] \ tried[q] : rx[q] # Rest /\ rx[q].env = f
  BY <1>2 DEF TakenInTurn
<1>11. TakenInTurn(q)'
  BY <1>7, <1>8, <1>9, <1>10 DEF TakenInTurn
<1>12. QED
  BY <1>4, <1>5, <1>11 DEF q

(* A handshake: from now on it is the one both sides await, or none is
   awaited by the sender. *)
LEMMA PostMeets ==
  ASSUME IInv, MeetInv, NEW p \in Device, NEW outcome \in Outcome, PostFirst(p, outcome)
  PROVE  MeetInv'
<1> DEFINE q == Other(p)
           k == kxs + 1
           e == FirstMessage(k, cmd[p].opk, serial[p] + 1)
<1>1. q \in Device /\ q # p /\ Other(q) = p /\ \A r \in Device : r = p \/ r = q
  BY OtherDevice DEF Device, Other
<1>2. k \in Nat /\ k # 0 /\ serial[p] \in Nat
  BY DEF IInv, TypeOK
<1>3. /\ e.kind = "kx" /\ e.kx = k /\ e.text = serial[p] + 1
      /\ e \in Envelope
  <2>1. cmd[p] \in Command /\ cmd[p].pc = "bundle"
    BY DEF IInv, TypeOK, PostFirst
  <2>2. QED
    BY <1>2, <2>1, EnvelopesTyped, CommandsTyped DEF FirstMessage
<1>4. Submit(p, e, outcome)
  BY DEF PostFirst
<1>5. /\ UNCHANGED <<contact, session, pending, rx, tried, answered>>
      /\ cmd[p].pc = "bundle"
      /\ cmd'[p] = IF outcome = "answered" THEN [pc |-> "posted", kx |-> k] ELSE Rest
      /\ cmd'[q] = cmd[q]
  BY <1>1 DEF PostFirst, IInv, TypeOK, store, answers
<1>6. /\ ~Initiating(q) /\ Unhandled(p) = {}
      /\ session[p] = NoSession /\ pending[p] = NoRequest /\ contact[p]
  BY <1>5, AtRestMeets
<1> HIDE DEF e, k, q
<1>7. /\ sealed'[p] = sealed[p] \cup {e} /\ serial'[p] = serial[p] + 1
      /\ sealed'[q] = sealed[q] /\ serial'[q] = serial[q]
      /\ net'[p] = net[p]
      /\ net'[q] = IF outcome = "refused" THEN net[q] ELSE net[q] \cup {e}
  <2>1. /\ sealed'[p] = sealed[p] \cup {e} /\ serial'[p] = serial[p] + 1
        /\ sealed'[q] = sealed[q] /\ serial'[q] = serial[q]
        /\ net'[p] = net[p]
    BY <1>3, <1>4, Submitted DEF q
  <2>2. net'[q] = IF outcome = "refused" THEN net[q] ELSE net[q] \cup {e}
    BY <1>1, <1>4 DEF Submit, q, IInv, TypeOK
  <2>3. QED
    BY <2>1, <2>2
<1>8. TakenInTurn(p)'
  BY <1>2, <1>3, <1>5, <1>7, SenderInTurn
<1>9. /\ TakenInTurn(q)' /\ \A f \in Unhandled(q) : f.text < e.text
      /\ e \notin tried[q]
  <2>1. net'[q] = net[q] \/ net'[q] = net[q] \cup {e}
    BY <1>7
  <2>2. QED
    BY <1>3, <1>5, <1>7, <2>1, ReceiverInTurn DEF q
<1>10. ContactFirst(p)' /\ ContactFirst(q)'
  <2>1. ContactFirst(p) /\ ContactFirst(q)
    BY <1>1, AtRestMeets
  <2>2. ContactFirst(q)'
    BY <1>5, <2>1 DEF ContactFirst
  <2>3. ContactFirst(p)'
    BY <1>2, <1>5, <1>6, <2>1 DEF ContactFirst, Rest
  <2>4. QED
    BY <2>2, <2>3
<1>11. ~Initiating(q)'
  BY <1>1, <1>5, <1>6, <1>7 DEF Initiating
<1>12. Unhandled(p)' = {}
  BY <1>5, <1>6, <1>7 DEF Unhandled
<1>13. Due(p)' = IF outcome = "answered" THEN {k} ELSE {}
  <2>1. CASE outcome = "answered"
    BY <1>5, <2>1 DEF Due
  <2>2. CASE outcome # "answered"
    <3>1. cmd'[p].pc # "posted"
      BY <1>5, <2>2 DEF Rest
    <3>2. session'[p].kx = 0 /\ pending'[p] = NoRequest
      BY <1>5, <1>6 DEF NoSession, Fresh
    <3>3. QED
      BY <1>12, <2>2, <3>1, <3>2 DEF Due
  <2>3. QED
    BY <2>1, <2>2
<1>14. outcome = "answered" => Due(q)' = {k}
  <2>1. SUFFICES ASSUME outcome = "answered" PROVE Due(q)' = {k}
    OBVIOUS
  <2>2. Unhandled(q)' = Unhandled(q) \cup {e}
    BY <1>3, <1>5, <1>7, <1>9, <2>1 DEF Unhandled
  <2>3. Latest(Unhandled(q) \cup {e}) = {e}
    <3>1. Unhandled(q) \in SUBSET Envelope
      BY <1>1, AtRestMeets
    <3>2. QED
      BY <1>3, <1>9, <3>1, LatestOf
  <2>4. cmd'[q].pc # "posted"
    BY <1>5, <1>6 DEF Initiating
  <2>5. Due(q)' = {f.kx : f \in Latest(Unhandled(q)')}
    BY <2>2, <2>4 DEF Due
  <2>6. QED
    BY <1>3, <2>2, <2>3, <2>5
<1>15. \A r \in Device : \A i \in Due(r)', j \in Due(Other(r))' : i = j
  BY <1>1, <1>13, <1>14 DEF q
<1>16. QED
  BY <1>1, <1>8, <1>9, <1>10, <1>11, <1>15 DEF MeetInv

(* A ratchet message promises nothing new. *)
LEMMA SendMeets ==
  ASSUME IInv, MeetInv, NEW p \in Device, NEW outcome, SendRatchet(p, outcome)
  PROVE  MeetInv'
<1> DEFINE q == Other(p)
           e == RatchetMessage(session[p].kx, session[p].sent, serial[p] + 1)
<1>1. q \in Device /\ q # p /\ Other(q) = p /\ \A r \in Device : r = p \/ r = q
  BY OtherDevice DEF Device, Other
<1>2. /\ e.kind = "msg" /\ e.kx = session[p].kx /\ e.text = serial[p] + 1
      /\ e \in Envelope
  <2>1. session[p].kx \in Nat /\ session[p].sent \in Nat /\ serial[p] + 1 \in Nat
    BY DEF IInv, TypeOK
  <2>2. QED
    BY <2>1, EnvelopesTyped DEF RatchetMessage, NoPrekey
<1>3. Submit(p, e, outcome)
  BY DEF SendRatchet
<1>4. /\ UNCHANGED <<contact, pending, cmd, rx, tried, answered>>
      /\ cmd[p] = Rest /\ contact[p] /\ session[p] # NoSession
      /\ session'[q] = session[q]
      /\ session'[p].kx = session[p].kx
  BY <1>1 DEF SendRatchet, MaySend, Established, IInv, TypeOK, answers
<1>5. session[p].kx # 0
  BY <1>4, AtRestMeets DEF ContactFirst
<1> HIDE DEF e, q
<1>6. /\ sealed'[p] = sealed[p] \cup {e} /\ serial'[p] = serial[p] + 1
      /\ sealed'[q] = sealed[q] /\ serial'[q] = serial[q]
      /\ net'[p] = net[p]
      /\ net'[q] = net[q] \/ net'[q] = net[q] \cup {e}
  BY <1>2, <1>3, Submitted DEF q
<1>7. TakenInTurn(p)'
  BY <1>2, <1>4, <1>5, <1>6, SenderInTurn
<1>8. TakenInTurn(q)'
  BY <1>2, <1>4, <1>6, ReceiverInTurn DEF q
<1>9. ContactFirst(p)' /\ ContactFirst(q)'
  <2>1. ContactFirst(p) /\ ContactFirst(q)
    BY <1>1, AtRestMeets
  <2>2. session'[p] # NoSession
    BY <1>4, <1>5 DEF NoSession, Fresh
  <2>3. ContactFirst(p)'
    BY <1>4, <1>5, <2>1, <2>2 DEF ContactFirst, Rest
  <2>4. QED
    BY <1>4, <2>1, <2>3 DEF ContactFirst
<1>10. Unhandled(p)' = Unhandled(p) /\ Unhandled(q)' = Unhandled(q)
  BY <1>2, <1>4, <1>6 DEF Unhandled
<1>11. Due(p)' = Due(p) /\ Due(q)' = Due(q)
  BY <1>4, <1>10 DEF Due
<1>12. \A r \in Device : Initiating(r)' <=> Initiating(r)
  <2>1. Initiating(p)' <=> Initiating(p)
    BY <1>2, <1>4, <1>6 DEF Initiating, q
  <2>2. Initiating(q)' <=> Initiating(q)
    BY <1>1, <1>4, <1>6 DEF Initiating
  <2>3. QED
    BY <1>1, <2>1, <2>2
<1>13. \A r \in Device : TakenInTurn(r)' /\ ContactFirst(r)'
  BY <1>1, <1>7, <1>8, <1>9
<1>14. \A r \in Device : \A k \in Due(r)', l \in Due(Other(r))' : k = l
  BY <1>1, <1>11 DEF MeetInv, q
<1>15. QED
  BY <1>12, <1>13, <1>14 DEF MeetInv

-----------------------------------------------------------------------------
(* Steps of the receive lane. *)

(* A handshake is answered in its turn, for the first time. *)
LEMMA BeginMeets ==
  ASSUME IInv, MeetInv, NEW p \in Device, NEW e \in net[p], InOrder(p, e), BeginKx(p, e)
  PROVE  MeetInv'
<1>1. /\ rx[p] = Rest /\ e.kind = "kx" /\ CanAnswer(p, e)
      /\ UNCHANGED <<contact, session, pending, cmd, net, tried, sealed, serial>>
      /\ answered'[p] = answered[p] \cup {e}
      /\ answered'[Other(p)] = answered[Other(p)]
      /\ rx'[p] = Lane(IF contact[p] THEN "adopting" ELSE "binding", e)
      /\ rx'[Other(p)] = rx[Other(p)]
  BY OtherDevice DEF BeginKx, Count, IInv, TypeOK, history
<1>2. TakenInTurn(p)
  BY AtRestMeets
<1>3. e \notin tried[p]
  <2>1. SUFFICES ASSUME e \in tried[p] PROVE FALSE
    OBVIOUS
  <2>2. e \in answered[p] /\ e.opk # NoPrekey
    BY <1>1, <1>2, <2>1 DEF TakenInTurn
  <2>3. e \in KeyedHandshakes(p)
    BY <1>1, <2>2 DEF IInv, TypeOK, KeyedHandshakes
  <2>4. e.opk \notin secrets[p]
    BY <2>2, <2>3 DEF IInv, KeyLedger
  <2>5. QED
    BY <1>1, <2>2, <2>4 DEF CanAnswer
<1>4. e \in Unhandled(p) /\ \A f \in Unhandled(p) : e.text <= f.text
  BY <1>1, <1>3 DEF Unhandled, InOrder
<1>5. /\ rx'[p].env = e
      /\ rx'[p].pc = IF contact[p] THEN "adopting" ELSE "binding"
      /\ rx'[p] # Rest
  BY <1>1 DEF Lane, Rest
<1>6. Unhandled(p)' = Unhandled(p) /\ Due(p)' = Due(p)
  BY <1>1 DEF Unhandled, Due
<1>7. TakenInTurn(p)'
  <2>1. \A f \in answered[p] : f \in tried[p]
    BY <1>1, <1>2 DEF TakenInTurn
  <2>2. \A f \in answered'[p] \ tried'[p] : rx'[p] # Rest /\ rx'[p].env = f
    BY <1>1, <1>5, <2>1
  <2>3. /\ \A f \in tried[p] : f.kind = "kx" => f \in answered'[p]
        /\ \A f \in net[p] \cap tried[p] : f.kind = "kx" => f.opk # NoPrekey
        /\ \A f \in sealed[p] : f.kx # 0 /\ f.text <= serial[p]
    BY <1>1, <1>2 DEF TakenInTurn
  <2>4. /\ rx'[p].env \in answered'[p] \cap Unhandled(p)'
        /\ \A f \in Unhandled(p)' : rx'[p].env.text <= f.text
        /\ rx'[p].pc = IF contact'[p] THEN "adopting" ELSE "binding"
    BY <1>1, <1>4, <1>5, <1>6
  <2>5. QED
    BY <1>1, <2>2, <2>3, <2>4 DEF TakenInTurn
<1>8. ContactFirst(p)'
  BY <1>1, AtRestMeets DEF ContactFirst
<1>9. View(Other(p))' = View(Other(p))
  BY <1>1 DEF View
<1>10. ~(\A r \in Device : Initiating(r)')
  BY <1>1 DEF MeetInv, Initiating
<1>11. QED
  BY <1>6, <1>7, <1>8, <1>9, <1>10, LocalStep

(* An envelope put aside: the mail shrinks, if at all. *)
LEMMA PutAside ==
  ASSUME IInv, NEW p \in Device, NEW e, NEW acked, Answer(p, e, acked)
  PROVE  /\ tried'[p] = tried[p] \cup {e} /\ tried'[Other(p)] = tried[Other(p)]
         /\ net'[Other(p)] = net[Other(p)]
         /\ net'[p] = net[p] \/ net'[p] = net[p] \ {e}
         /\ acked => net'[p] = net[p] \ {e}
BY OtherDevice DEF Answer, IInv, TypeOK

(* What is refused has been handled before. *)
LEMMA RejectMeets ==
  ASSUME IInv, MeetInv, NEW p \in Device, NEW e \in net[p], NEW acked, RejectKx(p, e, acked)
  PROVE  MeetInv'
<1>1. /\ rx[p] = Rest /\ e.kind = "kx" /\ ~CanAnswer(p, e) /\ Answer(p, e, acked)
      /\ UNCHANGED <<contact, session, pending, cmd, rx, answered, sealed, serial>>
  BY DEF RejectKx, store, history, answers
<1>2. /\ tried'[p] = tried[p] \cup {e} /\ tried'[Other(p)] = tried[Other(p)]
      /\ net'[Other(p)] = net[Other(p)]
      /\ net'[p] = net[p] \/ net'[p] = net[p] \ {e}
  BY <1>1, PutAside
<1>3. TakenInTurn(p)
  BY AtRestMeets
<1>4. e \in tried[p]
  <2>1. e \in answered[p]
    BY <1>1, FirstAnswered DEF FirstDeliveryAnswered
  <2>2. QED
    BY <1>1, <1>3, <2>1 DEF TakenInTurn
<1>5. tried'[p] = tried[p]
  BY <1>2, <1>4
<1>6. Unhandled(p)' = Unhandled(p)
  BY <1>2, <1>4, <1>5 DEF Unhandled
<1>7. Due(p)' = Due(p)
  BY <1>1, <1>6 DEF Due
<1>8. TakenInTurn(p)'
  BY <1>1, <1>2, <1>3, <1>5, <1>6 DEF TakenInTurn
<1>9. ContactFirst(p)'
  BY <1>1, AtRestMeets DEF ContactFirst
<1>10. View(Other(p))' = View(Other(p))
  BY <1>1, <1>2 DEF View
<1>11. ~(\A r \in Device : Initiating(r)')
  BY <1>1, <1>2, OtherDevice DEF MeetInv, Initiating, Device, Other
<1>12. QED
  BY <1>7, <1>8, <1>9, <1>10, <1>11, LocalStep

LEMMA ReadMeets ==
  ASSUME IInv, MeetInv, NEW p \in Device, NEW e \in net[p], NEW acked,
         ReadRatchet(p, e, acked)
  PROVE  MeetInv'
<1>1. /\ rx[p] = Rest /\ e.kind = "msg" /\ Answer(p, e, acked)
      /\ UNCHANGED <<contact, pending, cmd, rx, answered, sealed, serial>>
      /\ session'[Other(p)] = session[Other(p)]
      /\ session'[p] = session[p] \/ (session[p].kx = e.kx /\ session'[p].kx = e.kx)
  BY OtherDevice DEF ReadRatchet, Opens, IInv, TypeOK, history, answers
<1>2. /\ tried'[p] = tried[p] \cup {e} /\ tried'[Other(p)] = tried[Other(p)]
      /\ net'[Other(p)] = net[Other(p)]
      /\ net'[p] = net[p] \/ net'[p] = net[p] \ {e}
  BY <1>1, PutAside
<1>3. TakenInTurn(p) /\ ContactFirst(p) /\ e.kx # 0
  BY AtRestMeets
<1>4. Unhandled(p)' = Unhandled(p)
  BY <1>1, <1>2 DEF Unhandled
<1>5. Due(p)' = Due(p)
  <2>1. session'[p].kx = session[p].kx
    BY <1>1
  <2>2. QED
    BY <1>1, <1>4, <2>1 DEF Due
<1>6. TakenInTurn(p)'
  BY <1>1, <1>2, <1>3, <1>4 DEF TakenInTurn
<1>7. ContactFirst(p)'
  <2>1. CASE session'[p] = session[p]
    BY <1>1, <1>3, <2>1 DEF ContactFirst
  <2>2. CASE session[p].kx = e.kx /\ session'[p].kx = e.kx
    <3>1. session[p] # NoSession /\ session'[p] # NoSession
      BY <1>3, <2>2 DEF NoSession, Fresh
    <3>2. QED
      BY <1>1, <1>3, <2>2, <3>1 DEF ContactFirst
  <2>3. QED
    BY <1>1, <2>1, <2>2
<1>8. View(Other(p))' = View(Other(p))
  BY <1>1, <1>2 DEF View
<1>9. ~(\A r \in Device : Initiating(r)')
  BY <1>1, <1>2, OtherDevice DEF MeetInv, Initiating, Device, Other
<1>10. QED
  BY <1>5, <1>6, <1>7, <1>8, <1>9, LocalStep

(* The handshake in the lane is done with: what is promised is the last of
   those that wait still, or else this one. *)
LEMMA ConcludeMeets ==
  ASSUME IInv, MeetInv, NEW p \in Device, NEW acked \in BOOLEAN,
         rx[p] # Rest, acked \/ Repeatable(rx[p].env), Conclude(p, acked)
  PROVE  MeetInv'
<1> DEFINE e == rx[p].env
<1>1. /\ UNCHANGED <<contact, cmd, answered, sealed, serial>>
      /\ rx'[p] = Rest /\ rx'[Other(p)] = rx[Other(p)]
      /\ session'[Other(p)] = session[Other(p)] /\ pending'[Other(p)] = pending[Other(p)]
      /\ Answer(p, e, acked)
  BY OtherDevice DEF Conclude, Adopt, Hold, IInv, TypeOK, history, answers
<1>2. \/ /\ rx[p].pc = "adopting"
         /\ session'[p] = Fresh(e.kx) /\ pending'[p] = pending[p]
      \/ /\ rx[p].pc = "binding"
         /\ session'[p] = session[p] /\ pending'[p] = Request(e)
  BY OtherDevice DEF Conclude, Adopt, Hold, IInv, TypeOK
<1>3. /\ TakenInTurn(p) /\ ContactFirst(p) /\ Unhandled(p) \in SUBSET Envelope
      /\ e \in Envelope /\ e.kx # 0
      /\ e \in answered[p] \cap Unhandled(p) /\ \A f \in Unhandled(p) : e.text <= f.text
      /\ rx[p].pc = IF contact[p] THEN "adopting" ELSE "binding"
  <2>1. TakenInTurn(p) /\ ContactFirst(p) /\ Unhandled(p) \in SUBSET Envelope
    BY AtRestMeets
  <2>2. /\ e \in answered[p] \cap Unhandled(p) /\ \A f \in Unhandled(p) : e.text <= f.text
        /\ rx[p].pc = IF contact[p] THEN "adopting" ELSE "binding"
    BY <2>1 DEF TakenInTurn
  <2>3. e \in net[p]
    BY <2>2 DEF Unhandled
  <2>4. QED
    BY <2>1, <2>2, <2>3, AtRestMeets
<1>4. acked \/ e.opk # NoPrekey
  BY DEF Repeatable
<1>5. cmd[p].pc \notin {"bundle", "posted"}
  <2>1. e \in Unhandled(p)
    BY <1>3
  <2>2. QED
    BY <2>1, AtRestMeets
<1> HIDE DEF e
<1>6. /\ tried'[p] = tried[p] \cup {e} /\ tried'[Other(p)] = tried[Other(p)]
      /\ net'[Other(p)] = net[Other(p)]
      /\ net'[p] = net[p] \/ net'[p] = net[p] \ {e}
      /\ acked => net'[p] = net[p] \ {e}
  BY <1>1, PutAside
<1>7. Unhandled(p)' = Unhandled(p) \ {e}
  BY <1>6 DEF Unhandled
<1>8. TakenInTurn(p)'
  <2>1. /\ \A f \in sealed[p] : f.kx # 0 /\ f.text <= serial[p]
        /\ \A f \in tried'[p] : f.kind = "kx" => f \in answered[p]
    BY <1>3, <1>6 DEF TakenInTurn
  <2>2. \A f \in answered[p] \ tried'[p] : FALSE
    BY <1>3, <1>6 DEF TakenInTurn, e
  <2>3. \A f \in net'[p] \cap tried'[p] : f.kind = "kx" => f.opk # NoPrekey
    BY <1>3, <1>4, <1>6 DEF TakenInTurn
  <2>4. QED
    BY <1>1, <2>1, <2>2, <2>3 DEF TakenInTurn
<1>9. /\ e.kx # 0 => Fresh(e.kx) # NoSession /\ Fresh(e.kx).kx = e.kx
      /\ Request(e) # NoRequest /\ Request(e).kx = e.kx
  BY <1>3 DEF Fresh, NoSession, Request, NoRequest
<1>10. ContactFirst(p)'
  BY <1>1, <1>2, <1>3, <1>5, <1>9 DEF ContactFirst
<1>11. Due(p)' \subseteq Due(p)
  <2>1. CASE Unhandled(p) \ {e} # {}
    <3>1. Latest(Unhandled(p) \ {e}) \subseteq Latest(Unhandled(p))
      BY <1>3, LatestOf
    <3>2. /\ Due(p) = {f.kx : f \in Latest(Unhandled(p))}
          /\ Due(p)' = {f.kx : f \in Latest(Unhandled(p) \ {e})}
      BY <1>1, <1>5, <1>7, <2>1 DEF Due
    <3>3. QED
      BY <3>1, <3>2
  <2>2. CASE Unhandled(p) \ {e} = {}
    <3>1. Latest(Unhandled(p)) = {e}
      BY <1>3, <2>2, LatestOf
    <3>2. Due(p) = {f.kx : f \in Latest(Unhandled(p))}
      BY <1>3, <1>5 DEF Due
    <3>3. Due(p) = {e.kx}
      BY <3>1, <3>2
    <3>4. Due(p)' = {e.kx}
      <4>1. CASE rx[p].pc = "adopting"
        BY <1>1, <1>2, <1>3, <1>5, <1>7, <1>9, <2>2, <4>1 DEF Due
      <4>2. CASE rx[p].pc = "binding"
        <5>1. session[p].kx = 0
          BY <1>3, <4>2 DEF ContactFirst, NoSession, Fresh
        <5>2. QED
          BY <1>1, <1>2, <1>3, <1>5, <1>7, <1>9, <2>2, <4>2, <5>1 DEF Due
      <4>3. QED
        BY <1>2, <4>1, <4>2
    <3>5. QED
      BY <3>3, <3>4
  <2>3. QED
    BY <2>1, <2>2
<1>12. View(Other(p))' = View(Other(p))
  BY <1>1, <1>6 DEF View
<1>13. ~(\A r \in Device : Initiating(r)')
  BY <1>1, <1>6, OtherDevice DEF MeetInv, Initiating, Device, Other
<1>14. QED
  BY <1>8, <1>10, <1>11, <1>12, <1>13, LocalStep

-----------------------------------------------------------------------------
(* /add, /remove, and a tab closed while a message is being sent. *)

LEMMA AddMeets ==
  ASSUME IInv, MeetInv, NEW p \in Device, rx[p] = Rest, Add(p)
  PROVE  MeetInv'
<1>1. /\ cmd[p] = Rest /\ contact'[p] = TRUE
      /\ contact'[Other(p)] = contact[Other(p)]
      /\ UNCHANGED <<pending, rx, net, tried, answered, sealed, serial>>
      /\ session'[Other(p)] = session[Other(p)] /\ cmd'[Other(p)] = cmd[Other(p)]
      /\ IF pending[p] = NoRequest
         THEN session'[p] = session[p] /\ cmd'[p] = cmd[p]
         ELSE /\ session'[p] = Fresh(pending[p].kx)
              /\ cmd'[p] = [pc |-> "adding", saved |-> contact[p]]
  BY OtherDevice DEF Add, IInv, TypeOK, history, answers
<1>2. TakenInTurn(p) /\ ContactFirst(p)
  BY AtRestMeets
<1>3. TakenInTurn(p)'
  BY <1>1, <1>2 DEF TakenInTurn, Unhandled
<1>4. pending[p] # NoRequest =>
        /\ session[p].kx = 0 /\ pending[p].kx # 0
        /\ session'[p].kx = pending[p].kx /\ session'[p] # NoSession
  BY <1>1, <1>2 DEF ContactFirst, Rest, Fresh, NoSession
<1>5. ContactFirst(p)'
  BY <1>1, <1>2, <1>4 DEF ContactFirst, Rest
<1>6. cmd'[p].pc \notin {"bundle", "posted"} /\ cmd[p].pc # "posted"
  BY <1>1 DEF Rest
<1>7. Due(p)' \subseteq Due(p)
  BY <1>1, <1>4, <1>6 DEF Due, Unhandled
<1>8. View(Other(p))' = View(Other(p))
  BY <1>1 DEF View
<1>9. ~(\A r \in Device : Initiating(r)')
  BY <1>1, <1>6, OtherDevice DEF MeetInv, Initiating, Device, Other
<1>10. QED
  BY <1>3, <1>5, <1>7, <1>8, <1>9, LocalStep

LEMMA FinishAddMeets ==
  ASSUME IInv, MeetInv, NEW p \in Device, FinishAdd(p)
  PROVE  MeetInv'
<1>1. /\ cmd[p].pc = "adding" /\ cmd'[p] = Rest /\ pending'[p] = NoRequest
      /\ cmd'[Other(p)] = cmd[Other(p)] /\ pending'[Other(p)] = pending[Other(p)]
      /\ UNCHANGED <<contact, session, rx, net, tried, answered, sealed, serial>>
  BY OtherDevice DEF FinishAdd, IInv, TypeOK, history, answers
<1>2. TakenInTurn(p) /\ ContactFirst(p)
  BY AtRestMeets
<1>3. session[p] # NoSession /\ session[p].kx # 0
  BY <1>1, <1>2 DEF ContactFirst
<1>4. TakenInTurn(p)'
  BY <1>1, <1>2 DEF TakenInTurn, Unhandled
<1>5. ContactFirst(p)'
  BY <1>1, <1>2, <1>3 DEF ContactFirst, Rest
<1>6. Due(p)' \subseteq Due(p)
  BY <1>1, <1>3 DEF Due, Unhandled, Rest
<1>7. View(Other(p))' = View(Other(p))
  BY <1>1 DEF View
<1>8. ~(\A r \in Device : Initiating(r)')
  BY <1>1, OtherDevice DEF MeetInv, Initiating, Device, Other, Rest
<1>9. QED
  BY <1>4, <1>5, <1>6, <1>7, <1>8, LocalStep

LEMMA RemoveMeets ==
  ASSUME IInv, MeetInv, NEW p \in Device, rx[p] = Rest, Remove(p)
  PROVE  MeetInv'
<1>1. /\ cmd[p] = Rest
      /\ contact'[p] = FALSE /\ session'[p] = NoSession /\ pending'[p] = NoRequest
      /\ contact'[Other(p)] = contact[Other(p)]
      /\ session'[Other(p)] = session[Other(p)] /\ pending'[Other(p)] = pending[Other(p)]
      /\ UNCHANGED <<cmd, rx, net, tried, answered, sealed, serial>>
  BY OtherDevice DEF Remove, IInv, TypeOK, history, answers
<1>2. TakenInTurn(p)'
  BY <1>1, AtRestMeets DEF TakenInTurn, Unhandled
<1>3. ContactFirst(p)'
  BY <1>1 DEF ContactFirst, Rest
<1>4. Due(p)' \subseteq Due(p)
  BY <1>1 DEF Due, Unhandled, Rest, NoSession, Fresh
<1>5. View(Other(p))' = View(Other(p))
  BY <1>1 DEF View
<1>6. ~(\A r \in Device : Initiating(r)')
  BY <1>1 DEF MeetInv, Initiating
<1>7. QED
  BY <1>2, <1>3, <1>4, <1>5, <1>6, LocalStep

LEMMA InterruptMeets ==
  ASSUME IInv, MeetInv, NEW p \in Device, rx[p] = Rest, cmd[p].pc # "adding", Interrupt(p)
  PROVE  MeetInv'
<1>1. /\ cmd[p] # Rest /\ cmd'[p] = Rest /\ cmd'[Other(p)] = cmd[Other(p)]
      /\ UNCHANGED <<session, pending, net, tried, answered, sealed, serial>>
      /\ \A r \in Device : contact'[r] = contact[r] /\ rx'[r] = rx[r]
  BY OtherDevice DEF Interrupt, IInv, TypeOK, history, answers
<1>2. cmd[p].pc \in {"bundle", "posted"}
  BY <1>1 DEF IInv, TypeOK, Command
<1>3. /\ ~Initiating(Other(p)) /\ Unhandled(p) = {}
      /\ session[p] = NoSession /\ pending[p] = NoRequest /\ contact[p]
  BY <1>2, AtRestMeets
<1>4. TakenInTurn(p)'
  BY <1>1, AtRestMeets DEF TakenInTurn, Unhandled
<1>5. ContactFirst(p)'
  BY <1>1, <1>3, AtRestMeets DEF ContactFirst, Rest
<1>6. Due(p)' \subseteq Due(p)
  BY <1>1, <1>3 DEF Due, Unhandled, Rest, NoSession, Fresh
<1>7. View(Other(p))' = View(Other(p))
  BY <1>1, OtherDevice DEF View
<1>8. ~Initiating(Other(p))'
  BY <1>1, <1>3, OtherDevice DEF Initiating
<1>9. QED
  BY <1>4, <1>5, <1>6, <1>7, <1>8, LocalStep, OtherDevice

-----------------------------------------------------------------------------
LEMMA MeetInit == Init => MeetInv
<1> SUFFICES ASSUME Init PROVE MeetInv
  OBVIOUS
<1>1. \A p \in Device :
        /\ net[p] = {} /\ tried[p] = {} /\ sealed[p] = {} /\ answered[p] = {}
        /\ rx[p] = Rest /\ cmd[p] = Rest /\ contact[p] = FALSE
        /\ session[p] = NoSession /\ pending[p] = NoRequest
  BY DEF Init
<1>2. \A p \in Device : TakenInTurn(p) /\ ContactFirst(p)
  BY <1>1 DEF TakenInTurn, ContactFirst, Rest, Unhandled
<1>3. \A p \in Device : ~Initiating(p) /\ Due(p) = {}
  BY <1>1, OtherDevice DEF Initiating, Due, Unhandled, Rest, NoSession, Fresh
<1>4. QED
  BY <1>2, <1>3 DEF MeetInv, Device

LEMMA MeetStutter == MeetInv /\ UNCHANGED vars => MeetInv'
<1> SUFFICES ASSUME MeetInv, UNCHANGED vars PROVE MeetInv'
  OBVIOUS
<1>1. UNCHANGED <<contact, session, pending, cmd, rx, net, tried, answered, sealed, serial>>
  BY DEF vars, store, history, answers
<1>2. \A q \in Device : View(q)' = View(q)
  BY <1>1 DEF View
<1>3. \A q \in Device : TakenInTurn(q)' /\ ContactFirst(q)' /\ Due(q)' = Due(q)
  BY <1>2, SameView DEF MeetInv
<1>4. ~(\A r \in Device : Initiating(r)')
  BY <1>1 DEF MeetInv, Initiating
<1>5. \A q \in Device : \A k \in Due(q)', l \in Due(Other(q))' : k = l
  BY <1>3, OtherDevice DEF MeetInv
<1>6. QED
  BY <1>3, <1>4, <1>5 DEF MeetInv

LEMMA MeetStep == IInv /\ MeetInv /\ CalmNext => MeetInv'
<1> SUFFICES ASSUME IInv, MeetInv, CalmNext PROVE MeetInv'
  OBVIOUS
<1>1. PICK p \in Device :
        \/ ~HandshakeUnderWay(p) /\ ClaimBundle(p)
        \/ SendSteps(p)
        \/ \E e \in net[p], acked \in BOOLEAN : InOrder(p, e) /\ Handle(p, e, acked)
        \/ \E acked \in BOOLEAN :
             rx[p] # Rest /\ (acked \/ Repeatable(rx[p].env)) /\ Conclude(p, acked)
        \/ rx[p] = Rest /\ (Add(p) \/ Remove(p))
        \/ FinishAdd(p)
        \/ rx[p] = Rest /\ cmd[p].pc # "adding" /\ Interrupt(p)
  BY DEF CalmNext
<1>2. CASE ~HandshakeUnderWay(p) /\ ClaimBundle(p)
  BY <1>2, ClaimMeets
<1>3. CASE SendSteps(p)
  BY <1>3, PostMeets, SendMeets, StoreMeets DEF SendSteps
<1>4. CASE \E e \in net[p], acked \in BOOLEAN : InOrder(p, e) /\ Handle(p, e, acked)
  BY <1>4, BeginMeets, RejectMeets, ReadMeets DEF Handle
<1>5. CASE \E acked \in BOOLEAN :
             rx[p] # Rest /\ (acked \/ Repeatable(rx[p].env)) /\ Conclude(p, acked)
  BY <1>5, ConcludeMeets
<1>6. CASE rx[p] = Rest /\ (Add(p) \/ Remove(p))
  BY <1>6, AddMeets, RemoveMeets
<1>7. CASE FinishAdd(p)
  BY <1>7, FinishAddMeets
<1>8. CASE rx[p] = Rest /\ cmd[p].pc # "adding" /\ Interrupt(p)
  BY <1>8, InterruptMeets
<1>9. QED
  BY <1>1, <1>2, <1>3, <1>4, <1>5, <1>6, <1>7, <1>8

LEMMA CalmIsNext == CalmNext => Next
<1> SUFFICES ASSUME CalmNext PROVE Next
  OBVIOUS
<1>1. PICK p \in Device :
        \/ ClaimBundle(p) \/ SendSteps(p)
        \/ \E e \in net[p], acked \in BOOLEAN : Handle(p, e, acked)
        \/ \E acked \in BOOLEAN : Conclude(p, acked)
        \/ Add(p) \/ Remove(p) \/ FinishAdd(p) \/ Interrupt(p)
  BY DEF CalmNext
<1>2. QED
  BY <1>1 DEF Next

(* In the calm environment (see CalmNext) a handshake is handled in one go
   and in its turn, only one side begins one at a time, and what either side
   has, awaits or holds a request of is the same handshake. *)
THEOREM MeetHolds == CalmSpec => [](IInv /\ MeetInv)
<1>1. Init => IInv /\ MeetInv
  BY InitHolds, MeetInit
<1>2. IInv /\ MeetInv /\ [CalmNext]_vars => (IInv /\ MeetInv)'
  BY StutterHolds, StepHolds, CalmIsNext, MeetStutter, MeetStep
<1>3. QED
  BY <1>1, <1>2, PTL DEF CalmSpec

(* MESSAGES.md, E505: whoever has lost a session and writes runs a fresh
   PQ-KX handshake and re-syncs both sides.  Once the mail is handled, two
   sessions that exist on both sides are one session. *)
THEOREM PeersMeet == CalmSpec => []SessionsMeet
<1>1. MeetInv => SessionsMeet
  <2> SUFFICES ASSUME MeetInv, Settled, \A p \in Device : Established(p), NEW p \in Device
               PROVE  session[p].kx = session[Other(p)].kx
    BY DEF SessionsMeet
  <2>1. \A r \in Device : session[r].kx \in Due(r)
    <3> SUFFICES ASSUME NEW r \in Device PROVE session[r].kx \in Due(r)
      OBVIOUS
    <3>1. session[r].kx # 0
      BY DEF MeetInv, ContactFirst, Established
    <3>2. Unhandled(r) = {} /\ cmd[r].pc # "posted"
      BY DEF Settled, Unhandled, Rest
    <3>3. QED
      BY <3>1, <3>2 DEF Due
  <2>2. QED
    BY <2>1, OtherDevice DEF MeetInv
<1>2. QED
  BY MeetHolds, <1>1, PTL

-----------------------------------------------------------------------------
(* Two lanes over one stored record.  Ratchet's theorems are taken over, for
   the mail that waits at the server or is on its way there. *)
RP == INSTANCE RatchetProofs WITH net <- Waiting, serial <- saved, calm <- FALSE

(* The operators of RatchetOps are the same through either instance. *)
LEMMA SameRoles ==
  /\ Role = RP!Role /\ Role = R!Role
  /\ \A r : Peer(r) = RP!Peer(r) /\ Peer(r) = R!Peer(r)
  /\ \A r : InitRatchet(r) = RP!InitRatchet(r) /\ InitRatchet(r) = R!InitRatchet(r)
  BY DEF Role, RP!Role, R!Role, Peer, RP!Peer, R!Peer, InitRatchet,
         RP!InitRatchet, R!InitRatchet, NoKey, RP!NoKey, R!NoKey

LEMMA SameEncrypt ==
  ASSUME NEW s, NEW id
  PROVE  Encrypt(s, id) = RP!Encrypt(s, id) /\ Encrypt(s, id) = R!Encrypt(s, id)
  <1>1. Encrypt(s, id) = RP!Encrypt(s, id)
    BY DEF Encrypt, RP!Encrypt, MakeOffer, RP!MakeOffer, StartTurn, RP!StartTurn,
           Accepts, RP!Accepts, FreshOffer, RP!FreshOffer, NewTurn, RP!NewTurn,
           RootStep, RP!RootStep, NoKey, RP!NoKey
  <1>2. Encrypt(s, id) = R!Encrypt(s, id)
    BY DEF Encrypt, R!Encrypt, MakeOffer, R!MakeOffer, StartTurn, R!StartTurn,
           Accepts, R!Accepts, FreshOffer, R!FreshOffer, NewTurn, R!NewTurn,
           RootStep, R!RootStep, NoKey, R!NoKey
  <1> QED
    BY <1>1, <1>2

LEMMA SameDecrypt ==
  ASSUME NEW s, NEW m
  PROVE  /\ Decrypts(s, m) <=> RP!Decrypts(s, m)
         /\ Decrypts(s, m) <=> R!Decrypts(s, m)
         /\ Decrypt(s, m) = RP!Decrypt(s, m) /\ Decrypt(s, m) = R!Decrypt(s, m)
  <1>1. /\ InCache(s, m) <=> RP!InCache(s, m)
        /\ InCache(s, m) <=> R!InCache(s, m)
        /\ UsesNext(s, m) <=> RP!UsesNext(s, m)
        /\ UsesNext(s, m) <=> R!UsesNext(s, m)
        /\ Readable(s, m) <=> RP!Readable(s, m)
        /\ Readable(s, m) <=> R!Readable(s, m)
        /\ IsAccept(m) <=> RP!IsAccept(m)
        /\ IsAccept(m) <=> R!IsAccept(m)
        /\ CacheEntry(s, m) = RP!CacheEntry(s, m)
        /\ CacheEntry(s, m) = R!CacheEntry(s, m)
    BY DEF InCache, RP!InCache, R!InCache, UsesNext, RP!UsesNext, R!UsesNext,
           UsesCurrent, RP!UsesCurrent, R!UsesCurrent, Readable, RP!Readable,
           R!Readable, IsAccept, RP!IsAccept, R!IsAccept, NoKey, RP!NoKey, R!NoKey,
           CacheEntry, RP!CacheEntry, R!CacheEntry
  <1>2. \A u, n : /\ SkipTo(u, n) = RP!SkipTo(u, n) /\ SkipTo(u, n) = R!SkipTo(u, n)
                  /\ SkipFits(u, n) <=> RP!SkipFits(u, n)
                  /\ SkipFits(u, n) <=> R!SkipFits(u, n)
    <2> SUFFICES ASSUME NEW u, NEW n
                 PROVE  /\ SkipTo(u, n) = RP!SkipTo(u, n) /\ SkipTo(u, n) = R!SkipTo(u, n)
                        /\ SkipFits(u, n) <=> RP!SkipFits(u, n)
                        /\ SkipFits(u, n) <=> R!SkipFits(u, n)
      OBVIOUS
    <2>1. Gap(u, n) = RP!Gap(u, n) /\ Gap(u, n) = R!Gap(u, n)
      BY Zenon DEF Gap, RP!Gap, R!Gap
    <2>2. SkipTo(u, n) = RP!SkipTo(u, n) /\ SkipTo(u, n) = R!SkipTo(u, n)
      BY <2>1 DEF SkipTo, RP!SkipTo, R!SkipTo
    <2>3. (SkipFits(u, n) <=> RP!SkipFits(u, n)) /\ (SkipFits(u, n) <=> R!SkipFits(u, n))
      BY Zenon DEF SkipFits, RP!SkipFits, R!SkipFits, Cardinality, R!Cardinality,
                   RP!Cardinality
    <2> QED
      BY <2>2, <2>3
  <1>3. Scratch(s, m) = RP!Scratch(s, m) /\ Scratch(s, m) = R!Scratch(s, m)
    <2>1. EnterTurn(s, m) = RP!EnterTurn(s, m) /\ EnterTurn(s, m) = R!EnterTurn(s, m)
      BY <1>1 DEF EnterTurn, RP!EnterTurn, R!EnterTurn
    <2>2. \A u : /\ RollReceiving(u, m) = RP!RollReceiving(u, m)
                 /\ RollReceiving(u, m) = R!RollReceiving(u, m)
      BY DEF RollReceiving, RP!RollReceiving, R!RollReceiving, RootStep,
             RP!RootStep, R!RootStep, Decapsulate, RP!Decapsulate, R!Decapsulate
    <2> QED
      BY <1>1, <1>2, <2>1, <2>2 DEF Scratch, RP!Scratch, R!Scratch
  <1>4. /\ OpensAhead(s, m) <=> RP!OpensAhead(s, m)
        /\ OpensAhead(s, m) <=> R!OpensAhead(s, m)
    BY <1>1, <1>2, <1>3 DEF OpensAhead, RP!OpensAhead, R!OpensAhead,
                            NoKey, RP!NoKey, R!NoKey
  <1>5. Advance(s, m) = RP!Advance(s, m) /\ Advance(s, m) = R!Advance(s, m)
    BY <1>2, <1>3 DEF Advance, RP!Advance, R!Advance, NoKey, RP!NoKey, R!NoKey
  <1> QED
    BY <1>1, <1>4, <1>5
       DEF Decrypts, RP!Decrypts, R!Decrypts, OpensFromCache, RP!OpensFromCache,
           R!OpensFromCache, Decrypt, RP!Decrypt, R!Decrypt,
           ServeFromCache, RP!ServeFromCache, R!ServeFromCache

LEMMA SameBounds == RP!RatchetBounds /\ RP!MaxSentType
  BY RatchetBounds, LanesBounds, SameRoles

LEMMA SameSpec ==
  /\ R!Init <=> RP!Init
  /\ [R!Next]_R!vars <=> [RP!Next]_RP!vars
  <1>1. R!Init <=> RP!Init
    BY SameRoles DEF R!Init, RP!Init, Waiting
  <1>2. R!vars = RP!vars /\ (R!vars)' = (RP!vars)'
    BY DEF R!vars, RP!vars, Waiting
  <1>3. ASSUME NEW r, NEW b PROVE R!SendStep(r, b) <=> RP!SendStep(r, b)
    <2>1. R!Encrypt(st[r], saved[r] + 1) = RP!Encrypt(st[r], saved[r] + 1)
      BY SameEncrypt
    <2>2. R!Peer(r) = RP!Peer(r)
      BY SameRoles
    <2> QED
      BY <2>1, <2>2 DEF R!SendStep, RP!SendStep, Waiting
  <1>4. ASSUME NEW r, NEW m, NEW b PROVE R!Receive(r, m, b) <=> RP!Receive(r, m, b)
    BY SameRoles, SameDecrypt DEF R!Receive, RP!Receive, Waiting
  <1>5. ASSUME NEW r, NEW m PROVE R!Expire(r, m) <=> RP!Expire(r, m)
    BY DEF R!Expire, RP!Expire, Waiting
  <1>6. R!Next <=> RP!Next
    BY SameRoles, <1>3, <1>4, <1>5 DEF R!Next, RP!Next, R!Send, RP!Send,
       R!SendFails, RP!SendFails, Waiting
  <1> QED
    BY <1>1, <1>2, <1>6

LEMMA SameTypes == Session = RP!Session /\ Message = RP!Message
  <1>1. Role = RP!Role /\ Secret = RP!Secret /\ Root = RP!Root
    BY DEF Role, RP!Role, Secret, RP!Secret, Root, RP!Root
  <1>2. SkipEntry = RP!SkipEntry
    BY <1>1 DEF SkipEntry, RP!SkipEntry
  <1> QED
    BY <1>1, <1>2 DEF Session, RP!Session, Message, RP!Message

-----------------------------------------------------------------------------
(* The invariant: what Lanes says, and Ratchet's own. *)
ApartInv == LanesTyped /\ LanesApart /\ Lanes /\ RP!OpenInv

LEMMA PeerOf ==
  \A r \in Role : /\ Peer(r) \in Role /\ Peer(r) # r /\ Peer(Peer(r)) = r
                  /\ \A q \in Role : q = r \/ q = Peer(r)
  BY DEF Peer, Role

LEMMA Shapes ==
  ASSUME LanesTyped, NEW r \in Role
  PROVE  /\ sending[r].pc \in {"rest", "loaded", "posting"}
         /\ sending[r].pc = "loaded" => sending[r].session \in Session
         /\ sending[r].pc = "posting" => sending[r].msg \in Message
         /\ receiving[r].pc \in {"rest", "loaded", "opened"}
         /\ receiving[r].pc = "loaded" => receiving[r].session \in Session
         /\ receiving[r].pc # "rest" => receiving[r].msg \in Message
         /\ AtRest.pc = "rest"
  <1>1. sending[r] \in CommandLane /\ receiving[r] \in ReceiveLane
    BY DEF LanesTyped
  <1> QED
    BY <1>1 DEF CommandLane, ReceiveLane, AtRest

(* What Ratchet's invariant gives. *)
LEMMA FromRatchet ==
  ASSUME ApartInv, NEW r \in Role
  PROVE  /\ \A a \in sent[r] : a.id <= saved[r]
         /\ \A m \in got[r] : ~Decrypts(st[r], m)
         /\ st[r] \in Session /\ st[r].role = r /\ saved[r] \in Nat
         /\ sent[r] \subseteq Message /\ got[r] \subseteq Message
  <1>1. r \in RP!Role
    BY SameRoles
  <1>2. RP!IInv
    BY DEF ApartInv, RP!OpenInv
  <1>3. \A a \in sent[r] : a.id <= saved[r]
    BY <1>1 DEF ApartInv, RP!OpenInv, RP!Letters
  <1>4. \A m \in got[r] : ~Decrypts(st[r], m)
    BY <1>1, <1>2, RP!ReadIsSpent, SameBounds, SameDecrypt DEF RP!SpentOnce
  <1>5. st[r].role = r
    BY <1>1, <1>2 DEF RP!IInv, RP!Bookkeeping
  <1> QED
    BY <1>3, <1>4, <1>5 DEF ApartInv, LanesTyped

(* Ratchet's view of a step: its variables stay as they are, or it sends,
   reads or loses an envelope. *)
LEMMA Unseen ==
  ASSUME UNCHANGED <<st, saved, sent, got, Waiting>>
  PROVE  [RP!Next]_RP!vars
  BY DEF RP!vars

LEMMA SeenAsReceive ==
  ASSUME ApartInv, NEW r \in Role, NEW m \in queued[r], NEW acked \in BOOLEAN,
         UNCHANGED <<saved, sent, sending>>,
         IF Decrypts(st[r], m)
         THEN /\ st' = [st EXCEPT ![r] = Decrypt(st[r], m)]
              /\ got' = [got EXCEPT ![r] = got[r] \cup {m}]
         ELSE st' = st /\ got' = got,
         queued' = IF acked THEN [queued EXCEPT ![r] = @ \ {m}] ELSE queued
  PROVE  RP!Next
  <1>1. r \in RP!Role /\ m \in Waiting[r]
    BY SameRoles DEF Waiting
  <1>2. Waiting' = IF acked THEN [Waiting EXCEPT ![r] = @ \ {m}] ELSE Waiting
    <2>1. \A q \in Role : OnTheWire(q)' = OnTheWire(q)
      BY DEF OnTheWire
    <2>2. m \notin OnTheWire(Peer(r))
      BY PeerOf DEF ApartInv, Lanes, OnTheWire
    <2>3. ASSUME NEW q \in Role
          PROVE  (queued[q] \cup OnTheWire(Peer(q)))' =
                   IF acked /\ q = r THEN (queued[q] \cup OnTheWire(Peer(q))) \ {m}
                                     ELSE queued[q] \cup OnTheWire(Peer(q))
      BY <2>1, <2>2, PeerOf DEF ApartInv, LanesTyped
    <2> QED
      BY <2>3 DEF Waiting
  <1>3. RP!Receive(r, m, acked)
    BY <1>1, <1>2, SameDecrypt DEF RP!Receive
  <1> QED
    BY <1>1, <1>3 DEF RP!Next

LEMMA SeenAsExpiry ==
  ASSUME ApartInv, NEW r \in Role, sending[r].pc = "posting",
         UNCHANGED <<st, saved, sent, got, queued>>,
         sending' = [sending EXCEPT ![r] = AtRest]
  PROVE  RP!Next
  <1> DEFINE p == Peer(r)
             m == sending[r].msg
  <1>1. p \in RP!Role /\ m \in Waiting[p]
    BY SameRoles, PeerOf DEF Waiting, OnTheWire
  <1>2. Waiting' = [Waiting EXCEPT ![p] = @ \ {m}]
    <2>1. OnTheWire(r) = {m} /\ OnTheWire(r)' = {} /\ OnTheWire(p)' = OnTheWire(p)
      <3>1. sending'[r] = AtRest /\ sending'[p] = sending[p]
        BY PeerOf DEF ApartInv, LanesTyped
      <3>2. AtRest.pc = "rest"
        BY DEF AtRest
      <3> QED
        BY <3>1, <3>2 DEF OnTheWire
    <2>2. m \notin queued[p]
      BY DEF ApartInv, Lanes
    <2>3. ASSUME NEW q \in Role
          PROVE  (queued[q] \cup OnTheWire(Peer(q)))' =
                   IF q = p THEN (queued[q] \cup OnTheWire(Peer(q))) \ {m}
                            ELSE queued[q] \cup OnTheWire(Peer(q))
      <3>1. CASE q = p
        BY <2>1, <2>2, <3>1, PeerOf
      <3>2. CASE q # p
        BY <2>1, <3>2, PeerOf
      <3> QED
        BY <3>1, <3>2
    <2> QED
      BY <2>3 DEF Waiting
  <1>3. RP!Expire(p, m)
    BY <1>1, <1>2 DEF RP!Expire
  <1> QED
    BY <1>1, <1>3 DEF RP!Next

(* Each action keeps what Lanes says, and is a step of Ratchet or none. *)
LEMMA LoadToSendKeeps ==
  ASSUME ApartInv, NEW r \in Role, LoadToSend(r)
  PROVE  LanesTyped' /\ Lanes' /\ [RP!Next]_RP!vars
  <1>1. /\ sending'[r] = Loaded(st[r]) /\ \A q \in Role : q # r => sending'[q] = sending[q]
        /\ UNCHANGED <<st, receiving, queued, saved, sent, got, crashes>>
        /\ saved[r] < MaxSent[r] /\ sending[r].pc = "rest"
    BY Shapes DEF LoadToSend, ApartInv, LanesTyped
  <1>2. Loaded(st[r]) \in CommandLane
    BY DEF Loaded, CommandLane, ApartInv, LanesTyped
  <1>3. LanesTyped'
    BY <1>1, <1>2 DEF LoadToSend, ApartInv, LanesTyped
  <1>4. Lanes'
    BY <1>1, PeerOf DEF ApartInv, Lanes, Holding, Loaded
  <1>5. Waiting' = Waiting
    <2>1. \A q \in Role : OnTheWire(q)' = OnTheWire(q)
      BY <1>1 DEF OnTheWire, Loaded
    <2> QED
      BY <1>1, <2>1, PeerOf DEF Waiting
  <1> QED
    BY <1>1, <1>3, <1>4, <1>5, Unseen

LEMMA SaveSendKeeps ==
  ASSUME ApartInv, NEW r \in Role, SaveSend(r)
  PROVE  LanesTyped' /\ Lanes' /\ [RP!Next]_RP!vars
  <1> DEFINE p == Peer(r)
             id == saved[r] + 1
             enc == Encrypt(st[r], id)
             m == enc.msg
  <1>1. /\ sending[r].session = st[r] /\ saved[r] < MaxSent[r] /\ ~Holding(receiving[r])
        /\ sending[r].pc = "loaded"
    BY DEF SaveSend, ApartInv, Lanes, LanesApart, Holding
  <1>2. /\ st[r] \in Session /\ st[r].role = r /\ id \in Nat \ {0} /\ saved[r] \in Nat
        /\ \A a \in sent[r] : a.id <= saved[r]
    BY FromRatchet
  <1>3. enc.state \in Session /\ m \in Message /\ m.id = id
    <2> HIDE DEF id
    <2>1. enc = RP!Encrypt(st[r], id)
      BY SameEncrypt
    <2> QED
      BY <1>2, <2>1, SameTypes, SameBounds, RP!EncryptType, RP!EncryptEffect
  <1>4. /\ st' = [st EXCEPT ![r] = enc.state]
        /\ saved' = [saved EXCEPT ![r] = id]
        /\ sent' = [sent EXCEPT ![r] = @ \cup {m}]
        /\ sending' = [sending EXCEPT ![r] = Posting(m)]
        /\ UNCHANGED <<receiving, queued, got, crashes>>
    BY <1>1 DEF SaveSend, ApartInv, LanesTyped
  <1> HIDE DEF enc, m, id
  <1>5. m \notin sent[r]
    BY <1>2, <1>3 DEF id
  <1>6. LanesTyped'
    <2>1. Posting(m) \in CommandLane
      BY <1>3 DEF Posting, CommandLane
    <2> QED
      BY <1>2, <1>3, <1>4, <2>1 DEF ApartInv, LanesTyped
  <1>7. /\ st'[r] = enc.state /\ sent'[r] = sent[r] \cup {m} /\ sending'[r] = Posting(m)
        /\ \A q \in Role : q # r => /\ st'[q] = st[q] /\ sent'[q] = sent[q]
                                   /\ sending'[q] = sending[q] /\ saved'[q] = saved[q]
    BY <1>4 DEF ApartInv, LanesTyped
  <1>8. Posting(m).pc = "posting" /\ Posting(m).msg = m
    BY DEF Posting
  <1>9. Lanes'
    <2>1. ~Holding(Posting(m))
      BY <1>8 DEF Holding
    <2>2. queued[p] \subseteq sent[r]
      BY PeerOf DEF ApartInv, Lanes
    <2> SUFFICES ASSUME NEW q \in Role
                 PROVE  /\ Holding(sending'[q]) =>
                             sending'[q].session = st'[q] /\ saved'[q] < MaxSent[q]
                        /\ sending'[q].pc = "posting" =>
                             sending'[q].msg \in sent'[q] \ queued'[Peer(q)]
                        /\ Holding(receiving'[q]) => receiving'[q].session = st'[q]
                        /\ receiving'[q].pc # "rest" => receiving'[q].msg \in queued'[q]
                        /\ receiving'[q].pc = "opened" => receiving'[q].msg \in got'[q]
                        /\ queued'[q] \subseteq sent'[Peer(q)]
      BY DEF Lanes, Holding
    <2>3. /\ Holding(sending[q]) => sending[q].session = st[q] /\ saved[q] < MaxSent[q]
          /\ sending[q].pc = "posting" => sending[q].msg \in sent[q] \ queued[Peer(q)]
          /\ Holding(receiving[q]) => receiving[q].session = st[q]
          /\ receiving[q].pc # "rest" => receiving[q].msg \in queued[q]
          /\ receiving[q].pc = "opened" => receiving[q].msg \in got[q]
          /\ queued[q] \subseteq sent[Peer(q)]
      BY DEF ApartInv, Lanes
    <2>4. queued'[q] \subseteq sent'[Peer(q)]
      BY <1>4, <1>7, <2>3, PeerOf
    <2>5. CASE q = r
      BY <1>1, <1>4, <1>5, <1>7, <1>8, <2>1, <2>2, <2>3, <2>4, <2>5
    <2>6. CASE q # r
      BY <1>4, <1>7, <2>3, <2>4, <2>6
    <2> QED
      BY <2>5, <2>6
  <1>10. Waiting' = [Waiting EXCEPT ![p] = @ \cup {m}]
    <2>1. OnTheWire(r) = {} /\ OnTheWire(r)' = {m} /\ OnTheWire(p)' = OnTheWire(p)
      BY <1>1, <1>7, <1>8, PeerOf DEF OnTheWire
    <2>2. ASSUME NEW q \in Role
          PROVE  (queued[q] \cup OnTheWire(Peer(q)))' =
                   IF q = p THEN (queued[q] \cup OnTheWire(Peer(q))) \cup {m}
                            ELSE queued[q] \cup OnTheWire(Peer(q))
      <3>1. CASE q = p
        BY <1>4, <2>1, <3>1, PeerOf
      <3>2. CASE q # p
        BY <1>4, <2>1, <3>2, PeerOf
      <3> QED
        BY <3>1, <3>2
    <2> QED
      BY <2>2 DEF Waiting
  <1>11. RP!SendStep(r, TRUE)
    <2>1. RP!Encrypt(st[r], saved[r] + 1) = enc /\ RP!Peer(r) = p
      BY SameEncrypt, SameRoles DEF enc, id
    <2> QED
      BY <1>1, <1>4, <1>10, <2>1 DEF RP!SendStep, m, id
  <1>12. RP!Next
    BY <1>11, SameRoles DEF RP!Next, RP!Send
  <1> QED
    BY <1>6, <1>9, <1>12

LEMMA PostKeeps ==
  ASSUME ApartInv, NEW r \in Role, NEW accepted \in BOOLEAN, Post(r, accepted)
  PROVE  LanesTyped' /\ Lanes' /\ [RP!Next]_RP!vars
  <1> DEFINE p == Peer(r)
             m == sending[r].msg
  <1>1. /\ sending[r].pc = "posting" /\ m \in Message /\ m \in sent[r] \ queued[p]
        /\ p \in Role
    BY Shapes, PeerOf DEF Post, ApartInv, Lanes
  <1>2. /\ sending' = [sending EXCEPT ![r] = AtRest]
        /\ sending'[r] = AtRest /\ \A q \in Role : q # r => sending'[q] = sending[q]
        /\ UNCHANGED <<st, receiving, saved, sent, got, crashes>>
        /\ queued' = IF accepted THEN [queued EXCEPT ![p] = @ \cup {m}] ELSE queued
    BY DEF Post, ApartInv, LanesTyped
  <1>3. LanesTyped'
    <2>1. AtRest \in CommandLane
      BY DEF CommandLane
    <2> QED
      BY <1>1, <1>2, <2>1 DEF ApartInv, LanesTyped
  <1>4. AtRest.pc = "rest" /\ ~Holding(AtRest)
    BY DEF AtRest, Holding
  <1>5. /\ queued'[p] \in {queued[p], queued[p] \cup {m}}
        /\ \A q \in Role : q # p => queued'[q] = queued[q]
    BY <1>1, <1>2 DEF ApartInv, LanesTyped
  <1> HIDE DEF m
  <1>6. Lanes'
    <2> SUFFICES ASSUME NEW q \in Role
                 PROVE  /\ Holding(sending'[q]) =>
                             sending'[q].session = st'[q] /\ saved'[q] < MaxSent[q]
                        /\ sending'[q].pc = "posting" =>
                             sending'[q].msg \in sent'[q] \ queued'[Peer(q)]
                        /\ Holding(receiving'[q]) => receiving'[q].session = st'[q]
                        /\ receiving'[q].pc # "rest" => receiving'[q].msg \in queued'[q]
                        /\ receiving'[q].pc = "opened" => receiving'[q].msg \in got'[q]
                        /\ queued'[q] \subseteq sent'[Peer(q)]
      BY DEF Lanes, Holding
    <2>1. /\ Holding(sending[q]) => sending[q].session = st[q] /\ saved[q] < MaxSent[q]
          /\ sending[q].pc = "posting" => sending[q].msg \in sent[q] \ queued[Peer(q)]
          /\ Holding(receiving[q]) => receiving[q].session = st[q]
          /\ receiving[q].pc # "rest" => receiving[q].msg \in queued[q]
          /\ receiving[q].pc = "opened" => receiving[q].msg \in got[q]
          /\ queued[q] \subseteq sent[Peer(q)]
      BY DEF ApartInv, Lanes
    <2>2. CASE q = r
      BY <1>2, <1>4, <1>5, <2>1, <2>2, PeerOf
    <2>3. CASE q = p
      BY <1>1, <1>2, <1>5, <2>1, <2>3, PeerOf
    <2> QED
      BY <2>2, <2>3, PeerOf
  <1>7. CASE accepted
    <2>1. OnTheWire(r) = {m} /\ OnTheWire(r)' = {} /\ OnTheWire(p)' = OnTheWire(p)
      BY <1>1, <1>2, <1>4, PeerOf DEF OnTheWire, m
    <2>2. queued'[p] = queued[p] \cup {m}
      BY <1>1, <1>2, <1>7 DEF ApartInv, LanesTyped
    <2>3. ASSUME NEW q \in Role
          PROVE  (queued[q] \cup OnTheWire(Peer(q)))' = queued[q] \cup OnTheWire(Peer(q))
      <3>1. CASE q = p
        BY <2>1, <2>2, <3>1, PeerOf
      <3>2. CASE q # p
        BY <1>5, <2>1, <3>2, PeerOf
      <3> QED
        BY <3>1, <3>2
    <2>4. Waiting' = Waiting
      BY <2>3 DEF Waiting
    <2> QED
      BY <1>2, <1>3, <1>6, <2>4, Unseen
  <1>8. CASE ~accepted
    BY <1>1, <1>2, <1>3, <1>6, <1>8, SeenAsExpiry
  <1> QED
    BY <1>7, <1>8

LEMMA LoadToReadKeeps ==
  ASSUME ApartInv, NEW r \in Role, NEW m \in queued[r], LoadToRead(r, m)
  PROVE  LanesTyped' /\ Lanes' /\ [RP!Next]_RP!vars
  <1>1. /\ receiving'[r] = LoadedFor(st[r], m)
        /\ \A q \in Role : q # r => receiving'[q] = receiving[q]
        /\ UNCHANGED <<st, sending, queued, saved, sent, got, crashes>>
    BY DEF LoadToRead, ApartInv, LanesTyped
  <1>2. m \in Message /\ LoadedFor(st[r], m) \in ReceiveLane
    BY DEF LoadedFor, ReceiveLane, ApartInv, LanesTyped
  <1>3. LanesTyped'
    BY <1>1, <1>2 DEF LoadToRead, ApartInv, LanesTyped
  <1>4. Lanes'
    BY <1>1, PeerOf DEF ApartInv, Lanes, Holding, LoadedFor
  <1>5. Waiting' = Waiting
    BY <1>1 DEF Waiting, OnTheWire
  <1> QED
    BY <1>1, <1>3, <1>4, <1>5, Unseen

LEMMA SaveReadKeeps ==
  ASSUME ApartInv, NEW r \in Role, SaveRead(r)
  PROVE  LanesTyped' /\ Lanes' /\ [RP!Next]_RP!vars
  <1> DEFINE m == receiving[r].msg
             t == Decrypt(st[r], m)
  <1>1. /\ receiving[r].session = st[r] /\ ~Holding(sending[r]) /\ receiving[r].pc = "loaded"
        /\ m \in queued[r] /\ m \in Message
    BY Shapes DEF SaveRead, ApartInv, Lanes, LanesApart, Holding
  <1>2. Decrypts(st[r], m) /\ st[r] \in Session
    BY <1>1 DEF SaveRead, ApartInv, LanesTyped
  <1>3. t \in Session
    BY <1>1, <1>2, SameTypes, SameDecrypt, SameBounds, RP!DecryptType
  <1>4. /\ st' = [st EXCEPT ![r] = t]
        /\ got' = [got EXCEPT ![r] = @ \cup {m}]
        /\ receiving' = [receiving EXCEPT ![r] = Opened(m)]
        /\ UNCHANGED <<sending, queued, saved, sent, crashes>>
    BY <1>1 DEF SaveRead
  <1> HIDE DEF m, t
  <1>5. LanesTyped'
    <2>1. Opened(m) \in ReceiveLane
      BY <1>1 DEF Opened, ReceiveLane
    <2> QED
      BY <1>1, <1>3, <1>4, <2>1 DEF ApartInv, LanesTyped
  <1>6. /\ st'[r] = t /\ got'[r] = got[r] \cup {m} /\ receiving'[r] = Opened(m)
        /\ \A q \in Role : q # r =>
             st'[q] = st[q] /\ got'[q] = got[q] /\ receiving'[q] = receiving[q]
        /\ Opened(m).pc = "opened" /\ Opened(m).msg = m
    BY <1>4 DEF ApartInv, LanesTyped, Opened
  <1>7. Lanes'
    BY <1>1, <1>4, <1>6 DEF ApartInv, Lanes, Holding
  <1>8. RP!Next
    BY <1>1, <1>2, <1>4, SeenAsReceive DEF t
  <1> QED
    BY <1>5, <1>7, <1>8

LEMMA AcknowledgeKeeps ==
  ASSUME ApartInv, NEW r \in Role, NEW acked \in BOOLEAN,
         receiving[r].pc # "rest", ~Decrypts(st[r], receiving[r].msg),
         Acknowledge(r, receiving[r].msg, acked)
  PROVE  LanesTyped' /\ Lanes' /\ [RP!Next]_RP!vars
  <1> DEFINE m == receiving[r].msg
  <1>1. m \in queued[r] /\ m \in Message
    BY Shapes DEF ApartInv, Lanes
  <1>2. /\ queued' = IF acked THEN [queued EXCEPT ![r] = @ \ {m}] ELSE queued
        /\ receiving' = [receiving EXCEPT ![r] = AtRest]
        /\ UNCHANGED <<st, sending, saved, sent, got, crashes>>
    BY DEF Acknowledge
  <1> HIDE DEF m
  <1>3. LanesTyped'
    <2>1. AtRest \in ReceiveLane
      BY DEF ReceiveLane
    <2> QED
      BY <1>2, <2>1 DEF ApartInv, LanesTyped
  <1>4. /\ receiving'[r] = AtRest
        /\ \A q \in Role : q # r => receiving'[q] = receiving[q] /\ queued'[q] = queued[q]
        /\ queued'[r] \subseteq queued[r]
        /\ AtRest.pc = "rest"
    BY <1>2 DEF ApartInv, LanesTyped, AtRest
  <1>5. Lanes'
    <2>1. \A q \in Role : queued'[q] \subseteq queued[q]
      BY <1>4
    <2> QED
      BY <1>2, <1>4, <2>1, PeerOf DEF ApartInv, Lanes, Holding
  <1>6. RP!Next
    BY <1>1, <1>2, SeenAsReceive DEF m
  <1> QED
    BY <1>3, <1>5, <1>6

LEMMA CrashKeeps ==
  ASSUME ApartInv, NEW r \in Role, Crash(r)
  PROVE  LanesTyped' /\ Lanes' /\ [RP!Next]_RP!vars
  <1>1. /\ sending' = [sending EXCEPT ![r] = AtRest]
        /\ receiving' = [receiving EXCEPT ![r] = AtRest]
        /\ sending'[r] = AtRest /\ receiving'[r] = AtRest
        /\ \A q \in Role : q # r => sending'[q] = sending[q] /\ receiving'[q] = receiving[q]
        /\ UNCHANGED <<st, queued, saved, sent, got>>
        /\ crashes' = crashes + 1 /\ crashes < MaxCrashes
    BY DEF Crash, ApartInv, LanesTyped
  <1>2. LanesTyped'
    <2>1. AtRest \in CommandLane /\ AtRest \in ReceiveLane
      BY DEF CommandLane, ReceiveLane
    <2>2. crashes + 1 \in 0 .. MaxCrashes
      BY <1>1, LanesBounds DEF ApartInv, LanesTyped
    <2> QED
      BY <1>1, <2>1, <2>2 DEF ApartInv, LanesTyped
  <1>3. AtRest.pc = "rest"
    BY DEF AtRest
  <1>4. Lanes'
    BY <1>1, <1>3 DEF ApartInv, Lanes, Holding
  <1>5. CASE sending[r].pc = "posting"
    BY <1>1, <1>2, <1>4, <1>5, SeenAsExpiry
  <1>6. CASE sending[r].pc # "posting"
    <2>1. \A q \in Role : OnTheWire(q)' = OnTheWire(q)
      BY <1>1, <1>3, <1>6 DEF OnTheWire
    <2>2. Waiting' = Waiting
      BY <1>1, <2>1, PeerOf DEF Waiting
    <2> QED
      BY <1>1, <1>2, <1>4, <2>2, Unseen
  <1> QED
    BY <1>5, <1>6

LEMMA ApartStep ==
  ApartInv /\ [LanesNext /\ LanesApart']_lanesVars => ApartInv' /\ [RP!Next]_RP!vars
  <1> SUFFICES ASSUME ApartInv, [LanesNext /\ LanesApart']_lanesVars
               PROVE  LanesTyped' /\ LanesApart' /\ Lanes' /\ [RP!Next]_RP!vars
    BY RP!NextOpen, SameBounds DEF ApartInv
  <1>1. CASE UNCHANGED lanesVars
    <2>1. Waiting' = Waiting
      BY <1>1 DEF lanesVars, Waiting, OnTheWire
    <2>2. [RP!Next]_RP!vars
      BY <1>1, <2>1, Unseen DEF lanesVars
    <2> QED
      BY <1>1, <2>2 DEF lanesVars, ApartInv, LanesTyped, LanesApart, Lanes, Holding
  <1>2. CASE LanesNext /\ LanesApart'
    <2>1. PICK r \in Role : CommandStep(r) \/ ReceiveStep(r) \/ Crash(r)
      BY <1>2 DEF LanesNext
    <2>2. CASE LoadToSend(r)
      BY <1>2, <2>2, LoadToSendKeeps
    <2>3. CASE SaveSend(r)
      BY <1>2, <2>3, SaveSendKeeps
    <2>4. ASSUME NEW accepted \in BOOLEAN, Post(r, accepted)
          PROVE  LanesTyped' /\ Lanes' /\ [RP!Next]_RP!vars
      BY <2>4, PostKeeps
    <2>5. ASSUME NEW m \in queued[r], LoadToRead(r, m)
          PROVE  LanesTyped' /\ Lanes' /\ [RP!Next]_RP!vars
      BY <2>5, LoadToReadKeeps
    <2>6. CASE SaveRead(r)
      BY <1>2, <2>6, SaveReadKeeps
    <2>7. ASSUME NEW acked \in BOOLEAN, Discard(r, acked)
          PROVE  LanesTyped' /\ Lanes' /\ [RP!Next]_RP!vars
      <3>1. receiving[r].pc # "rest" /\ receiving[r].session = st[r]
        BY <2>7 DEF Discard, Holding, ApartInv, Lanes
      <3> QED
        BY <2>7, <3>1, AcknowledgeKeeps DEF Discard
    <2>8. ASSUME NEW acked \in BOOLEAN, AckRead(r, acked)
          PROVE  LanesTyped' /\ Lanes' /\ [RP!Next]_RP!vars
      <3>1. receiving[r].pc # "rest" /\ receiving[r].msg \in got[r]
        BY <2>8 DEF AckRead, ApartInv, Lanes
      <3>2. ~Decrypts(st[r], receiving[r].msg)
        BY <3>1, FromRatchet
      <3> QED
        BY <2>8, <3>1, <3>2, AcknowledgeKeeps DEF AckRead
    <2>9. CASE Crash(r)
      BY <1>2, <2>9, CrashKeeps
    <2> QED
      BY <1>2, <2>1, <2>2, <2>3, <2>4, <2>5, <2>6, <2>7, <2>8, <2>9
         DEF CommandStep, ReceiveStep
  <1> QED
    BY <1>1, <1>2

LEMMA ApartInit == LanesInit => ApartInv /\ RP!Init
  <1> SUFFICES ASSUME LanesInit PROVE ApartInv /\ RP!Init
    OBVIOUS
  <1>1. AtRest.pc = "rest" /\ ~Holding(AtRest)
    BY DEF AtRest, Holding
  <1>2. \A r \in Role : sending[r] = AtRest /\ receiving[r] = AtRest /\ queued[r] = {}
    BY DEF LanesInit
  <1>3. Waiting = [r \in Role |-> {}]
    BY <1>1, <1>2, PeerOf DEF Waiting, OnTheWire
  <1>4. RP!Init
    BY <1>3, SameRoles DEF LanesInit, RP!Init
  <1>5. RP!OpenInv
    BY <1>4, RP!InitOpen, SameBounds
  <1>6. \A r \in Role : InitRatchet(r) \in Session
    BY SameRoles, SameTypes, SameBounds, RP!InitRatchetType
  <1>7. LanesTyped
    BY <1>6, LanesBounds DEF LanesInit, LanesTyped, CommandLane, ReceiveLane
  <1>8. LanesApart /\ Lanes
    BY <1>1, <1>2 DEF LanesApart, Lanes, Holding
  <1> QED
    BY <1>4, <1>5, <1>7, <1>8 DEF ApartInv

(* The two lanes implement the ratchet: as long as neither lies between its
   read and its write while the other does, every run of the stored record,
   with lost requests and closed tabs, is a run of Ratchet (Executor.run and
   Executor.rxTail over one session record). *)
THEOREM LanesImplementRatchet == ApartSpec => ImplementsRatchet
  <1>1. ApartSpec => RP!Init /\ [][RP!Next]_RP!vars
    BY ApartInit, ApartStep, PTL DEF ApartSpec
  <1>2. RP!Init /\ [][RP!Next]_RP!vars => R!Init /\ [][R!Next]_R!vars
    BY SameSpec, PTL
  <1> QED
    BY <1>1, <1>2 DEF ImplementsRatchet, R!Spec

(* So the promise the overlapping lanes break ("a failed send can never
   reuse a message key") is kept by lanes that stay apart. *)
THEOREM ApartKeepsKeys == ApartSpec => []NoKeyReuse
  <1>1. ApartInv => NoKeyReuse
    BY SameRoles DEF ApartInv, RP!OpenInv, RP!IInv, RP!NoKeyReuse, NoKeyReuse
  <1> QED
    BY <1>1, ApartInit, ApartStep, PTL DEF ApartSpec
=============================================================================
