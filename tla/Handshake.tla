------------------------------- MODULE Handshake -------------------------------
(***************************************************************************)
(* How two devices come to share a session, and lose it: the PQ-KX first   *)
(* message (sendFirstMessage, processEnvelope), the contact request it     *)
(* becomes at a stranger's, /add and /remove (contacts.ts).                *)
(*                                                                         *)
(* A session is named for the handshake that made it; a ratchet message    *)
(* opens on the session of its own handshake unless its key is spent, and  *)
(* on no other.  What the ratchet does inside one session is the subject   *)
(* of Ratchet, what two lanes do to one record that of SessionLanes; here  *)
(* a ratchet message is sent, and read, in one step.  Identity keys do not *)
(* change.                                                                 *)
(***************************************************************************)
EXTENDS Naturals

CONSTANTS
  Alice, Bob,    \* the two devices
  MaxTexts,      \* bound: messages each device sends
  OneTimeKeys,   \* bound: one-time prekeys each device has published
  MaxRemovals,   \* bound: uses of /remove
  MaxFaults      \* bound: closed tabs, failed requests, lost acknowledgements

ASSUME HandshakeBounds ==
  /\ Alice # Bob
  /\ {MaxTexts, OneTimeKeys, MaxRemovals, MaxFaults} \subseteq Nat

Device == {Alice, Bob}
Other(p) == IF p = Alice THEN Bob ELSE Alice

VARIABLES
  \* the server
  offered,    \* offered[p]: one-time prekeys of p not yet handed out
  net,        \* net[p]: envelopes waiting for p
  \* each device's store
  contact,    \* contact[p]: p has the other as a contact
  session,    \* session[p]: the record under session/<other>
  pending,    \* pending[p]: the record under pending/<other>
  secrets,    \* secrets[p]: one-time prekeys whose secret p still holds
  \* each device's lanes
  cmd, rx,
  \* history and bounds
  serial,     \* serial[p]: texts p has sealed
  sealed,     \* sealed[p]: envelopes p has sealed
  tried,      \* tried[p]: envelopes p has handled at least once
  shown,      \* shown[p][t]: how often text t of the other was recorded
  kxs,        \* handshakes begun
  answered,   \* answered[p]: handshakes p has answered
  again,      \* again[p]: handshakes p has answered more than once
  removals, faults

store == <<contact, session, pending, secrets>>
history == <<serial, sealed, kxs>>
answers == <<answered, again>>
vars == <<offered, net, store, cmd, rx, history, tried, shown, answers, removals, faults>>

NoPrekey == 0                \* a bundle without a one-time prekey
OneTime == 1..OneTimeKeys

(* A session record: the handshake it stems from, how many messages were
   encrypted on it, and which of the peer's keys are spent. *)
Fresh(k) == [kx |-> k, sent |-> 0, read |-> {}]
NoSession == Fresh(0)
Established(p) == session[p] # NoSession

Request(e) == [kx |-> e.kx, text |-> e.text]
NoRequest == [kx |-> 0, text |-> 0]

FirstMessage(k, opk, t) == [kind |-> "kx", kx |-> k, opk |-> opk, n |-> 0, text |-> t]
RatchetMessage(k, n, t) == [kind |-> "msg", kx |-> k, opk |-> NoPrekey, n |-> n, text |-> t]

Rest == [pc |-> "rest"]
Lane(pc, e) == [pc |-> pc, env |-> e]

Init ==
  /\ offered = [p \in Device |-> OneTime] /\ net = [p \in Device |-> {}]
  /\ contact = [p \in Device |-> FALSE]
  /\ session = [p \in Device |-> NoSession]
  /\ pending = [p \in Device |-> NoRequest]
  /\ secrets = [p \in Device |-> OneTime]
  /\ cmd = [p \in Device |-> Rest] /\ rx = [p \in Device |-> Rest]
  /\ serial = [p \in Device |-> 0] /\ sealed = [p \in Device |-> {}]
  /\ tried = [p \in Device |-> {}]
  /\ shown = [p \in Device |-> [t \in 1..MaxTexts |-> 0]]
  /\ kxs = 0
  /\ answered = [p \in Device |-> {}] /\ again = [p \in Device |-> {}]
  /\ removals = 0 /\ faults = 0

Fault == faults < MaxFaults /\ faults' = faults + 1

(* What becomes of a request: answered, carried out but not answered, or
   never carried out.  For the sender the last two are one network error. *)
Outcome == {"answered", "unanswered", "refused"}
Priced(outcome) == IF outcome = "answered" THEN UNCHANGED faults ELSE Fault
Submit(p, e, outcome) ==
  /\ Priced(outcome)
  /\ net' = IF outcome = "refused" THEN net
            ELSE [net EXCEPT ![Other(p)] = @ \cup {e}]
  /\ serial' = [serial EXCEPT ![p] = @ + 1]
  /\ sealed' = [sealed EXCEPT ![p] = @ \cup {e}]

-----------------------------------------------------------------------------
(* The command lane: sendFirstMessage. *)

MaySend(p) == cmd[p] = Rest /\ contact[p] /\ serial[p] < MaxTexts

(* What a bundle of q may carry: one of the one-time prekeys on offer, or
   none once they are used up. *)
Claimable(q) == IF offered[q] = {} THEN {NoPrekey} ELSE offered[q]

\* Mutant: a key that was handed out stays on offer.
MutClaimBundle(p) ==
  /\ MaySend(p) /\ ~Established(p)
  /\ \E opk \in Claimable(Other(p)) :
       cmd' = [cmd EXCEPT ![p] = [pc |-> "bundle", opk |-> opk]]
  /\ UNCHANGED <<offered, net, store, rx, history, tried, shown, answers, removals, faults>>

(* No session: fetch the peer's bundle, and with it one of their one-time
   prekeys while there are any. *)
ClaimBundle(p) ==
  /\ MaySend(p) /\ ~Established(p)
  /\ \E opk \in Claimable(Other(p)) :
       /\ offered' = [offered EXCEPT ![Other(p)] = @ \ {opk}]
       /\ cmd' = [cmd EXCEPT ![p] = [pc |-> "bundle", opk |-> opk]]
  /\ UNCHANGED <<net, store, rx, history, tried, shown, answers, removals, faults>>

(* initiateKx, and the envelope goes out. *)
PostFirst(p, outcome) ==
  /\ cmd[p].pc = "bundle"
  /\ kxs' = kxs + 1
  /\ Submit(p, FirstMessage(kxs + 1, cmd[p].opk, serial[p] + 1), outcome)
  /\ cmd' = [cmd EXCEPT ![p] = IF outcome = "answered"
                               THEN [pc |-> "posted", kx |-> kxs + 1] ELSE Rest]
  /\ UNCHANGED <<offered, store, rx, tried, shown, answers, removals>>

(* Only then is the session stored. *)
StoreFirst(p) ==
  /\ cmd[p].pc = "posted"
  /\ session' = [session EXCEPT ![p] = Fresh(cmd[p].kx)]
  /\ cmd' = [cmd EXCEPT ![p] = Rest]
  /\ UNCHANGED <<offered, net, contact, pending, secrets, rx, history, tried,
                 shown, answers, removals, faults>>

(* With a session, the message rides the ratchet: saved, then posted. *)
SendRatchet(p, outcome) ==
  /\ MaySend(p) /\ Established(p)
  /\ session' = [session EXCEPT ![p].sent = @ + 1]
  /\ Submit(p, RatchetMessage(session[p].kx, session[p].sent, serial[p] + 1), outcome)
  /\ UNCHANGED <<offered, contact, pending, secrets, cmd, rx, kxs, tried, shown,
                 answers, removals>>

-----------------------------------------------------------------------------
(* The receive lane: processEnvelope. *)

Show(p, t) == shown' = [shown EXCEPT ![p][t] = @ + 1]

(* "ack"; the acknowledgement may be lost, and the envelope comes again. *)
Answer(p, e, acked) ==
  /\ tried' = [tried EXCEPT ![p] = @ \cup {e}]
  /\ IF acked THEN net' = [net EXCEPT ![p] = @ \ {e}] /\ UNCHANGED faults
              ELSE Fault /\ UNCHANGED net

CanAnswer(p, e) == e.opk \in secrets[p] \cup {NoPrekey}
Count(p, e) ==
  /\ answered' = [answered EXCEPT ![p] = @ \cup {e}]
  /\ again' = IF e \in answered[p] THEN [again EXCEPT ![p] = @ \cup {e}] ELSE again

\* Mutant: the secret of a used one-time prekey is kept.
MutBeginKx(p, e) ==
  /\ rx[p] = Rest /\ e.kind = "kx"
  /\ CanAnswer(p, e)
  /\ rx' = [rx EXCEPT ![p] = Lane(IF contact[p] THEN "adopting" ELSE "binding", e)]
  /\ Count(p, e)
  /\ UNCHANGED <<offered, net, store, cmd, history, tried, shown, removals, faults>>

(* respondKx answers; the one-time secret is deleted at once, and the
   sender looked up among the contacts. *)
BeginKx(p, e) ==
  /\ rx[p] = Rest /\ e.kind = "kx"
  /\ CanAnswer(p, e)
  /\ secrets' = [secrets EXCEPT ![p] = @ \ {e.opk}]
  /\ rx' = [rx EXCEPT ![p] = Lane(IF contact[p] THEN "adopting" ELSE "binding", e)]
  /\ Count(p, e)
  /\ UNCHANGED <<offered, net, contact, session, pending, cmd, history, tried,
                 shown, removals, faults>>

(* unknown-opk: discarded (E511). *)
RejectKx(p, e, acked) ==
  /\ rx[p] = Rest /\ e.kind = "kx"
  /\ ~CanAnswer(p, e)
  /\ Answer(p, e, acked)
  /\ UNCHANGED <<offered, store, cmd, rx, history, shown, answers, removals>>

\* Mutant: an established session is kept.
MutAdopt(p, acked) ==
  /\ rx[p].pc = "adopting"
  /\ session' = [session EXCEPT ![p] = IF Established(p) THEN @ ELSE Fresh(rx[p].env.kx)]
  /\ Show(p, rx[p].env.text)
  /\ Answer(p, rx[p].env, acked)
  /\ rx' = [rx EXCEPT ![p] = Rest]
  /\ UNCHANGED <<offered, contact, pending, secrets, cmd, history, answers, removals>>

(* A contact's handshake replaces whatever session there was. *)
Adopt(p, acked) ==
  /\ rx[p].pc = "adopting"
  /\ session' = [session EXCEPT ![p] = Fresh(rx[p].env.kx)]
  /\ Show(p, rx[p].env.text)
  /\ Answer(p, rx[p].env, acked)
  /\ rx' = [rx EXCEPT ![p] = Rest]
  /\ UNCHANGED <<offered, contact, pending, secrets, cmd, history, answers, removals>>

(* A stranger's is bound to their UID by a bundle fetch, and held. *)
Hold(p, acked) ==
  /\ rx[p].pc = "binding"
  /\ pending' = [pending EXCEPT ![p] = Request(rx[p].env)]
  /\ Answer(p, rx[p].env, acked)
  /\ rx' = [rx EXCEPT ![p] = Rest]
  /\ UNCHANGED <<offered, contact, session, secrets, cmd, history, shown,
                 answers, removals>>

(* The fetch fails: discarded (E508). *)
BindingFails(p) ==
  /\ Fault
  /\ rx[p].pc = "binding"
  /\ net' = [net EXCEPT ![p] = @ \ {rx[p].env}]
  /\ tried' = [tried EXCEPT ![p] = @ \cup {rx[p].env}]
  /\ rx' = [rx EXCEPT ![p] = Rest]
  /\ UNCHANGED <<offered, store, cmd, history, shown, answers, removals>>

Opens(p, e) == session[p].kx = e.kx /\ e.n \notin session[p].read

(* processRatchetMessage: opened and recorded, or discarded (E505). *)
ReadRatchet(p, e, acked) ==
  /\ rx[p] = Rest /\ e.kind = "msg"
  /\ IF Opens(p, e)
     THEN session' = [session EXCEPT ![p].read = @ \cup {e.n}] /\ Show(p, e.text)
     ELSE UNCHANGED <<session, shown>>
  /\ Answer(p, e, acked)
  /\ UNCHANGED <<offered, contact, pending, secrets, cmd, rx, history, answers, removals>>

-----------------------------------------------------------------------------
(* /add and /remove. *)

(* doAdd: the contact at once in memory; a held request is promoted and its
   text recorded before the request is deleted and the contacts saved. *)
Add(p) ==
  /\ cmd[p] = Rest
  /\ ~contact[p] \/ pending[p] # NoRequest
  /\ contact' = [contact EXCEPT ![p] = TRUE]
  /\ IF pending[p] = NoRequest
     THEN UNCHANGED <<session, shown, cmd>>
     ELSE /\ session' = [session EXCEPT ![p] = Fresh(pending[p].kx)]
          /\ Show(p, pending[p].text)
          /\ cmd' = [cmd EXCEPT ![p] = [pc |-> "adding", saved |-> contact[p]]]
  /\ UNCHANGED <<offered, net, pending, secrets, rx, history, tried, answers,
                 removals, faults>>

FinishAdd(p) ==
  /\ cmd[p].pc = "adding"
  /\ pending' = [pending EXCEPT ![p] = NoRequest]
  /\ cmd' = [cmd EXCEPT ![p] = Rest]
  /\ UNCHANGED <<offered, net, contact, session, secrets, rx, history, tried,
                 shown, answers, removals, faults>>

(* doRemove, forgetContact. *)
Remove(p) ==
  /\ cmd[p] = Rest /\ contact[p] /\ removals < MaxRemovals
  /\ contact' = [contact EXCEPT ![p] = FALSE]
  /\ session' = [session EXCEPT ![p] = NoSession]
  /\ pending' = [pending EXCEPT ![p] = NoRequest]
  /\ removals' = removals + 1
  /\ UNCHANGED <<offered, net, secrets, cmd, rx, history, tried, shown, answers, faults>>

(* The tab is closed, or the store locked: the lanes end where they are, and
   an addition that was not saved is gone. *)
Interrupt(p) ==
  /\ Fault
  /\ cmd[p] # Rest \/ rx[p] # Rest
  /\ contact' = [contact EXCEPT ![p] = IF cmd[p].pc = "adding" THEN cmd[p].saved ELSE @]
  /\ cmd' = [cmd EXCEPT ![p] = Rest]
  /\ rx' = [rx EXCEPT ![p] = Rest]
  /\ UNCHANGED <<offered, net, session, pending, secrets, history, tried, shown,
                 answers, removals>>

-----------------------------------------------------------------------------
SendSteps(p) ==
  \/ \E outcome \in Outcome : PostFirst(p, outcome) \/ SendRatchet(p, outcome)
  \/ StoreFirst(p)

Handle(p, e, acked) ==
  \/ acked /\ BeginKx(p, e)
  \/ RejectKx(p, e, acked)
  \/ ReadRatchet(p, e, acked)

Conclude(p, acked) == Adopt(p, acked) \/ Hold(p, acked)

Next ==
  \E p \in Device :
    \/ ClaimBundle(p) \/ SendSteps(p)
    \/ \E e \in net[p], acked \in BOOLEAN : Handle(p, e, acked)
    \/ \E acked \in BOOLEAN : Conclude(p, acked)
    \/ BindingFails(p)
    \/ Add(p) \/ FinishAdd(p) \/ Remove(p)
    \/ Interrupt(p)

Spec == Init /\ [][Next]_vars

(* In order: first deliveries follow the order of sending; what has been
   handled before may come back at any time. *)
InOrder(p, e) ==
  e \in tried[p] \/ \A f \in net[p] \ tried[p] : e.text <= f.text

(* The calm environment is in order, and without: a handshake begun while
   the other's is under way; /add and /remove while the receive lane works on
   a handshake; a tab closed in the middle of such work or of /add; a lost
   acknowledgement of a handshake that used no one-time prekey; a failed
   binding fetch. *)
HandshakeUnderWay(p) ==
  \/ \E e \in net[p] : e.kind = "kx"
  \/ cmd[Other(p)].pc \in {"bundle", "posted"}

Repeatable(e) == e.opk # NoPrekey

CalmNext ==
  \E p \in Device :
    \/ ~HandshakeUnderWay(p) /\ ClaimBundle(p)
    \/ SendSteps(p)
    \/ \E e \in net[p], acked \in BOOLEAN :
         InOrder(p, e) /\ Handle(p, e, acked)
    \/ \E acked \in BOOLEAN :
         rx[p] # Rest /\ (acked \/ Repeatable(rx[p].env)) /\ Conclude(p, acked)
    \/ rx[p] = Rest /\ (Add(p) \/ Remove(p))
    \/ FinishAdd(p)
    \/ rx[p] = Rest /\ cmd[p].pc # "adding" /\ Interrupt(p)

CalmSpec == Init /\ [][CalmNext]_vars

-----------------------------------------------------------------------------
Envelope ==
  [kind : {"kx", "msg"}, kx : Nat, opk : OneTime \cup {NoPrekey}, n : Nat, text : Nat]
Command ==
  {Rest} \cup [pc : {"bundle"}, opk : OneTime \cup {NoPrekey}]
         \cup [pc : {"posted"}, kx : Nat]
         \cup [pc : {"adding"}, saved : BOOLEAN]

(* Types; a device holds the secret of every one-time prekey on offer, and
   only what was sealed for it is delivered. *)
TypeOK ==
  /\ offered \in [Device -> SUBSET OneTime] /\ secrets \in [Device -> SUBSET OneTime]
  /\ contact \in [Device -> BOOLEAN]
  /\ session \in [Device -> [kx : Nat, sent : Nat, read : SUBSET Nat]]
  /\ pending \in [Device -> [kx : Nat, text : Nat]]
  /\ cmd \in [Device -> Command]
  /\ rx \in [Device -> {Rest} \cup [pc : {"adopting", "binding"}, env : Envelope]]
  /\ net \in [Device -> SUBSET Envelope] /\ tried \in [Device -> SUBSET Envelope]
  /\ sealed \in [Device -> SUBSET Envelope]
  /\ answered \in [Device -> SUBSET Envelope] /\ again \in [Device -> SUBSET Envelope]
  /\ serial \in [Device -> Nat]
  /\ shown \in [Device -> [1..MaxTexts -> Nat]]
  /\ kxs \in Nat /\ removals \in 0..MaxRemovals /\ faults \in 0..MaxFaults
  /\ \A p \in Device : /\ offered[p] \subseteq secrets[p]
                       /\ net[p] \cup answered[p] \subseteq sealed[Other(p)]

(* A handshake that used a one-time prekey is answered once, however often
   its envelope is delivered and wherever the work on it is interrupted
   ("delete the consumed OPK secret immediately", processEnvelope). *)
AnsweredOnce == \A p \in Device : \A e \in again[p] : e.opk = NoPrekey

(* A handshake delivered for the first time can be answered: its one-time
   prekey was handed out to nobody else, and its secret waits for it.  A
   device refuses (E511) only what it has answered before, or what refers to
   keys it has replaced. *)
FirstDeliveryAnswered ==
  \A p \in Device : \A e \in net[p] \ answered[p] : e.kind = "kx" => CanAnswer(p, e)

(* The strengthening that makes these inductive: for each of p's one-time
   prekeys, at most one handshake was sealed, never while the key was on
   offer, and its secret is there exactly until the handshake is answered; a
   claimed key is in the hands of one command only. *)
KeyedHandshakes(p) ==
  {e \in sealed[Other(p)] : e.kind = "kx" /\ e.opk # NoPrekey}
Claimed(p) == cmd[Other(p)].pc = "bundle" /\ cmd[Other(p)].opk # NoPrekey

KeyLedger(p) ==
  /\ \A e \in answered[p] : e.kind = "kx"
  /\ \A e \in KeyedHandshakes(p) :
       /\ e.opk \notin offered[p]
       /\ e.opk \in secrets[p] <=> e \notin answered[p]
  /\ \A e, f \in KeyedHandshakes(p) : e.opk = f.opk => e = f
  /\ Claimed(p) =>
       /\ cmd[Other(p)].opk \in secrets[p] \ offered[p]
       /\ \A e \in KeyedHandshakes(p) : e.opk # cmd[Other(p)].opk

IInv == TypeOK /\ AnsweredOnce /\ \A p \in Device : KeyLedger(p)

(* Two sessions that exist on both sides are one session, once no handshake
   is under way: whoever has lost theirs and writes first brings the other
   along ("that runs a fresh PQ-KX handshake and re-syncs both sides",
   MESSAGES.md, E505). *)
Settled ==
  \A p \in Device : /\ \A e \in net[p] : e.kind # "kx"
                    /\ cmd[p] = Rest /\ rx[p] = Rest
SessionsMeet ==
  (Settled /\ \A p \in Device : Established(p)) =>
    \A p \in Device : session[p].kx = session[Other(p)].kx

(* The strengthening for the calm environment: of a handshake that is under
   way, and of one that has just ended, each side knows the same. *)
Initiating(p) ==
  \/ cmd[p].pc \in {"bundle", "posted"}
  \/ \E e \in net[Other(p)] : e.kind = "kx"
Unhandled(p) == {e \in net[p] \ tried[p] : e.kind = "kx"}
Latest(s) == {e \in s : \A f \in s : f.text <= e.text}

(* The handshake whose session p has, or will have once it has handled what
   waits for it and added whom it holds a request of; none or one. *)
Due(p) ==
  IF cmd[p].pc = "posted" THEN {cmd[p].kx}
  ELSE IF Unhandled(p) # {} THEN {e.kx : e \in Latest(Unhandled(p))}
  ELSE IF session[p].kx # 0 THEN {session[p].kx}
  ELSE IF pending[p] # NoRequest THEN {pending[p].kx}
  ELSE {}

(* Texts are numbered; a handshake is handled in one go and in its turn, and
   comes back only when it can no longer be answered. *)
TakenInTurn(p) ==
  /\ \A e \in sealed[p] : e.kx # 0 /\ e.text <= serial[p]
  /\ \A e \in tried[p] : e.kind = "kx" => e \in answered[p]
  /\ \A e \in net[p] \cap tried[p] : e.kind = "kx" => e.opk # NoPrekey
  /\ \A e \in answered[p] \ tried[p] : rx[p] # Rest /\ rx[p].env = e
  /\ rx[p] # Rest =>
       /\ rx[p].env \in answered[p] \cap Unhandled(p)
       /\ \A f \in Unhandled(p) : rx[p].env.text <= f.text
       /\ rx[p].pc = IF contact[p] THEN "adopting" ELSE "binding"

(* Who has no contact has no session and starts none; a request is held of
   someone who is no contact, or just being added. *)
ContactFirst(p) ==
  /\ session[p].kx = 0 => session[p] = NoSession
  /\ ~contact[p] => session[p] = NoSession /\ cmd[p] = Rest
  /\ pending[p] # NoRequest => pending[p].kx # 0 /\ (contact[p] => cmd[p].pc = "adding")
  /\ cmd[p].pc \in {"bundle", "posted"} => session[p] = NoSession
  /\ cmd[p].pc = "posted" => cmd[p].kx # 0
  /\ cmd[p].pc = "adding" => session[p] # NoSession

MeetInv ==
  /\ \A p \in Device : TakenInTurn(p) /\ ContactFirst(p)
  /\ ~ \A p \in Device : Initiating(p)
  /\ \A p \in Device : \A k \in Due(p), l \in Due(Other(p)) : k = l
=============================================================================
