--------------------------------- MODULE Trust ---------------------------------
(***************************************************************************)
(* What one device believes of one peer: the contact record with its       *)
(* pinned identity key (contacts.ts, context.ts), the comparison of safety *)
(* numbers and what a change of key tears down (trust.ts), and the places  *)
(* that find one out: /verify, a first message sent, a first message       *)
(* received (messaging.ts).                                                *)
(*                                                                         *)
(* The command lane (cmd) and the receive lane (rx) both read the record   *)
(* and the session, await, and write them back; a step ends at an await.   *)
(* The peer's identity keys are numbered in the order it enrolled them;    *)
(* the server hands out the last.  Sessions are numbered too, and a        *)
(* message opens under its own (Ratchet has what is inside).               *)
(***************************************************************************)
EXTENDS Naturals, Sequences

CONSTANTS
  MaxKeys,      \* bound: identity keys of the peer
  MaxSessions,  \* bound: handshakes
  MaxMail,      \* bound: messages waiting
  MaxCommands,  \* bound: commands run
  MaxFaults     \* bound: failed requests and closed tabs

ASSUME TrustBounds ==
  /\ {MaxKeys, MaxSessions, MaxMail, MaxCommands, MaxFaults} \subseteq Nat
  /\ MaxKeys # 0

VARIABLES
  contact,   \* the record of the peer, in memory
  saved,     \* and in the store
  auto,      \* x.autoTrust
  session,   \* session/<uid>
  pending,   \* pending/<uid>: the session of a contact request that is held
  server,    \* the identity key the server hands out for the peer
  theirs,    \* the session the peer writes under
  mail,      \* what the peer has sent
  cmd, rx,
  \* history and bounds
  compared,  \* the key whose safety number the user compared last
  relied,    \* trust-on-first-use was on at some time
  crossed,   \* a lane wrote on the strength of what had changed since it read it
  revived,   \* /add put the key of a request held before in the place of a pinned one
  torn,      \* the tab closed between the writing of the record and of the session
  made, commands, faults

lanes == <<cmd, rx>>
peer == <<server, theirs, mail>>
book == <<contact, saved>>
marks == <<relied, crossed, revived, torn>>
vars == <<book, auto, session, pending, peer, lanes, compared, marks, made, commands, faults>>

NoKey == 0
NoSession == [n |-> 0, key |-> NoKey]
NoContact == [known |-> FALSE, ik |-> NoKey, verified |-> FALSE, blocked |-> FALSE]
Stranger == [NoContact EXCEPT !.known = TRUE]
Rest == [pc |-> "rest", op |-> "none", base |-> NoContact, key |-> NoKey,
         sess |-> NoSession, halt |-> FALSE]
Idle == [pc |-> "idle", msg |-> [kx |-> FALSE, sess |-> NoSession], halt |-> FALSE]

(* pinKey *)
Pinned(c, key) == [c EXCEPT !.ik = key, !.verified = auto \/ c.verified]
(* handleKeyChange, its record *)
Changed(c, key) == [c EXCEPT !.ik = key, !.verified = FALSE, !.blocked = ~auto]
Differs(c, key) == c.ik # NoKey /\ c.ik # key

Init ==
  /\ contact = NoContact /\ saved = NoContact /\ auto \in BOOLEAN
  /\ session = NoSession /\ pending = NoSession
  /\ server = 1 /\ theirs = NoSession /\ mail = <<>>
  /\ cmd = Rest /\ rx = Idle
  /\ compared = NoKey /\ relied = auto /\ crossed = FALSE /\ revived = FALSE /\ torn = FALSE
  /\ made = 0 /\ commands = 0 /\ faults = 0

Become(c) == cmd' = c
Save(c) == contact' = c /\ saved' = c
Cross(seen, now) == crossed' = (crossed \/ seen # now)
Command(op) == cmd = Rest /\ commands < MaxCommands /\ commands' = commands + 1
Flow(op, pc, c) == [Rest EXCEPT !.op = op, !.pc = pc, !.base = c]

-----------------------------------------------------------------------------
(* Commands that do not wait for anything. *)

(* Mutant: a block does not stand in the way of /verified. *)
MutVerified ==
  /\ Command("verified") /\ contact.known /\ contact.ik # NoKey /\ compared # NoKey
  /\ Save([contact EXCEPT !.verified = TRUE])
  /\ UNCHANGED <<auto, session, pending, peer, lanes, compared, marks, made,
                 faults>>

(* /verified, by one who has compared a number shown by /verify. *)
Verified ==
  /\ Command("verified") /\ contact.known /\ contact.ik # NoKey /\ compared # NoKey
  /\ ~contact.blocked
  /\ Save([contact EXCEPT !.verified = TRUE])
  /\ UNCHANGED <<auto, session, pending, peer, lanes, compared, marks, made,
                 faults>>

(* /ack: the user knows that what was compared before is void. *)
Ack ==
  /\ Command("ack") /\ contact.blocked
  /\ Save([contact EXCEPT !.blocked = FALSE])
  /\ compared' = NoKey
  /\ UNCHANGED <<auto, session, pending, peer, lanes, marks, made, faults>>

SettingsTrust ==
  /\ Command("trust")
  /\ auto' = ~auto /\ relied' = TRUE
  /\ UNCHANGED <<book, session, pending, peer, lanes, compared, crossed,
                 revived, torn, made, faults>>

-----------------------------------------------------------------------------
(* /add and /remove. *)

(* /add again keeps what is known of the peer. *)
Readd == IF contact.known THEN contact ELSE Stranger

Add ==
  /\ Command("add")
  /\ contact' = Readd
  /\ Become(Flow("add", "lookup", contact'))
  /\ UNCHANGED <<saved, auto, session, pending, peer, rx, compared, marks, made,
                 faults>>

(* A request that is held becomes the session. *)
Promote ==
  /\ cmd.op = "add" /\ cmd.pc = "lookup"
  /\ IF pending = NoSession
     THEN saved' = contact /\ Become(Rest) /\ UNCHANGED session
     ELSE /\ session' = pending
          /\ Become([cmd EXCEPT !.pc = "pin", !.key = pending.key])
          /\ UNCHANGED saved
  /\ UNCHANGED <<contact, auto, pending, peer, rx, compared, marks, made,
                 commands, faults>>

FinishAdd ==
  /\ cmd.op = "add" /\ cmd.pc = "pin"
  /\ pending' = NoSession
  /\ Save(Pinned(cmd.base, cmd.key)) /\ Cross(cmd.base, contact)
  /\ revived' = (revived \/ Differs(cmd.base, cmd.key))
  /\ Become(Rest)
  /\ UNCHANGED <<auto, session, peer, rx, compared, relied, torn, made,
                 commands, faults>>

(* /remove all leaves the contact in memory while its session goes, ... *)
RemoveAll ==
  /\ Command("remove") /\ contact.known
  /\ Become(Flow("clear", "forget", NoContact))
  /\ UNCHANGED <<book, auto, session, pending, peer, rx, compared, marks, made,
                 faults>>

(* ... and does not look again at what the receive lane stored meanwhile. *)
Clear ==
  /\ cmd.op = "clear" /\ cmd.pc = "unlist"
  /\ Save(NoContact) /\ compared' = NoKey
  /\ crossed' = (crossed \/ session # NoSession)
  /\ Become(Rest)
  /\ UNCHANGED <<auto, session, pending, peer, rx, relied, revived, torn, made,
                 commands, faults>>

(* /remove: out of memory first, out of the store last. *)
Remove ==
  /\ Command("remove") /\ contact.known
  /\ contact' = NoContact
  /\ Become(Flow("remove", "forget", NoContact))
  /\ UNCHANGED <<saved, auto, session, pending, peer, rx, compared, marks, made,
                 faults>>

Forget ==
  /\ cmd.pc = "forget"
  /\ session' = NoSession /\ pending' = NoSession
  /\ Become([cmd EXCEPT !.pc = "unlist"])
  /\ UNCHANGED <<book, auto, peer, rx, compared, marks, made, commands, faults>>

Unlist ==
  /\ cmd.op = "remove" /\ cmd.pc = "unlist"
  /\ saved' = contact /\ compared' = NoKey
  /\ Become(Rest)
  /\ UNCHANGED <<contact, auto, session, pending, peer, rx, marks, made,
                 commands, faults>>

-----------------------------------------------------------------------------
(* /verify, and the sending of a text. *)

Verify ==
  /\ Command("verify") /\ contact.known
  /\ Become(Flow("verify", "ask", contact))
  /\ UNCHANGED <<book, auto, session, pending, peer, rx, compared, marks, made,
                 faults>>

SendText ==
  /\ Command("send") /\ contact.known /\ ~contact.blocked
  /\ Become(Flow("send", "load", contact))
  /\ UNCHANGED <<book, auto, session, pending, peer, rx, compared, marks, made,
                 faults>>

LoadSession ==
  /\ cmd.op = "send" /\ cmd.pc = "load"
  /\ Become([cmd EXCEPT !.pc = IF session = NoSession THEN "ask" ELSE "save",
                        !.sess = session])
  /\ UNCHANGED <<book, auto, session, pending, peer, rx, compared, marks, made,
                 commands, faults>>

(* An established session is written back, advanced, before the message goes. *)
SaveRatchet ==
  /\ cmd.op = "send" /\ cmd.pc = "save"
  /\ session' = cmd.sess /\ Cross(cmd.sess, session)
  /\ Become(Rest)
  /\ UNCHANGED <<book, auto, pending, peer, rx, compared, relied, revived, torn,
                 made, commands, faults>>

FetchBundle ==
  /\ cmd.pc = "ask"
  /\ Become([cmd EXCEPT !.pc = "bundle", !.key = server])
  /\ UNCHANGED <<book, auto, session, pending, peer, rx, compared, marks, made,
                 commands, faults>>

(* The fetch fails, or the bundle does not verify under its own identity
   key: the command ends before the key is looked at. *)
NoBundle ==
  /\ cmd.pc = "bundle" /\ faults < MaxFaults /\ faults' = faults + 1
  /\ Become(Rest)
  /\ UNCHANGED <<book, auto, session, pending, peer, rx, compared, marks, made,
                 commands>>

(* The number shown is that of the key that was fetched. *)
Show == compared' = cmd.key /\ Become(Rest)

VerifyBundle ==
  /\ cmd.op = "verify" /\ cmd.pc = "bundle"
  /\ CASE Differs(cmd.base, cmd.key) ->
            /\ Save(Changed(cmd.base, cmd.key)) /\ Cross(cmd.base, contact)
            /\ Become([cmd EXCEPT !.pc = "teardown", !.halt = ~auto])
            /\ UNCHANGED compared
       [] cmd.base.ik = NoKey ->
            /\ Save(Pinned(cmd.base, cmd.key)) /\ Cross(cmd.base, contact)
            /\ Show
       [] OTHER -> Show /\ UNCHANGED <<book, crossed>>
  /\ UNCHANGED <<auto, session, pending, peer, rx, relied, revived, torn, made,
                 commands, faults>>

CheckBundle ==
  /\ cmd.op = "send" /\ cmd.pc = "bundle"
  /\ IF Differs(cmd.base, cmd.key)
     THEN /\ Save(Changed(cmd.base, cmd.key)) /\ Cross(cmd.base, contact)
          /\ Become([cmd EXCEPT !.pc = "teardown", !.halt = ~auto])
     ELSE Become([cmd EXCEPT !.pc = "post"]) /\ UNCHANGED <<book, crossed>>
  /\ UNCHANGED <<auto, session, pending, peer, rx, compared, relied, revived,
                 torn, made, commands, faults>>

(* Mutant: the session with the old key is left. *)
MutDrop == UNCHANGED session

(* handleKeyChange: the session with the old key goes. *)
Drop == session' = NoSession

TearDown ==
  /\ cmd.pc = "teardown"
  /\ Drop
  /\ CASE cmd.halt -> Become(Rest) /\ UNCHANGED compared
       [] ~cmd.halt /\ cmd.op = "verify" -> Show
       [] OTHER -> Become([cmd EXCEPT !.pc = "post", !.base = contact]) /\ UNCHANGED compared
  /\ UNCHANGED <<book, auto, pending, peer, rx, marks, made, commands, faults>>

(* The first message reaches the peer, if it holds the key still; or the
   request fails. *)
PostFirst(sent) ==
  /\ cmd.pc = "post"
  /\ IF sent
     THEN /\ made < MaxSessions /\ made' = made + 1
          /\ theirs' = IF cmd.key = server THEN [n |-> made + 1, key |-> cmd.key] ELSE theirs
          /\ Become([cmd EXCEPT !.pc = "store", !.sess = [n |-> made + 1, key |-> cmd.key]])
          /\ UNCHANGED faults
     ELSE /\ faults < MaxFaults /\ faults' = faults + 1
          /\ Become(Rest) /\ UNCHANGED <<made, theirs>>
  /\ UNCHANGED <<book, auto, session, pending, server, mail, rx, compared,
                 marks, commands>>

StoreFirst ==
  /\ cmd.pc = "store"
  /\ session' = cmd.sess
  /\ crossed' = (crossed \/ Differs(contact, cmd.key))
  /\ Become(IF cmd.base.ik = NoKey THEN [cmd EXCEPT !.pc = "pin"] ELSE Rest)
  /\ UNCHANGED <<book, auto, pending, peer, rx, compared, relied, revived, torn,
                 made, commands, faults>>

PinFirst ==
  /\ cmd.op = "send" /\ cmd.pc = "pin"
  /\ Save(Pinned(cmd.base, cmd.key)) /\ Cross(cmd.base, contact)
  /\ Become(Rest)
  /\ UNCHANGED <<auto, session, pending, peer, rx, compared, relied, revived,
                 torn, made, commands, faults>>

-----------------------------------------------------------------------------
(* The receive lane. *)

Next1 == Head(mail)
Take == rx = Idle /\ mail # <<>> /\ mail' = Tail(mail)
Await(pc, halt) == rx' = [pc |-> pc, msg |-> Next1, halt |-> halt]

(* Mutant: a message under a new key from a contact is simply accepted. *)
MutGreet(key) ==
  \/ /\ ~contact.known /\ Await("bind", FALSE) /\ UNCHANGED book
  \/ /\ contact.known
     /\ Save(IF contact.ik = key THEN contact ELSE Pinned(contact, key))
     /\ Await("store", FALSE)

(* processEnvelope, a handshake under this key: a stranger's is checked
   against the server; a new key of a contact is a key change. *)
Greet(key) ==
  \/ /\ ~contact.known /\ Await("bind", FALSE) /\ UNCHANGED book
  \/ /\ contact.known /\ Differs(contact, key)
     /\ Save(Changed(contact, key)) /\ Await("teardown", ~auto)
  \/ /\ contact.known /\ ~Differs(contact, key)
     /\ Save(IF contact.ik = NoKey THEN Pinned(contact, key) ELSE contact)
     /\ Await("store", FALSE)

ReadKx ==
  /\ Take /\ Next1.kx /\ Greet(Next1.sess.key)
  /\ UNCHANGED <<auto, session, pending, server, theirs, cmd, compared, marks,
                 made, commands, faults>>

RxTearDown ==
  /\ rx.pc = "teardown"
  /\ Drop
  /\ rx' = IF rx.halt THEN Idle ELSE [rx EXCEPT !.pc = "store"]
  /\ UNCHANGED <<book, auto, pending, peer, cmd, compared, marks, made,
                 commands, faults>>

RxStore ==
  /\ rx.pc = "store"
  /\ session' = rx.msg.sess
  /\ crossed' = (crossed \/ contact.ik # rx.msg.sess.key)
  /\ rx' = Idle
  /\ UNCHANGED <<book, auto, pending, peer, cmd, compared, relied, revived,
                 torn, made, commands, faults>>

(* The claimed sender must own the key; then its message is held. *)
Bind ==
  /\ rx.pc = "bind"
  /\ IF server = rx.msg.sess.key
     THEN pending' = rx.msg.sess /\ crossed' = (crossed \/ contact.known)
     ELSE UNCHANGED <<pending, crossed>>
  /\ rx' = Idle
  /\ UNCHANGED <<book, auto, session, peer, cmd, compared, relied, revived,
                 torn, made, commands, faults>>

(* A later message opens under its own session or not at all. *)
ReadMsg ==
  /\ Take /\ ~Next1.kx
  /\ IF Next1.sess = session THEN Await("save", FALSE) ELSE UNCHANGED rx
  /\ UNCHANGED <<book, auto, session, pending, server, theirs, cmd, compared,
                 marks, made, commands, faults>>

RxSave ==
  /\ rx.pc = "save"
  /\ session' = rx.msg.sess /\ Cross(rx.msg.sess, session)
  /\ rx' = Idle
  /\ UNCHANGED <<book, auto, pending, peer, cmd, compared, relied, revived,
                 torn, made, commands, faults>>

-----------------------------------------------------------------------------
(* The peer, and the tab. *)

PeerGreets ==
  /\ made < MaxSessions /\ made' = made + 1 /\ Len(mail) < MaxMail
  /\ theirs' = [n |-> made + 1, key |-> server]
  /\ mail' = Append(mail, [kx |-> TRUE, sess |-> theirs'])
  /\ UNCHANGED <<book, auto, session, pending, server, lanes, compared, marks,
                 commands, faults>>

PeerWrites ==
  /\ theirs # NoSession /\ Len(mail) < MaxMail
  /\ mail' = Append(mail, [kx |-> FALSE, sess |-> theirs])
  /\ UNCHANGED <<book, auto, session, pending, server, theirs, lanes, compared,
                 marks, made, commands, faults>>

PeerRecovers ==
  /\ server < MaxKeys /\ server' = server + 1 /\ theirs' = NoSession
  /\ UNCHANGED <<book, auto, session, pending, mail, lanes, compared, marks,
                 made, commands, faults>>

(* A closed tab forgets both lanes and what was not saved. *)
Close ==
  /\ faults < MaxFaults /\ faults' = faults + 1
  /\ cmd # Rest \/ rx # Idle
  /\ contact' = saved /\ cmd' = Rest /\ rx' = Idle
  /\ torn' = (torn \/ "teardown" \in {cmd.pc, rx.pc} \/ cmd.pc = "pin")
  /\ UNCHANGED <<saved, auto, session, pending, peer, compared, relied, crossed,
                 revived, made, commands>>

-----------------------------------------------------------------------------
Commands ==
  \/ Verified \/ Ack \/ SettingsTrust
  \/ Add \/ Promote \/ FinishAdd \/ Remove \/ RemoveAll \/ Forget \/ Unlist \/ Clear
  \/ Verify \/ SendText \/ LoadSession \/ SaveRatchet \/ FetchBundle \/ NoBundle
  \/ VerifyBundle \/ CheckBundle \/ TearDown \/ StoreFirst \/ PinFirst
  \/ \E sent \in BOOLEAN : PostFirst(sent)

Receiving == ReadKx \/ RxTearDown \/ RxStore \/ Bind \/ ReadMsg \/ RxSave
Around == PeerGreets \/ PeerWrites \/ PeerRecovers \/ Close

Next == Commands \/ Receiving \/ Around
Spec == Init /\ [][Next]_vars

-----------------------------------------------------------------------------
Keys == 0 .. MaxKeys
Sessions == [n : 0 .. MaxSessions, key : Keys]
Contacts == [known : BOOLEAN, ik : Keys, verified : BOOLEAN, blocked : BOOLEAN]
Messages == [kx : BOOLEAN, sess : Sessions]

Sound(c) == (c.verified \/ c.blocked => c.ik # NoKey) /\ (c.ik # NoKey => c.known)

(* The types; and nothing is known of one who is no contact, who is verified
   or blocked has a key pinned. *)
TypeOK ==
  /\ {contact, saved} \subseteq Contacts
  /\ Sound(contact)
  /\ auto \in BOOLEAN /\ {relied, crossed, revived, torn} \subseteq BOOLEAN
  /\ {session, pending, theirs} \subseteq Sessions
  /\ server \in 1 .. MaxKeys /\ compared \in Keys
  /\ mail \in Seq(Messages)
  /\ cmd \in [pc : {"rest", "lookup", "pin", "forget", "unlist", "ask", "load", "save", "bundle",
                    "teardown", "post", "store"},
              op : {"none", "add", "remove", "clear", "verify", "send"},
              base : Contacts, key : Keys, sess : Sessions, halt : BOOLEAN]
  /\ rx \in [pc : {"idle", "bind", "teardown", "store", "save"}, msg : Messages, halt : BOOLEAN]
  /\ made \in 0 .. MaxSessions /\ commands \in 0 .. MaxCommands /\ faults \in 0 .. MaxFaults

(* Under manual trust a contact is verified for the key whose safety number
   was compared and for no other, however a change of key falls between
   /verify, /ack and /verified (trust.ts:33, :86). *)
VerifiedWasCompared == contact.verified /\ ~relied /\ ~revived => contact.ik = compared

(* Once both lanes are at rest the session is with the key that is pinned:
   no chain made with an old key is carried over (trust.ts:119). *)
SessionMatchesPin ==
  /\ cmd = Rest /\ rx = Idle
  /\ ~crossed /\ ~revived /\ ~torn
  /\ contact.ik # NoKey /\ session # NoSession
  => session.key = contact.ik

(* A pinned key is never replaced without the contact losing its
   verification, and a block is lifted by /ack only, by removing the contact,
   or by a later change under trust-on-first-use (records.ts:64). *)
PinStep ==
  /\ contact.ik # NoKey /\ contact'.known /\ contact'.ik # contact.ik /\ ~crossed' /\ ~revived'
       => ~contact'.verified
  /\ contact.blocked /\ contact'.known /\ ~contact'.blocked /\ ~crossed'
       => Ack \/ (auto /\ contact'.ik # contact.ik)
PinHolds == [][PinStep]_vars

-----------------------------------------------------------------------------
(* The strengthening that makes these invariants inductive, by what its parts
   are about. *)

Fetching == cmd.op \in {"add", "verify", "send"}

(* Where each lane is in its command or message. *)
LanesShaped ==
  /\ (cmd.op = "none") <=> (cmd = Rest)
  /\ (cmd.op = "none") <=> (cmd.pc = "rest")
  /\ cmd.op = "add" => cmd.pc \in {"lookup", "pin"}
  /\ cmd.op \in {"remove", "clear"} <=> cmd.pc \in {"forget", "unlist"}
  /\ cmd.op = "verify" => cmd.pc \in {"ask", "bundle", "teardown"}
  /\ cmd.op = "send" => cmd.pc \notin {"rest", "lookup"}
  /\ (rx.pc = "idle") <=> (rx = Idle)

(* Which copies of the record a command may find. *)
RecordsAgree ==
  /\ Sound(saved) /\ Sound(cmd.base)
  /\ cmd.op \notin {"add", "remove"} => saved = contact
  /\ cmd.op = "add" => saved = contact \/ (saved = NoContact /\ contact.ik = NoKey)
  /\ cmd.op = "remove" => contact = NoContact
  /\ Fetching => contact.known /\ cmd.base.known
  /\ Fetching /\ cmd.base.ik # NoKey => contact.ik # NoKey
  /\ cmd.pc = "teardown" => cmd.base.ik # NoKey
  /\ cmd.pc = "pin" /\ cmd.op = "send" => cmd.base.ik = NoKey

(* Every session and every message is under some key. *)
KeysReal ==
  /\ \A s \in {session, pending, theirs} : s = NoSession \/ s.key # NoKey
  /\ \A i \in DOMAIN mail : mail[i].sess.key # NoKey
  /\ rx.pc # "idle" => rx.msg.sess.key # NoKey
  /\ cmd.pc \in {"bundle", "teardown", "post", "store", "pin"} => cmd.key # NoKey
  /\ cmd.pc = "store" => cmd.sess.key = cmd.key
  /\ cmd.pc = "save" => cmd.sess.key # NoKey

(* Nothing is compared before a key is pinned. *)
ComparedIsKnown ==
  /\ saved.ik = NoKey => compared = NoKey
  /\ cmd.op # "remove" /\ contact.ik = NoKey => compared = NoKey
  /\ Fetching /\ cmd.base.ik = NoKey => compared = NoKey
  /\ ~relied => ~auto
  /\ ~relied /\ cmd.pc = "teardown" => cmd.halt

(* What was compared is the key of every record that is not blocked. *)
Held(c) ==
  /\ c.blocked => ~c.verified
  /\ c.verified => c.ik = compared
  /\ c.ik # NoKey /\ ~c.blocked /\ compared # NoKey => c.ik = compared
ComparedIsPinned ==
  ~relied /\ ~revived =>
    /\ Held(contact) /\ Held(saved) /\ (cmd.op = "add" => Held(cmd.base))
    /\ cmd.op = "verify" /\ cmd.pc \in {"ask", "bundle"} /\ cmd.base.ik # NoKey
         => contact.blocked \/ contact.ik = cmd.base.ik

(* The session is under the pinned key, or a step that settles it is due. *)
Under(keys) == session # NoSession => session.key \in keys
SessionFollows ==
  ~crossed /\ ~revived /\ ~torn =>
    \/ "teardown" \in {cmd.pc, rx.pc}
    \/ cmd.op # "remove" /\ Under({contact.ik})
    \/ cmd.op = "remove" /\ cmd.pc = "forget" /\ Under({saved.ik})
    \/ cmd.op = "remove" /\ Under({})
    \/ cmd.pc = "pin" /\ Under({cmd.key, contact.ik})

IInv ==
  /\ TypeOK /\ LanesShaped /\ RecordsAgree /\ KeysReal
  /\ ComparedIsKnown /\ ComparedIsPinned /\ SessionFollows
===============================================================================
