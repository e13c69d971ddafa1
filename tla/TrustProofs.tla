------------------------------ MODULE TrustProofs ------------------------------
(***************************************************************************)
(* For any number of identity keys, handshakes, messages and commands:     *)
(* types, a verification that is for the key that was compared, a session  *)
(* that is with the key that is pinned, and pins and blocks that hold.     *)
(***************************************************************************)
EXTENDS Trust, TLAPS

Places == {"rest", "lookup", "pin", "forget", "unlist", "ask", "load", "save", "bundle",
           "teardown", "post", "store"}
CmdType ==
  [pc : Places,
   op : {"none", "add", "remove", "clear", "verify", "send"},
   base : Contacts, key : Keys, sess : Sessions, halt : BOOLEAN]
RxType == [pc : {"idle", "bind", "teardown", "store", "save"}, msg : Messages, halt : BOOLEAN]

LEMMA Bounds ==
  /\ MaxKeys \in Nat /\ MaxKeys >= 1 /\ MaxSessions \in Nat /\ MaxMail \in Nat
  /\ MaxCommands \in Nat /\ MaxFaults \in Nat /\ NoKey \in Keys
BY TrustBounds DEF Keys, NoKey

-----------------------------------------------------------------------------
(* The forms a record, a command and the receive lane take. *)

LEMMA RecordForms ==
  ASSUME NEW c \in Contacts, NEW k \in Keys, auto \in BOOLEAN
  PROVE  /\ Pinned(c, k) \in Contacts /\ (Pinned(c, k).known <=> c.known) /\ Pinned(c, k).ik = k
         /\ (Pinned(c, k).verified <=> (auto \/ c.verified)) /\ (Pinned(c, k).blocked <=> c.blocked)
         /\ Changed(c, k) \in Contacts /\ (Changed(c, k).known <=> c.known) /\ Changed(c, k).ik = k
         /\ (Changed(c, k).verified <=> FALSE) /\ (Changed(c, k).blocked <=> ~auto)
BY DEF Pinned, Changed, Contacts

LEMMA FlagForms ==
  ASSUME NEW c \in Contacts
  PROVE  /\ [c EXCEPT !.verified = TRUE] \in Contacts
         /\ ([c EXCEPT !.verified = TRUE].known <=> c.known) /\ [c EXCEPT !.verified = TRUE].ik = c.ik
         /\ ([c EXCEPT !.verified = TRUE].verified <=> TRUE)
         /\ ([c EXCEPT !.verified = TRUE].blocked <=> c.blocked)
         /\ [c EXCEPT !.blocked = FALSE] \in Contacts
         /\ ([c EXCEPT !.blocked = FALSE].known <=> c.known) /\ [c EXCEPT !.blocked = FALSE].ik = c.ik
         /\ ([c EXCEPT !.blocked = FALSE].verified <=> c.verified)
         /\ ([c EXCEPT !.blocked = FALSE].blocked <=> FALSE)
         /\ c.ik \in Keys /\ c.known \in BOOLEAN /\ c.verified \in BOOLEAN /\ c.blocked \in BOOLEAN
BY DEF Contacts

LEMMA Fixed ==
  /\ NoContact \in Contacts /\ NoContact.known = FALSE /\ NoContact.ik = NoKey
  /\ NoContact.verified = FALSE /\ NoContact.blocked = FALSE
  /\ Stranger \in Contacts /\ Stranger.known = TRUE /\ Stranger.ik = NoKey
  /\ Stranger.verified = FALSE /\ Stranger.blocked = FALSE
  /\ NoSession \in Sessions /\ NoSession.key = NoKey
<1>1. 0 \in 0 .. MaxSessions
  BY Bounds
<1>2. NoSession \in Sessions /\ NoSession.key = NoKey
  BY <1>1, Bounds DEF NoSession, Sessions, NoKey
<1> QED BY <1>2, Bounds DEF NoContact, Stranger, Contacts

LEMMA RestForm ==
  /\ Rest \in CmdType /\ Rest.pc = "rest" /\ Rest.op = "none" /\ Rest.base = NoContact
  /\ Rest.key = NoKey /\ Rest.sess = NoSession /\ Rest.halt = FALSE
BY Fixed, Bounds DEF Rest, CmdType, Places

LEMMA IdleForm == Idle \in RxType /\ Idle.pc = "idle" /\ Idle.halt = FALSE
BY Fixed DEF Idle, RxType, Messages

LEMMA FlowForm ==
  ASSUME NEW op \in {"add", "remove", "clear", "verify", "send"},
         NEW pc \in {"lookup", "forget", "ask", "load"}, NEW c \in Contacts
  PROVE  /\ Flow(op, pc, c) \in CmdType /\ Flow(op, pc, c).pc = pc /\ Flow(op, pc, c).op = op
         /\ Flow(op, pc, c).base = c /\ Flow(op, pc, c).key = NoKey
         /\ Flow(op, pc, c).sess = NoSession /\ ~Flow(op, pc, c).halt
BY Fixed, Bounds DEF Flow, Rest, CmdType, Places

LEMMA PcForm ==
  ASSUME NEW c \in CmdType, NEW p \in Places
  PROVE  /\ [c EXCEPT !.pc = p] \in CmdType
         /\ [c EXCEPT !.pc = p].pc = p
         /\ [c EXCEPT !.pc = p].op = c.op
         /\ [c EXCEPT !.pc = p].base = c.base
         /\ [c EXCEPT !.pc = p].key = c.key
         /\ [c EXCEPT !.pc = p].sess = c.sess
         /\ ([c EXCEPT !.pc = p].halt <=> c.halt)
BY DEF CmdType, Places

LEMMA Unknown ==
  ASSUME NEW c \in Contacts, Sound(c), ~c.known
  PROVE  c = NoContact
BY DEF Contacts, Sound, NoContact, NoKey

LEMMA NewSession ==
  ASSUME made \in 0 .. MaxSessions, made < MaxSessions, NEW k \in Keys
  PROVE  /\ made + 1 \in 0 .. MaxSessions
         /\ [n |-> made + 1, key |-> k] \in Sessions /\ [n |-> made + 1, key |-> k].key = k
<1>1. made + 1 \in 0 .. MaxSessions
  BY Bounds
<1> QED BY <1>1 DEF Sessions

LEMMA SessionFields ==
  ASSUME NEW s \in Sessions
  PROVE  s.key \in Keys /\ s.n \in 0 .. MaxSessions
BY DEF Sessions

-----------------------------------------------------------------------------
(* One step.  Each case first says what the step changes. *)

LEMMA MailTaken ==
  ASSUME mail \in Seq(Messages), mail # <<>>,
         \A i \in DOMAIN mail : mail[i].sess.key # NoKey
  PROVE  /\ Head(mail) \in Messages /\ Head(mail).sess \in Sessions /\ Head(mail).sess.key \in Keys
         /\ Head(mail).sess.key # NoKey /\ Tail(mail) \in Seq(Messages)
         /\ \A i \in DOMAIN Tail(mail) : Tail(mail)[i].sess.key # NoKey
<1>1. /\ Head(mail) \in Messages /\ Head(mail) = mail[1] /\ 1 \in DOMAIN mail
      /\ Tail(mail) \in Seq(Messages)
      /\ \A i \in DOMAIN Tail(mail) : i + 1 \in DOMAIN mail /\ Tail(mail)[i] = mail[i + 1]
  OBVIOUS
<1> QED BY <1>1 DEF Messages, Sessions

(* What the invariant says of the types, field by field. *)
Typed ==
  /\ contact \in Contacts /\ saved \in Contacts /\ cmd \in CmdType /\ rx \in RxType
  /\ cmd.base \in Contacts /\ cmd.key \in Keys /\ cmd.sess \in Sessions /\ cmd.halt \in BOOLEAN
  /\ rx.msg \in Messages /\ rx.msg.sess \in Sessions /\ auto \in BOOLEAN /\ mail \in Seq(Messages)
  /\ session \in Sessions /\ pending \in Sessions /\ theirs \in Sessions /\ server \in Keys
  /\ made \in 0 .. MaxSessions

LEMMA TypedHolds == ASSUME IInv PROVE Typed
BY Bounds DEF Typed, IInv, TypeOK, CmdType, Places, RxType, Messages, Keys

LEMMA VerifiedKeeps ==
  ASSUME IInv, Verified
  PROVE  IInv' /\ PinStep
<1>0. Typed
  BY TypedHolds
<1>g. /\ cmd = Rest /\ contact.known /\ contact.ik # NoKey /\ compared # NoKey
      /\ ~contact.blocked
      /\ UNCHANGED <<auto, session, pending, server, theirs, mail, cmd, rx, compared, relied,
                     crossed, revived, torn, made, faults>>
  BY <1>0, FlagForms DEF Typed, Verified, IInv, TypeOK, book, lanes, peer, marks, Command, Save
<1>n. /\ commands' \in 0 .. MaxCommands
  BY Bounds DEF Verified, IInv, TypeOK, Command
<1>r. /\ contact' \in Contacts /\ (contact'.known <=> contact.known) /\ contact'.ik = contact.ik
      /\ (contact'.verified <=> TRUE) /\ (contact'.blocked <=> contact.blocked)
      /\ saved' = contact'
  BY <1>0, FlagForms DEF Typed, Verified, IInv, TypeOK, book, lanes, peer, marks, Command, Save
<1>s. Sound(contact)' /\ Sound(saved)' /\ Sound(cmd.base)'
  BY <1>0, <1>g, <1>n, <1>r, Fixed, RestForm DEF Typed, IInv, TypeOK, RecordsAgree, LanesShaped,
     Sound, KeysReal, Fetching
<1>l. LanesShaped'
  BY <1>0, <1>g, <1>n, <1>r, RestForm, IdleForm, Fixed, SessionFields DEF Typed, IInv, TypeOK,
     LanesShaped, Fetching
<1>3. RecordsAgree'
  BY <1>0, <1>g, <1>n, <1>r, <1>s, RestForm, IdleForm, Fixed, SessionFields DEF Typed, IInv,
     LanesShaped, RecordsAgree, KeysReal, Fetching, Differs
<1>2. TypeOK'
  BY <1>0, <1>g, <1>n, <1>r, <1>s, RestForm, IdleForm, Fixed, SessionFields DEF Typed, IInv,
     TypeOK, CmdType, Places, RxType
<1>4. KeysReal'
  BY <1>0, <1>g, <1>n, <1>r, RestForm, IdleForm, Fixed, SessionFields, Bounds DEF Typed, IInv,
     TypeOK, LanesShaped, RecordsAgree, KeysReal, Keys, NoKey
<1>5. ComparedIsKnown'
  BY <1>0, <1>g, <1>n, <1>r, RestForm, IdleForm, Fixed, SessionFields DEF Typed, IInv, TypeOK,
     LanesShaped, RecordsAgree, KeysReal, ComparedIsKnown, Fetching, Differs
<1>p. ComparedIsPinned'
  BY <1>0, <1>g, <1>n, <1>r, RestForm, IdleForm, Fixed, SessionFields DEF Typed, IInv,
     LanesShaped, RecordsAgree, KeysReal, ComparedIsKnown, ComparedIsPinned, Held, Sound,
     Fetching, Differs
<1>6. SessionFollows'
  BY <1>0, <1>g, <1>n, <1>r, RestForm, IdleForm, Fixed, SessionFields DEF Typed, IInv,
     LanesShaped, RecordsAgree, KeysReal, SessionFollows, Under, Fetching, Differs
<1>7. PinStep
  BY <1>0, <1>g, <1>n, <1>r, RestForm, IdleForm, Fixed, SessionFields DEF Typed, PinStep, IInv,
     TypeOK, LanesShaped, RecordsAgree, KeysReal, Differs, Fetching
<1> QED BY <1>2, <1>l, <1>3, <1>4, <1>5, <1>p, <1>6, <1>7 DEF IInv

LEMMA AckKeeps ==
  ASSUME IInv, Ack
  PROVE  IInv' /\ PinStep
<1>0. Typed
  BY TypedHolds
<1>g. /\ cmd = Rest /\ contact.blocked
      /\ UNCHANGED <<auto, session, pending, server, theirs, mail, cmd, rx, relied, crossed,
                     revived, torn, made, faults>>
  BY <1>0, FlagForms DEF Typed, Ack, IInv, TypeOK, book, lanes, peer, marks, Command, Save
<1>n. /\ commands' \in 0 .. MaxCommands
  BY Bounds DEF Ack, IInv, TypeOK, Command
<1>r. /\ contact' \in Contacts /\ (contact'.known <=> contact.known) /\ contact'.ik = contact.ik
      /\ (contact'.verified <=> contact.verified) /\ (contact'.blocked <=> FALSE)
      /\ saved' = contact'
  BY <1>0, FlagForms DEF Typed, Ack, IInv, TypeOK, book, lanes, peer, marks, Command, Save
<1>o. /\ compared' = NoKey
  BY <1>0, FlagForms DEF Typed, Ack, IInv, TypeOK, book, lanes, peer, marks, Command, Save
<1>s. Sound(contact)' /\ Sound(saved)' /\ Sound(cmd.base)'
  BY <1>0, <1>g, <1>n, <1>r, <1>o, Fixed, RestForm DEF Typed, IInv, TypeOK, RecordsAgree,
     LanesShaped, Sound, KeysReal, Fetching
<1>l. LanesShaped'
  BY <1>0, <1>g, <1>n, <1>r, <1>o, RestForm, IdleForm, Fixed, SessionFields DEF Typed, IInv,
     TypeOK, LanesShaped, Fetching
<1>3. RecordsAgree'
  BY <1>0, <1>g, <1>n, <1>r, <1>o, <1>s, RestForm, IdleForm, Fixed, SessionFields DEF Typed, IInv,
     LanesShaped, RecordsAgree, KeysReal, Fetching, Differs
<1>2. TypeOK'
  BY <1>0, <1>g, <1>n, <1>r, <1>o, <1>s, RestForm, IdleForm, Fixed, SessionFields DEF Typed, IInv,
     TypeOK, CmdType, Places, RxType
<1>4. KeysReal'
  BY <1>0, <1>g, <1>n, <1>r, <1>o, RestForm, IdleForm, Fixed, SessionFields, Bounds DEF Typed,
     IInv, TypeOK, LanesShaped, RecordsAgree, KeysReal, Keys, NoKey
<1>5. ComparedIsKnown'
  BY <1>0, <1>g, <1>n, <1>r, <1>o, RestForm, IdleForm, Fixed, SessionFields DEF Typed, IInv,
     TypeOK, LanesShaped, RecordsAgree, KeysReal, ComparedIsKnown, Fetching, Differs
<1>p. ComparedIsPinned'
  BY <1>0, <1>g, <1>n, <1>r, <1>o, RestForm, IdleForm, Fixed, SessionFields DEF Typed, IInv,
     LanesShaped, RecordsAgree, KeysReal, ComparedIsKnown, ComparedIsPinned, Held, Sound,
     Fetching, Differs
<1>6. SessionFollows'
  BY <1>0, <1>g, <1>n, <1>r, <1>o, RestForm, IdleForm, Fixed, SessionFields DEF Typed, IInv,
     LanesShaped, RecordsAgree, KeysReal, SessionFollows, Under, Fetching, Differs
<1>7. PinStep
  BY <1>0, <1>g, <1>n, <1>r, <1>o, RestForm, IdleForm, Fixed, SessionFields DEF Typed, PinStep,
     IInv, TypeOK, LanesShaped, RecordsAgree, KeysReal, Differs, Fetching
<1> QED BY <1>2, <1>l, <1>3, <1>4, <1>5, <1>p, <1>6, <1>7 DEF IInv

LEMMA SettingsTrustKeeps ==
  ASSUME IInv, SettingsTrust
  PROVE  IInv' /\ PinStep
<1>0. Typed
  BY TypedHolds
<1>g. /\ cmd = Rest
      /\ UNCHANGED <<contact, saved, session, pending, server, theirs, mail, cmd, rx, compared,
                     crossed, revived, torn, made, faults>>
  BY <1>0 DEF Typed, SettingsTrust, IInv, TypeOK, book, lanes, peer, marks, Command
<1>n. /\ commands' \in 0 .. MaxCommands
  BY Bounds DEF SettingsTrust, IInv, TypeOK, Command
<1>o. /\ auto' \in BOOLEAN /\ relied' = TRUE
  BY <1>0 DEF Typed, SettingsTrust, IInv, TypeOK, book, lanes, peer, marks, Command
<1>s. Sound(contact)' /\ Sound(saved)' /\ Sound(cmd.base)'
  BY <1>0, <1>g, <1>n, <1>o, Fixed, RestForm DEF Typed, IInv, TypeOK, RecordsAgree, LanesShaped,
     Sound, KeysReal, Fetching
<1>l. LanesShaped'
  BY <1>0, <1>g, <1>n, <1>o, RestForm, IdleForm, Fixed, SessionFields DEF Typed, IInv, TypeOK,
     LanesShaped, Fetching
<1>3. RecordsAgree'
  BY <1>0, <1>g, <1>n, <1>o, <1>s, RestForm, IdleForm, Fixed, SessionFields DEF Typed, IInv,
     LanesShaped, RecordsAgree, KeysReal, Fetching, Differs
<1>2. TypeOK'
  BY <1>0, <1>g, <1>n, <1>o, <1>s, RestForm, IdleForm, Fixed, SessionFields DEF Typed, IInv,
     TypeOK, CmdType, Places, RxType
<1>4. KeysReal'
  BY <1>0, <1>g, <1>n, <1>o, RestForm, IdleForm, Fixed, SessionFields, Bounds DEF Typed, IInv,
     TypeOK, LanesShaped, RecordsAgree, KeysReal, Keys, NoKey
<1>5. ComparedIsKnown'
  BY <1>0, <1>g, <1>n, <1>o, RestForm, IdleForm, Fixed, SessionFields DEF Typed, IInv, TypeOK,
     LanesShaped, RecordsAgree, KeysReal, ComparedIsKnown, Fetching, Differs
<1>p. ComparedIsPinned'
  BY <1>0, <1>g, <1>n, <1>o, RestForm, IdleForm, Fixed, SessionFields DEF Typed, IInv,
     LanesShaped, RecordsAgree, KeysReal, ComparedIsKnown, ComparedIsPinned, Held, Sound,
     Fetching, Differs
<1>6. SessionFollows'
  BY <1>0, <1>g, <1>n, <1>o, RestForm, IdleForm, Fixed, SessionFields DEF Typed, IInv,
     LanesShaped, RecordsAgree, KeysReal, SessionFollows, Under, Fetching, Differs
<1>7. PinStep
  BY <1>0, <1>g, <1>n, <1>o, RestForm, IdleForm, Fixed, SessionFields DEF Typed, PinStep, IInv,
     TypeOK, LanesShaped, RecordsAgree, KeysReal, Differs, Fetching
<1> QED BY <1>2, <1>l, <1>3, <1>4, <1>5, <1>p, <1>6, <1>7 DEF IInv

LEMMA AddKeeps1 ==
  ASSUME IInv, Add, contact.known
  PROVE  IInv' /\ PinStep
<1>0. Typed
  BY TypedHolds
<1>g. /\ cmd = Rest /\ contact.known
      /\ UNCHANGED <<saved, auto, session, pending, server, theirs, mail, rx, compared, relied,
                     crossed, revived, torn, made, faults>>
  BY <1>0, Fixed, FlowForm DEF Typed, Add, IInv, TypeOK, book, lanes, peer, marks, Command,
     Become, Readd
<1>n. /\ commands' \in 0 .. MaxCommands
  BY Bounds DEF Add, IInv, TypeOK, Command
<1>r. /\ contact' = contact
  BY <1>0, Fixed, FlowForm DEF Typed, Add, IInv, TypeOK, book, lanes, peer, marks, Command,
     Become, Readd
<1>cr. cmd' = Flow("add", "lookup", contact)
  BY DEF Add, Command, Become, Readd
<1>ci. /\ Flow("add", "lookup", contact) \in CmdType
      /\ Flow("add", "lookup", contact).pc = "lookup"
      /\ Flow("add", "lookup", contact).op = "add"
      /\ Flow("add", "lookup", contact).base = contact
      /\ Flow("add", "lookup", contact).key = NoKey
      /\ Flow("add", "lookup", contact).sess = NoSession
      /\ (Flow("add", "lookup", contact).halt <=> FALSE)
  BY FlowForm, <1>0 DEF Typed, Places
<1>c. /\ cmd' \in CmdType /\ cmd'.pc = "lookup" /\ cmd'.op = "add" /\ cmd'.base = contact
      /\ cmd'.key = NoKey /\ cmd'.sess = NoSession /\ (cmd'.halt <=> FALSE)
  BY <1>cr, <1>ci, Zenon
<1>s. Sound(contact)' /\ Sound(saved)' /\ Sound(cmd.base)'
  BY <1>0, <1>g, <1>n, <1>r, <1>c, Fixed, RestForm DEF Typed, IInv, TypeOK, RecordsAgree,
     LanesShaped, Sound, KeysReal, Fetching
<1>l. LanesShaped'
  BY <1>0, <1>g, <1>n, <1>r, <1>c, RestForm, IdleForm, Fixed, SessionFields DEF Typed, IInv,
     TypeOK, LanesShaped, Fetching
<1>3. RecordsAgree'
  BY <1>0, <1>g, <1>n, <1>r, <1>c, <1>s, RestForm, IdleForm, Fixed, SessionFields DEF Typed, IInv,
     LanesShaped, RecordsAgree, KeysReal, Fetching, Differs
<1>2. TypeOK'
  BY <1>0, <1>g, <1>n, <1>r, <1>c, <1>s, RestForm, IdleForm, Fixed, SessionFields DEF Typed, IInv,
     TypeOK, CmdType, Places, RxType
<1>4. KeysReal'
  BY <1>0, <1>g, <1>n, <1>r, <1>c, RestForm, IdleForm, Fixed, SessionFields, Bounds DEF Typed,
     IInv, TypeOK, LanesShaped, RecordsAgree, KeysReal, Keys, NoKey
<1>5. ComparedIsKnown'
  BY <1>0, <1>g, <1>n, <1>r, <1>c, RestForm, IdleForm, Fixed, SessionFields DEF Typed, IInv,
     TypeOK, LanesShaped, RecordsAgree, KeysReal, ComparedIsKnown, Fetching, Differs
<1>p. ComparedIsPinned'
  BY <1>0, <1>g, <1>n, <1>r, <1>c, RestForm, IdleForm, Fixed, SessionFields DEF Typed, IInv,
     LanesShaped, RecordsAgree, KeysReal, ComparedIsKnown, ComparedIsPinned, Held, Sound,
     Fetching, Differs
<1>6. SessionFollows'
  BY <1>0, <1>g, <1>n, <1>r, <1>c, RestForm, IdleForm, Fixed, SessionFields DEF Typed, IInv,
     LanesShaped, RecordsAgree, KeysReal, SessionFollows, Under, Fetching, Differs
<1>7. PinStep
  BY <1>0, <1>g, <1>n, <1>r, <1>c, RestForm, IdleForm, Fixed, SessionFields DEF Typed, PinStep,
     IInv, TypeOK, LanesShaped, RecordsAgree, KeysReal, Differs, Fetching
<1> QED BY <1>2, <1>l, <1>3, <1>4, <1>5, <1>p, <1>6, <1>7 DEF IInv

LEMMA AddKeeps2 ==
  ASSUME IInv, Add, ~contact.known
  PROVE  IInv' /\ PinStep
<1>0. Typed
  BY TypedHolds
<1>g. /\ cmd = Rest /\ ~contact.known
      /\ UNCHANGED <<saved, auto, session, pending, server, theirs, mail, rx, compared, relied,
                     crossed, revived, torn, made, faults>>
  BY <1>0, Fixed, FlowForm DEF Typed, Add, IInv, TypeOK, book, lanes, peer, marks, Command,
     Become, Readd
<1>n. /\ commands' \in 0 .. MaxCommands
  BY Bounds DEF Add, IInv, TypeOK, Command
<1>r. /\ contact' = Stranger
  BY <1>0, Fixed, FlowForm DEF Typed, Add, IInv, TypeOK, book, lanes, peer, marks, Command,
     Become, Readd
<1>cr. cmd' = Flow("add", "lookup", Stranger)
  BY DEF Add, Command, Become, Readd
<1>ci. /\ Flow("add", "lookup", Stranger) \in CmdType
      /\ Flow("add", "lookup", Stranger).pc = "lookup"
      /\ Flow("add", "lookup", Stranger).op = "add"
      /\ Flow("add", "lookup", Stranger).base = Stranger
      /\ Flow("add", "lookup", Stranger).key = NoKey
      /\ Flow("add", "lookup", Stranger).sess = NoSession
      /\ (Flow("add", "lookup", Stranger).halt <=> FALSE)
  BY FlowForm, Fixed DEF Places
<1>c. /\ cmd' \in CmdType /\ cmd'.pc = "lookup" /\ cmd'.op = "add" /\ cmd'.base = Stranger
      /\ cmd'.key = NoKey /\ cmd'.sess = NoSession /\ (cmd'.halt <=> FALSE)
  BY <1>cr, <1>ci, Zenon
<1>u. contact = NoContact /\ saved = NoContact
  BY <1>0, <1>g, Unknown, RestForm DEF Typed, IInv, TypeOK, RecordsAgree
<1>s. Sound(contact)' /\ Sound(saved)' /\ Sound(cmd.base)'
  BY <1>0, <1>g, <1>n, <1>r, <1>c, <1>u, Fixed, RestForm DEF Typed, IInv, TypeOK, RecordsAgree,
     LanesShaped, Sound, KeysReal, Fetching
<1>l. LanesShaped'
  BY <1>0, <1>g, <1>n, <1>r, <1>c, <1>u, RestForm, IdleForm, Fixed, SessionFields DEF Typed, IInv,
     TypeOK, LanesShaped, Fetching
<1>3. RecordsAgree'
  BY <1>0, <1>g, <1>n, <1>r, <1>c, <1>u, <1>s, RestForm, IdleForm, Fixed, SessionFields DEF Typed,
     IInv, LanesShaped, RecordsAgree, KeysReal, Fetching, Differs
<1>2. TypeOK'
  BY <1>0, <1>g, <1>n, <1>r, <1>c, <1>u, <1>s, RestForm, IdleForm, Fixed, SessionFields DEF Typed,
     IInv, TypeOK, CmdType, Places, RxType
<1>4. KeysReal'
  BY <1>0, <1>g, <1>n, <1>r, <1>c, <1>u, RestForm, IdleForm, Fixed, SessionFields, Bounds
     DEF Typed, IInv, TypeOK, LanesShaped, RecordsAgree, KeysReal, Keys, NoKey
<1>5. ComparedIsKnown'
  BY <1>0, <1>g, <1>n, <1>r, <1>c, <1>u, RestForm, IdleForm, Fixed, SessionFields DEF Typed, IInv,
     TypeOK, LanesShaped, RecordsAgree, KeysReal, ComparedIsKnown, Fetching, Differs
<1>p. ComparedIsPinned'
  BY <1>0, <1>g, <1>n, <1>r, <1>c, <1>u, RestForm, IdleForm, Fixed, SessionFields DEF Typed, IInv,
     LanesShaped, RecordsAgree, KeysReal, ComparedIsKnown, ComparedIsPinned, Held, Sound,
     Fetching, Differs
<1>6. SessionFollows'
  BY <1>0, <1>g, <1>n, <1>r, <1>c, <1>u, RestForm, IdleForm, Fixed, SessionFields DEF Typed, IInv,
     LanesShaped, RecordsAgree, KeysReal, SessionFollows, Under, Fetching, Differs
<1>7. PinStep
  BY <1>0, <1>g, <1>n, <1>r, <1>c, <1>u, RestForm, IdleForm, Fixed, SessionFields DEF Typed,
     PinStep, IInv, TypeOK, LanesShaped, RecordsAgree, KeysReal, Differs, Fetching
<1> QED BY <1>2, <1>l, <1>3, <1>4, <1>5, <1>p, <1>6, <1>7 DEF IInv

LEMMA PromoteKeeps1 ==
  ASSUME IInv, Promote, pending = NoSession
  PROVE  IInv' /\ PinStep
<1>0. Typed
  BY TypedHolds
<1>g. /\ cmd.op = "add" /\ cmd.pc = "lookup" /\ pending = NoSession
      /\ UNCHANGED <<contact, auto, session, pending, server, theirs, mail, rx, compared, relied,
                     crossed, revived, torn, made, commands, faults>>
  BY <1>0 DEF Typed, Promote, IInv, TypeOK, book, lanes, peer, marks, Become
<1>r. /\ saved' = contact
  BY <1>0 DEF Typed, Promote, IInv, TypeOK, book, lanes, peer, marks, Become
<1>c. /\ cmd' = Rest
  BY <1>0 DEF Typed, Promote, IInv, TypeOK, book, lanes, peer, marks, Become
<1>s. Sound(contact)' /\ Sound(saved)' /\ Sound(cmd.base)'
  BY <1>0, <1>g, <1>r, <1>c, Fixed, RestForm DEF Typed, IInv, TypeOK, RecordsAgree, LanesShaped,
     Sound, KeysReal, Fetching
<1>l. LanesShaped'
  BY <1>0, <1>g, <1>r, <1>c, RestForm, IdleForm, Fixed, SessionFields DEF Typed, IInv, TypeOK,
     LanesShaped, Fetching
<1>3. RecordsAgree'
  BY <1>0, <1>g, <1>r, <1>c, <1>s, RestForm, IdleForm, Fixed, SessionFields DEF Typed, IInv,
     LanesShaped, RecordsAgree, KeysReal, Fetching, Differs
<1>2. TypeOK'
  BY <1>0, <1>g, <1>r, <1>c, <1>s, RestForm, IdleForm, Fixed, SessionFields DEF Typed, IInv,
     TypeOK, CmdType, Places, RxType
<1>4. KeysReal'
  BY <1>0, <1>g, <1>r, <1>c, RestForm, IdleForm, Fixed, SessionFields, Bounds DEF Typed, IInv,
     TypeOK, LanesShaped, RecordsAgree, KeysReal, Keys, NoKey
<1>5. ComparedIsKnown'
  BY <1>0, <1>g, <1>r, <1>c, RestForm, IdleForm, Fixed, SessionFields DEF Typed, IInv, TypeOK,
     LanesShaped, RecordsAgree, KeysReal, ComparedIsKnown, Fetching, Differs
<1>p. ComparedIsPinned'
  BY <1>0, <1>g, <1>r, <1>c, RestForm, IdleForm, Fixed, SessionFields DEF Typed, IInv,
     LanesShaped, RecordsAgree, KeysReal, ComparedIsKnown, ComparedIsPinned, Held, Sound,
     Fetching, Differs
<1>6. SessionFollows'
  BY <1>0, <1>g, <1>r, <1>c, RestForm, IdleForm, Fixed, SessionFields DEF Typed, IInv,
     LanesShaped, RecordsAgree, KeysReal, SessionFollows, Under, Fetching, Differs
<1>7. PinStep
  BY <1>0, <1>g, <1>r, <1>c, RestForm, IdleForm, Fixed, SessionFields DEF Typed, PinStep, IInv,
     TypeOK, LanesShaped, RecordsAgree, KeysReal, Differs, Fetching
<1> QED BY <1>2, <1>l, <1>3, <1>4, <1>5, <1>p, <1>6, <1>7 DEF IInv

LEMMA PromoteKeeps2 ==
  ASSUME IInv, Promote, pending # NoSession
  PROVE  IInv' /\ PinStep
<1>0. Typed
  BY TypedHolds
<1>g. /\ cmd.op = "add" /\ cmd.pc = "lookup" /\ pending # NoSession
      /\ UNCHANGED <<contact, saved, auto, pending, server, theirs, mail, rx, compared, relied,
                     crossed, revived, torn, made, commands, faults>>
  BY <1>0, SessionFields DEF Typed, Promote, IInv, TypeOK, book, lanes, peer, marks, Become, CmdType
<1>cr. cmd' = [cmd EXCEPT !.pc = "pin", !.key = pending.key]
  BY DEF Promote, Become
<1>ct. cmd \in CmdType /\ "pin" \in Places /\ pending.key \in Keys
  BY <1>0, SessionFields DEF Typed, Places
<1>ci. /\ [cmd EXCEPT !.pc = "pin", !.key = pending.key] \in CmdType
      /\ [cmd EXCEPT !.pc = "pin", !.key = pending.key].pc = "pin"
      /\ [cmd EXCEPT !.pc = "pin", !.key = pending.key].op = cmd.op
      /\ [cmd EXCEPT !.pc = "pin", !.key = pending.key].base = cmd.base
      /\ [cmd EXCEPT !.pc = "pin", !.key = pending.key].key = pending.key
      /\ [cmd EXCEPT !.pc = "pin", !.key = pending.key].sess = cmd.sess
      /\ ([cmd EXCEPT !.pc = "pin", !.key = pending.key].halt <=> cmd.halt)
  BY <1>ct DEF CmdType, Places
<1>c. /\ cmd' \in CmdType /\ cmd'.pc = "pin" /\ cmd'.op = cmd.op /\ cmd'.base = cmd.base
      /\ cmd'.key = pending.key /\ cmd'.sess = cmd.sess /\ (cmd'.halt <=> cmd.halt)
  BY <1>cr, <1>ci, Zenon
<1>o. /\ session' = pending
  BY <1>0, SessionFields DEF Typed, Promote, IInv, TypeOK, book, lanes, peer, marks, Become, CmdType
<1>s. Sound(contact)' /\ Sound(saved)' /\ Sound(cmd.base)'
  BY <1>0, <1>g, <1>c, <1>o, Fixed, RestForm DEF Typed, IInv, TypeOK, RecordsAgree, LanesShaped,
     Sound, KeysReal, Fetching
<1>l. LanesShaped'
  BY <1>0, <1>g, <1>c, <1>o, RestForm, IdleForm, Fixed, SessionFields DEF Typed, IInv, TypeOK,
     LanesShaped, Fetching
<1>3. RecordsAgree'
  BY <1>0, <1>g, <1>c, <1>o, <1>s, RestForm, IdleForm, Fixed, SessionFields DEF Typed, IInv,
     LanesShaped, RecordsAgree, KeysReal, Fetching, Differs
<1>2. TypeOK'
  BY <1>0, <1>g, <1>c, <1>o, <1>s, RestForm, IdleForm, Fixed, SessionFields DEF Typed, IInv,
     TypeOK, CmdType, Places, RxType
<1>4. KeysReal'
  BY <1>0, <1>g, <1>c, <1>o, RestForm, IdleForm, Fixed, SessionFields, Bounds DEF Typed, IInv,
     TypeOK, LanesShaped, RecordsAgree, KeysReal, Keys, NoKey
<1>5. ComparedIsKnown'
  BY <1>0, <1>g, <1>c, <1>o, RestForm, IdleForm, Fixed, SessionFields DEF Typed, IInv, TypeOK,
     LanesShaped, RecordsAgree, KeysReal, ComparedIsKnown, Fetching, Differs
<1>p. ComparedIsPinned'
  BY <1>0, <1>g, <1>c, <1>o, RestForm, IdleForm, Fixed, SessionFields DEF Typed, IInv,
     LanesShaped, RecordsAgree, KeysReal, ComparedIsKnown, ComparedIsPinned, Held, Sound,
     Fetching, Differs
<1>6. SessionFollows'
  BY <1>0, <1>g, <1>c, <1>o, RestForm, IdleForm, Fixed, SessionFields DEF Typed, IInv,
     LanesShaped, RecordsAgree, KeysReal, SessionFollows, Under, Fetching, Differs
<1>7. PinStep
  BY <1>0, <1>g, <1>c, <1>o, RestForm, IdleForm, Fixed, SessionFields DEF Typed, PinStep, IInv,
     TypeOK, LanesShaped, RecordsAgree, KeysReal, Differs, Fetching
<1> QED BY <1>2, <1>l, <1>3, <1>4, <1>5, <1>p, <1>6, <1>7 DEF IInv

LEMMA FinishAddKeeps ==
  ASSUME IInv, FinishAdd
  PROVE  IInv' /\ PinStep
<1>0. Typed
  BY TypedHolds
<1>g. /\ cmd.op = "add" /\ cmd.pc = "pin"
      /\ UNCHANGED <<auto, session, server, theirs, mail, rx, compared, relied, torn, made,
                     commands, faults>>
  BY <1>0, RecordForms DEF Typed, FinishAdd, IInv, TypeOK, book, lanes, peer, marks, Become, Save,
     Cross
<1>rr. /\ contact' = Pinned(cmd.base, cmd.key)
      /\ saved' = contact'
  BY DEF FinishAdd, Become, Save, Cross
<1>rt. cmd.base \in Contacts /\ cmd.key \in Keys /\ auto \in BOOLEAN
  BY <1>0, SessionFields DEF Typed, Places
<1>ri. /\ Pinned(cmd.base, cmd.key) \in Contacts
      /\ (Pinned(cmd.base, cmd.key).known <=> cmd.base.known)
      /\ Pinned(cmd.base, cmd.key).ik = cmd.key
      /\ (Pinned(cmd.base, cmd.key).verified <=> (auto \/ cmd.base.verified))
      /\ (Pinned(cmd.base, cmd.key).blocked <=> cmd.base.blocked)
  BY RecordForms, <1>rt
<1>r. /\ contact' \in Contacts /\ (contact'.known <=> cmd.base.known) /\ contact'.ik = cmd.key
      /\ (contact'.verified <=> (auto \/ cmd.base.verified))
      /\ (contact'.blocked <=> cmd.base.blocked) /\ saved' = contact'
  BY <1>rr, <1>ri, Zenon
<1>c. /\ cmd' = Rest
  BY <1>0, RecordForms DEF Typed, FinishAdd, IInv, TypeOK, book, lanes, peer, marks, Become, Save,
     Cross
<1>o. /\ pending' = NoSession /\ crossed' = (crossed \/ cmd.base # contact)
      /\ revived' = (revived \/ Differs(cmd.base, cmd.key))
  BY <1>0, RecordForms DEF Typed, FinishAdd, IInv, TypeOK, book, lanes, peer, marks, Become, Save,
     Cross
<1>s. Sound(contact)' /\ Sound(saved)' /\ Sound(cmd.base)'
  BY <1>0, <1>g, <1>r, <1>c, <1>o, Fixed, RestForm DEF Typed, IInv, TypeOK, RecordsAgree,
     LanesShaped, Sound, KeysReal, Fetching
<1>l. LanesShaped'
  BY <1>0, <1>g, <1>r, <1>c, <1>o, RestForm, IdleForm, Fixed, SessionFields DEF Typed, IInv,
     TypeOK, LanesShaped, Fetching
<1>3. RecordsAgree'
  BY <1>0, <1>g, <1>r, <1>c, <1>o, <1>s, RestForm, IdleForm, Fixed, SessionFields DEF Typed, IInv,
     LanesShaped, RecordsAgree, KeysReal, Fetching, Differs
<1>2. TypeOK'
  BY <1>0, <1>g, <1>r, <1>c, <1>o, <1>s, RestForm, IdleForm, Fixed, SessionFields DEF Typed, IInv,
     TypeOK, CmdType, Places, RxType
<1>4. KeysReal'
  BY <1>0, <1>g, <1>r, <1>c, <1>o, RestForm, IdleForm, Fixed, SessionFields, Bounds DEF Typed,
     IInv, TypeOK, LanesShaped, RecordsAgree, KeysReal, Keys, NoKey
<1>5. ComparedIsKnown'
  BY <1>0, <1>g, <1>r, <1>c, <1>o, RestForm, IdleForm, Fixed, SessionFields DEF Typed, IInv,
     TypeOK, LanesShaped, RecordsAgree, KeysReal, ComparedIsKnown, Fetching, Differs
<1>p. ComparedIsPinned'
  BY <1>0, <1>g, <1>r, <1>c, <1>o, RestForm, IdleForm, Fixed, SessionFields DEF Typed, IInv,
     LanesShaped, RecordsAgree, KeysReal, ComparedIsKnown, ComparedIsPinned, Held, Sound,
     Fetching, Differs
<1>6. SessionFollows'
  BY ZenonT(40), <1>0, <1>g, <1>r, <1>c, <1>o, RestForm, IdleForm, Fixed, SessionFields DEF Typed, IInv,
     LanesShaped, RecordsAgree, KeysReal, SessionFollows, Under, Fetching, Differs
<1>7. PinStep
  BY <1>0, <1>g, <1>r, <1>c, <1>o, RestForm, IdleForm, Fixed, SessionFields DEF Typed, PinStep,
     IInv, TypeOK, LanesShaped, RecordsAgree, KeysReal, Differs, Fetching
<1> QED BY <1>2, <1>l, <1>3, <1>4, <1>5, <1>p, <1>6, <1>7 DEF IInv

LEMMA RemoveAllKeeps ==
  ASSUME IInv, RemoveAll
  PROVE  IInv' /\ PinStep
<1>0. Typed
  BY TypedHolds
<1>g. /\ cmd = Rest /\ contact.known
      /\ UNCHANGED <<contact, saved, auto, session, pending, server, theirs, mail, rx, compared,
                     relied, crossed, revived, torn, made, faults>>
  BY <1>0, Fixed, FlowForm DEF Typed, RemoveAll, IInv, TypeOK, book, lanes, peer, marks, Command,
     Become
<1>n. /\ commands' \in 0 .. MaxCommands
  BY Bounds DEF RemoveAll, IInv, TypeOK, Command
<1>cr. cmd' = Flow("clear", "forget", NoContact)
  BY DEF RemoveAll, Command, Become
<1>ci. /\ Flow("clear", "forget", NoContact) \in CmdType
      /\ Flow("clear", "forget", NoContact).pc = "forget"
      /\ Flow("clear", "forget", NoContact).op = "clear"
      /\ Flow("clear", "forget", NoContact).base = NoContact
      /\ Flow("clear", "forget", NoContact).key = NoKey
      /\ Flow("clear", "forget", NoContact).sess = NoSession
      /\ (Flow("clear", "forget", NoContact).halt <=> FALSE)
  BY FlowForm, Fixed DEF Places
<1>c. /\ cmd' \in CmdType /\ cmd'.pc = "forget" /\ cmd'.op = "clear" /\ cmd'.base = NoContact
      /\ cmd'.key = NoKey /\ cmd'.sess = NoSession /\ (cmd'.halt <=> FALSE)
  BY <1>cr, <1>ci, Zenon
<1>s. Sound(contact)' /\ Sound(saved)' /\ Sound(cmd.base)'
  BY <1>0, <1>g, <1>n, <1>c, Fixed, RestForm DEF Typed, IInv, TypeOK, RecordsAgree, LanesShaped,
     Sound, KeysReal, Fetching
<1>l. LanesShaped'
  BY <1>0, <1>g, <1>n, <1>c, RestForm, IdleForm, Fixed, SessionFields DEF Typed, IInv, TypeOK,
     LanesShaped, Fetching
<1>3. RecordsAgree'
  BY <1>0, <1>g, <1>n, <1>c, <1>s, RestForm, IdleForm, Fixed, SessionFields DEF Typed, IInv,
     LanesShaped, RecordsAgree, KeysReal, Fetching, Differs
<1>2. TypeOK'
  BY <1>0, <1>g, <1>n, <1>c, <1>s, RestForm, IdleForm, Fixed, SessionFields DEF Typed, IInv,
     TypeOK, CmdType, Places, RxType
<1>4. KeysReal'
  BY <1>0, <1>g, <1>n, <1>c, RestForm, IdleForm, Fixed, SessionFields, Bounds DEF Typed, IInv,
     TypeOK, LanesShaped, RecordsAgree, KeysReal, Keys, NoKey
<1>5. ComparedIsKnown'
  BY <1>0, <1>g, <1>n, <1>c, RestForm, IdleForm, Fixed, SessionFields DEF Typed, IInv, TypeOK,
     LanesShaped, RecordsAgree, KeysReal, ComparedIsKnown, Fetching, Differs
<1>p. ComparedIsPinned'
  BY <1>0, <1>g, <1>n, <1>c, RestForm, IdleForm, Fixed, SessionFields DEF Typed, IInv,
     LanesShaped, RecordsAgree, KeysReal, ComparedIsKnown, ComparedIsPinned, Held, Sound,
     Fetching, Differs
<1>6. SessionFollows'
  BY <1>0, <1>g, <1>n, <1>c, RestForm, IdleForm, Fixed, SessionFields DEF Typed, IInv,
     LanesShaped, RecordsAgree, KeysReal, SessionFollows, Under, Fetching, Differs
<1>7. PinStep
  BY <1>0, <1>g, <1>n, <1>c, RestForm, IdleForm, Fixed, SessionFields DEF Typed, PinStep, IInv,
     TypeOK, LanesShaped, RecordsAgree, KeysReal, Differs, Fetching
<1> QED BY <1>2, <1>l, <1>3, <1>4, <1>5, <1>p, <1>6, <1>7 DEF IInv

LEMMA ClearKeeps ==
  ASSUME IInv, Clear
  PROVE  IInv' /\ PinStep
<1>0. Typed
  BY TypedHolds
<1>g. /\ cmd.op = "clear" /\ cmd.pc = "unlist"
      /\ UNCHANGED <<auto, session, pending, server, theirs, mail, rx, relied, revived, torn,
                     made, commands, faults>>
  BY <1>0 DEF Typed, Clear, IInv, TypeOK, book, lanes, peer, marks, Become, Save
<1>r. /\ contact' = NoContact /\ saved' = NoContact
  BY <1>0 DEF Typed, Clear, IInv, TypeOK, book, lanes, peer, marks, Become, Save
<1>c. /\ cmd' = Rest
  BY <1>0 DEF Typed, Clear, IInv, TypeOK, book, lanes, peer, marks, Become, Save
<1>o. /\ compared' = NoKey /\ crossed' = (crossed \/ session # NoSession)
  BY <1>0 DEF Typed, Clear, IInv, TypeOK, book, lanes, peer, marks, Become, Save
<1>s. Sound(contact)' /\ Sound(saved)' /\ Sound(cmd.base)'
  BY <1>0, <1>g, <1>r, <1>c, <1>o, Fixed, RestForm DEF Typed, IInv, TypeOK, RecordsAgree,
     LanesShaped, Sound, KeysReal, Fetching
<1>l. LanesShaped'
  BY <1>0, <1>g, <1>r, <1>c, <1>o, RestForm, IdleForm, Fixed, SessionFields DEF Typed, IInv,
     TypeOK, LanesShaped, Fetching
<1>3. RecordsAgree'
  BY <1>0, <1>g, <1>r, <1>c, <1>o, <1>s, RestForm, IdleForm, Fixed, SessionFields DEF Typed, IInv,
     LanesShaped, RecordsAgree, KeysReal, Fetching, Differs
<1>2. TypeOK'
  BY <1>0, <1>g, <1>r, <1>c, <1>o, <1>s, RestForm, IdleForm, Fixed, SessionFields DEF Typed, IInv,
     TypeOK, CmdType, Places, RxType
<1>4. KeysReal'
  BY <1>0, <1>g, <1>r, <1>c, <1>o, RestForm, IdleForm, Fixed, SessionFields, Bounds DEF Typed,
     IInv, TypeOK, LanesShaped, RecordsAgree, KeysReal, Keys, NoKey
<1>5. ComparedIsKnown'
  BY <1>0, <1>g, <1>r, <1>c, <1>o, RestForm, IdleForm, Fixed, SessionFields DEF Typed, IInv,
     TypeOK, LanesShaped, RecordsAgree, KeysReal, ComparedIsKnown, Fetching, Differs
<1>p. ComparedIsPinned'
  BY <1>0, <1>g, <1>r, <1>c, <1>o, RestForm, IdleForm, Fixed, SessionFields DEF Typed, IInv,
     LanesShaped, RecordsAgree, KeysReal, ComparedIsKnown, ComparedIsPinned, Held, Sound,
     Fetching, Differs
<1>6. SessionFollows'
  BY <1>0, <1>g, <1>r, <1>c, <1>o, RestForm, IdleForm, Fixed, SessionFields DEF Typed, IInv,
     LanesShaped, RecordsAgree, KeysReal, SessionFollows, Under, Fetching, Differs
<1>7. PinStep
  BY <1>0, <1>g, <1>r, <1>c, <1>o, RestForm, IdleForm, Fixed, SessionFields DEF Typed, PinStep,
     IInv, TypeOK, LanesShaped, RecordsAgree, KeysReal, Differs, Fetching
<1> QED BY <1>2, <1>l, <1>3, <1>4, <1>5, <1>p, <1>6, <1>7 DEF IInv

LEMMA RemoveKeeps ==
  ASSUME IInv, Remove
  PROVE  IInv' /\ PinStep
<1>0. Typed
  BY TypedHolds
<1>g. /\ cmd = Rest /\ contact.known
      /\ UNCHANGED <<saved, auto, session, pending, server, theirs, mail, rx, compared, relied,
                     crossed, revived, torn, made, faults>>
  BY <1>0, Fixed, FlowForm DEF Typed, Remove, IInv, TypeOK, book, lanes, peer, marks, Command,
     Become
<1>n. /\ commands' \in 0 .. MaxCommands
  BY Bounds DEF Remove, IInv, TypeOK, Command
<1>r. /\ contact' = NoContact
  BY <1>0, Fixed, FlowForm DEF Typed, Remove, IInv, TypeOK, book, lanes, peer, marks, Command,
     Become
<1>cr. cmd' = Flow("remove", "forget", NoContact)
  BY DEF Remove, Command, Become
<1>ci. /\ Flow("remove", "forget", NoContact) \in CmdType
      /\ Flow("remove", "forget", NoContact).pc = "forget"
      /\ Flow("remove", "forget", NoContact).op = "remove"
      /\ Flow("remove", "forget", NoContact).base = NoContact
      /\ Flow("remove", "forget", NoContact).key = NoKey
      /\ Flow("remove", "forget", NoContact).sess = NoSession
      /\ (Flow("remove", "forget", NoContact).halt <=> FALSE)
  BY FlowForm, Fixed DEF Places
<1>c. /\ cmd' \in CmdType /\ cmd'.pc = "forget" /\ cmd'.op = "remove" /\ cmd'.base = NoContact
      /\ cmd'.key = NoKey /\ cmd'.sess = NoSession /\ (cmd'.halt <=> FALSE)
  BY <1>cr, <1>ci, Zenon
<1>s. Sound(contact)' /\ Sound(saved)' /\ Sound(cmd.base)'
  BY <1>0, <1>g, <1>n, <1>r, <1>c, Fixed, RestForm DEF Typed, IInv, TypeOK, RecordsAgree,
     LanesShaped, Sound, KeysReal, Fetching
<1>l. LanesShaped'
  BY <1>0, <1>g, <1>n, <1>r, <1>c, RestForm, IdleForm, Fixed, SessionFields DEF Typed, IInv,
     TypeOK, LanesShaped, Fetching
<1>3. RecordsAgree'
  BY <1>0, <1>g, <1>n, <1>r, <1>c, <1>s, RestForm, IdleForm, Fixed, SessionFields DEF Typed, IInv,
     LanesShaped, RecordsAgree, KeysReal, Fetching, Differs
<1>2. TypeOK'
  BY <1>0, <1>g, <1>n, <1>r, <1>c, <1>s, RestForm, IdleForm, Fixed, SessionFields DEF Typed, IInv,
     TypeOK, CmdType, Places, RxType
<1>4. KeysReal'
  BY <1>0, <1>g, <1>n, <1>r, <1>c, RestForm, IdleForm, Fixed, SessionFields, Bounds DEF Typed,
     IInv, TypeOK, LanesShaped, RecordsAgree, KeysReal, Keys, NoKey
<1>5. ComparedIsKnown'
  BY <1>0, <1>g, <1>n, <1>r, <1>c, RestForm, IdleForm, Fixed, SessionFields DEF Typed, IInv,
     TypeOK, LanesShaped, RecordsAgree, KeysReal, ComparedIsKnown, Fetching, Differs
<1>p. ComparedIsPinned'
  BY <1>0, <1>g, <1>n, <1>r, <1>c, RestForm, IdleForm, Fixed, SessionFields DEF Typed, IInv,
     LanesShaped, RecordsAgree, KeysReal, ComparedIsKnown, ComparedIsPinned, Held, Sound,
     Fetching, Differs
<1>6. SessionFollows'
  BY <1>0, <1>g, <1>n, <1>r, <1>c, RestForm, IdleForm, Fixed, SessionFields DEF Typed, IInv,
     LanesShaped, RecordsAgree, KeysReal, SessionFollows, Under, Fetching, Differs
<1>7. PinStep
  BY <1>0, <1>g, <1>n, <1>r, <1>c, RestForm, IdleForm, Fixed, SessionFields DEF Typed, PinStep,
     IInv, TypeOK, LanesShaped, RecordsAgree, KeysReal, Differs, Fetching
<1> QED BY <1>2, <1>l, <1>3, <1>4, <1>5, <1>p, <1>6, <1>7 DEF IInv

LEMMA ForgetKeeps ==
  ASSUME IInv, Forget
  PROVE  IInv' /\ PinStep
<1>0. Typed
  BY TypedHolds
<1>g. /\ cmd.pc = "forget"
      /\ UNCHANGED <<contact, saved, auto, server, theirs, mail, rx, compared, relied, crossed,
                     revived, torn, made, commands, faults>>
  BY <1>0 DEF Typed, Forget, IInv, TypeOK, book, lanes, peer, marks, Become, CmdType
<1>cr. cmd' = [cmd EXCEPT !.pc = "unlist"]
  BY DEF Forget, Become
<1>ct. cmd \in CmdType /\ "unlist" \in Places
  BY <1>0, SessionFields DEF Typed, Places
<1>ci. /\ [cmd EXCEPT !.pc = "unlist"] \in CmdType
      /\ [cmd EXCEPT !.pc = "unlist"].pc = "unlist"
      /\ [cmd EXCEPT !.pc = "unlist"].op = cmd.op
      /\ [cmd EXCEPT !.pc = "unlist"].base = cmd.base
      /\ [cmd EXCEPT !.pc = "unlist"].key = cmd.key
      /\ [cmd EXCEPT !.pc = "unlist"].sess = cmd.sess
      /\ ([cmd EXCEPT !.pc = "unlist"].halt <=> cmd.halt)
  BY PcForm, <1>ct
<1>c. /\ cmd' \in CmdType /\ cmd'.pc = "unlist" /\ cmd'.op = cmd.op /\ cmd'.base = cmd.base
      /\ cmd'.key = cmd.key /\ cmd'.sess = cmd.sess /\ (cmd'.halt <=> cmd.halt)
  BY <1>cr, <1>ci, Zenon
<1>o. /\ session' = NoSession /\ pending' = NoSession
  BY <1>0 DEF Typed, Forget, IInv, TypeOK, book, lanes, peer, marks, Become, CmdType
<1>s. Sound(contact)' /\ Sound(saved)' /\ Sound(cmd.base)'
  BY <1>0, <1>g, <1>c, <1>o, Fixed, RestForm DEF Typed, IInv, TypeOK, RecordsAgree, LanesShaped,
     Sound, KeysReal, Fetching
<1>l. LanesShaped'
  BY <1>0, <1>g, <1>c, <1>o, RestForm, IdleForm, Fixed, SessionFields DEF Typed, IInv, TypeOK,
     LanesShaped, Fetching
<1>3. RecordsAgree'
  BY <1>0, <1>g, <1>c, <1>o, <1>s, RestForm, IdleForm, Fixed, SessionFields DEF Typed, IInv,
     LanesShaped, RecordsAgree, KeysReal, Fetching, Differs
<1>2. TypeOK'
  BY <1>0, <1>g, <1>c, <1>o, <1>s, RestForm, IdleForm, Fixed, SessionFields DEF Typed, IInv,
     TypeOK, CmdType, Places, RxType
<1>4. KeysReal'
  BY <1>0, <1>g, <1>c, <1>o, RestForm, IdleForm, Fixed, SessionFields, Bounds DEF Typed, IInv,
     TypeOK, LanesShaped, RecordsAgree, KeysReal, Keys, NoKey
<1>5. ComparedIsKnown'
  BY <1>0, <1>g, <1>c, <1>o, RestForm, IdleForm, Fixed, SessionFields DEF Typed, IInv, TypeOK,
     LanesShaped, RecordsAgree, KeysReal, ComparedIsKnown, Fetching, Differs
<1>p. ComparedIsPinned'
  BY <1>0, <1>g, <1>c, <1>o, RestForm, IdleForm, Fixed, SessionFields DEF Typed, IInv,
     LanesShaped, RecordsAgree, KeysReal, ComparedIsKnown, ComparedIsPinned, Held, Sound,
     Fetching, Differs
<1>6. SessionFollows'
  BY <1>0, <1>g, <1>c, <1>o, RestForm, IdleForm, Fixed, SessionFields DEF Typed, IInv,
     LanesShaped, RecordsAgree, KeysReal, SessionFollows, Under, Fetching, Differs
<1>7. PinStep
  BY <1>0, <1>g, <1>c, <1>o, RestForm, IdleForm, Fixed, SessionFields DEF Typed, PinStep, IInv,
     TypeOK, LanesShaped, RecordsAgree, KeysReal, Differs, Fetching
<1> QED BY <1>2, <1>l, <1>3, <1>4, <1>5, <1>p, <1>6, <1>7 DEF IInv

LEMMA UnlistKeeps ==
  ASSUME IInv, Unlist
  PROVE  IInv' /\ PinStep
<1>0. Typed
  BY TypedHolds
<1>g. /\ cmd.op = "remove" /\ cmd.pc = "unlist"
      /\ UNCHANGED <<contact, auto, session, pending, server, theirs, mail, rx, relied, crossed,
                     revived, torn, made, commands, faults>>
  BY <1>0 DEF Typed, Unlist, IInv, TypeOK, book, lanes, peer, marks, Become
<1>r. /\ saved' = contact
  BY <1>0 DEF Typed, Unlist, IInv, TypeOK, book, lanes, peer, marks, Become
<1>c. /\ cmd' = Rest
  BY <1>0 DEF Typed, Unlist, IInv, TypeOK, book, lanes, peer, marks, Become
<1>o. /\ compared' = NoKey
  BY <1>0 DEF Typed, Unlist, IInv, TypeOK, book, lanes, peer, marks, Become
<1>s. Sound(contact)' /\ Sound(saved)' /\ Sound(cmd.base)'
  BY <1>0, <1>g, <1>r, <1>c, <1>o, Fixed, RestForm DEF Typed, IInv, TypeOK, RecordsAgree,
     LanesShaped, Sound, KeysReal, Fetching
<1>l. LanesShaped'
  BY <1>0, <1>g, <1>r, <1>c, <1>o, RestForm, IdleForm, Fixed, SessionFields DEF Typed, IInv,
     TypeOK, LanesShaped, Fetching
<1>3. RecordsAgree'
  BY <1>0, <1>g, <1>r, <1>c, <1>o, <1>s, RestForm, IdleForm, Fixed, SessionFields DEF Typed, IInv,
     LanesShaped, RecordsAgree, KeysReal, Fetching, Differs
<1>2. TypeOK'
  BY <1>0, <1>g, <1>r, <1>c, <1>o, <1>s, RestForm, IdleForm, Fixed, SessionFields DEF Typed, IInv,
     TypeOK, CmdType, Places, RxType
<1>4. KeysReal'
  BY <1>0, <1>g, <1>r, <1>c, <1>o, RestForm, IdleForm, Fixed, SessionFields, Bounds DEF Typed,
     IInv, TypeOK, LanesShaped, RecordsAgree, KeysReal, Keys, NoKey
<1>5. ComparedIsKnown'
  BY <1>0, <1>g, <1>r, <1>c, <1>o, RestForm, IdleForm, Fixed, SessionFields DEF Typed, IInv,
     TypeOK, LanesShaped, RecordsAgree, KeysReal, ComparedIsKnown, Fetching, Differs
<1>p. ComparedIsPinned'
  BY <1>0, <1>g, <1>r, <1>c, <1>o, RestForm, IdleForm, Fixed, SessionFields DEF Typed, IInv,
     LanesShaped, RecordsAgree, KeysReal, ComparedIsKnown, ComparedIsPinned, Held, Sound,
     Fetching, Differs
<1>6. SessionFollows'
  BY <1>0, <1>g, <1>r, <1>c, <1>o, RestForm, IdleForm, Fixed, SessionFields DEF Typed, IInv,
     LanesShaped, RecordsAgree, KeysReal, SessionFollows, Under, Fetching, Differs
<1>7. PinStep
  BY <1>0, <1>g, <1>r, <1>c, <1>o, RestForm, IdleForm, Fixed, SessionFields DEF Typed, PinStep,
     IInv, TypeOK, LanesShaped, RecordsAgree, KeysReal, Differs, Fetching
<1> QED BY <1>2, <1>l, <1>3, <1>4, <1>5, <1>p, <1>6, <1>7 DEF IInv

LEMMA VerifyKeeps ==
  ASSUME IInv, Verify
  PROVE  IInv' /\ PinStep
<1>0. Typed
  BY TypedHolds
<1>g. /\ cmd = Rest /\ contact.known
      /\ UNCHANGED <<contact, saved, auto, session, pending, server, theirs, mail, rx, compared,
                     relied, crossed, revived, torn, made, faults>>
  BY <1>0, FlowForm DEF Typed, Verify, IInv, TypeOK, book, lanes, peer, marks, Command, Become
<1>n. /\ commands' \in 0 .. MaxCommands
  BY Bounds DEF Verify, IInv, TypeOK, Command
<1>cr. cmd' = Flow("verify", "ask", contact)
  BY DEF Verify, Command, Become
<1>ci. /\ Flow("verify", "ask", contact) \in CmdType
      /\ Flow("verify", "ask", contact).pc = "ask"
      /\ Flow("verify", "ask", contact).op = "verify"
      /\ Flow("verify", "ask", contact).base = contact
      /\ Flow("verify", "ask", contact).key = NoKey
      /\ Flow("verify", "ask", contact).sess = NoSession
      /\ (Flow("verify", "ask", contact).halt <=> FALSE)
  BY FlowForm, <1>0 DEF Typed, Places
<1>c. /\ cmd' \in CmdType /\ cmd'.pc = "ask" /\ cmd'.op = "verify" /\ cmd'.base = contact
      /\ cmd'.key = NoKey /\ cmd'.sess = NoSession /\ (cmd'.halt <=> FALSE)
  BY <1>cr, <1>ci, Zenon
<1>s. Sound(contact)' /\ Sound(saved)' /\ Sound(cmd.base)'
  BY <1>0, <1>g, <1>n, <1>c, Fixed, RestForm DEF Typed, IInv, TypeOK, RecordsAgree, LanesShaped,
     Sound, KeysReal, Fetching
<1>l. LanesShaped'
  BY <1>0, <1>g, <1>n, <1>c, RestForm, IdleForm, Fixed, SessionFields DEF Typed, IInv, TypeOK,
     LanesShaped, Fetching
<1>3. RecordsAgree'
  BY <1>0, <1>g, <1>n, <1>c, <1>s, RestForm, IdleForm, Fixed, SessionFields DEF Typed, IInv,
     LanesShaped, RecordsAgree, KeysReal, Fetching, Differs
<1>2. TypeOK'
  BY <1>0, <1>g, <1>n, <1>c, <1>s, RestForm, IdleForm, Fixed, SessionFields DEF Typed, IInv,
     TypeOK, CmdType, Places, RxType
<1>4. KeysReal'
  BY <1>0, <1>g, <1>n, <1>c, RestForm, IdleForm, Fixed, SessionFields, Bounds DEF Typed, IInv,
     TypeOK, LanesShaped, RecordsAgree, KeysReal, Keys, NoKey
<1>5. ComparedIsKnown'
  BY <1>0, <1>g, <1>n, <1>c, RestForm, IdleForm, Fixed, SessionFields DEF Typed, IInv, TypeOK,
     LanesShaped, RecordsAgree, KeysReal, ComparedIsKnown, Fetching, Differs
<1>p. ComparedIsPinned'
  BY <1>0, <1>g, <1>n, <1>c, RestForm, IdleForm, Fixed, SessionFields DEF Typed, IInv,
     LanesShaped, RecordsAgree, KeysReal, ComparedIsKnown, ComparedIsPinned, Held, Sound,
     Fetching, Differs
<1>6. SessionFollows'
  BY <1>0, <1>g, <1>n, <1>c, RestForm, IdleForm, Fixed, SessionFields DEF Typed, IInv,
     LanesShaped, RecordsAgree, KeysReal, SessionFollows, Under, Fetching, Differs
<1>7. PinStep
  BY <1>0, <1>g, <1>n, <1>c, RestForm, IdleForm, Fixed, SessionFields DEF Typed, PinStep, IInv,
     TypeOK, LanesShaped, RecordsAgree, KeysReal, Differs, Fetching
<1> QED BY <1>2, <1>l, <1>3, <1>4, <1>5, <1>p, <1>6, <1>7 DEF IInv

LEMMA SendTextKeeps ==
  ASSUME IInv, SendText
  PROVE  IInv' /\ PinStep
<1>0. Typed
  BY TypedHolds
<1>g. /\ cmd = Rest /\ contact.known
      /\ UNCHANGED <<contact, saved, auto, session, pending, server, theirs, mail, rx, compared,
                     relied, crossed, revived, torn, made, faults>>
  BY <1>0, FlowForm DEF Typed, SendText, IInv, TypeOK, book, lanes, peer, marks, Command, Become
<1>n. /\ commands' \in 0 .. MaxCommands
  BY Bounds DEF SendText, IInv, TypeOK, Command
<1>cr. cmd' = Flow("send", "load", contact)
  BY DEF SendText, Command, Become
<1>ci. /\ Flow("send", "load", contact) \in CmdType
      /\ Flow("send", "load", contact).pc = "load"
      /\ Flow("send", "load", contact).op = "send"
      /\ Flow("send", "load", contact).base = contact
      /\ Flow("send", "load", contact).key = NoKey
      /\ Flow("send", "load", contact).sess = NoSession
      /\ (Flow("send", "load", contact).halt <=> FALSE)
  BY FlowForm, <1>0 DEF Typed, Places
<1>c. /\ cmd' \in CmdType /\ cmd'.pc = "load" /\ cmd'.op = "send" /\ cmd'.base = contact
      /\ cmd'.key = NoKey /\ cmd'.sess = NoSession /\ (cmd'.halt <=> FALSE)
  BY <1>cr, <1>ci, Zenon
<1>s. Sound(contact)' /\ Sound(saved)' /\ Sound(cmd.base)'
  BY <1>0, <1>g, <1>n, <1>c, Fixed, RestForm DEF Typed, IInv, TypeOK, RecordsAgree, LanesShaped,
     Sound, KeysReal, Fetching
<1>l. LanesShaped'
  BY <1>0, <1>g, <1>n, <1>c, RestForm, IdleForm, Fixed, SessionFields DEF Typed, IInv, TypeOK,
     LanesShaped, Fetching
<1>3. RecordsAgree'
  BY <1>0, <1>g, <1>n, <1>c, <1>s, RestForm, IdleForm, Fixed, SessionFields DEF Typed, IInv,
     LanesShaped, RecordsAgree, KeysReal, Fetching, Differs
<1>2. TypeOK'
  BY <1>0, <1>g, <1>n, <1>c, <1>s, RestForm, IdleForm, Fixed, SessionFields DEF Typed, IInv,
     TypeOK, CmdType, Places, RxType
<1>4. KeysReal'
  BY <1>0, <1>g, <1>n, <1>c, RestForm, IdleForm, Fixed, SessionFields, Bounds DEF Typed, IInv,
     TypeOK, LanesShaped, RecordsAgree, KeysReal, Keys, NoKey
<1>5. ComparedIsKnown'
  BY <1>0, <1>g, <1>n, <1>c, RestForm, IdleForm, Fixed, SessionFields DEF Typed, IInv, TypeOK,
     LanesShaped, RecordsAgree, KeysReal, ComparedIsKnown, Fetching, Differs
<1>p. ComparedIsPinned'
  BY <1>0, <1>g, <1>n, <1>c, RestForm, IdleForm, Fixed, SessionFields DEF Typed, IInv,
     LanesShaped, RecordsAgree, KeysReal, ComparedIsKnown, ComparedIsPinned, Held, Sound,
     Fetching, Differs
<1>6. SessionFollows'
  BY <1>0, <1>g, <1>n, <1>c, RestForm, IdleForm, Fixed, SessionFields DEF Typed, IInv,
     LanesShaped, RecordsAgree, KeysReal, SessionFollows, Under, Fetching, Differs
<1>7. PinStep
  BY <1>0, <1>g, <1>n, <1>c, RestForm, IdleForm, Fixed, SessionFields DEF Typed, PinStep, IInv,
     TypeOK, LanesShaped, RecordsAgree, KeysReal, Differs, Fetching
<1> QED BY <1>2, <1>l, <1>3, <1>4, <1>5, <1>p, <1>6, <1>7 DEF IInv

LEMMA LoadSessionKeeps1 ==
  ASSUME IInv, LoadSession, session = NoSession
  PROVE  IInv' /\ PinStep
<1>0. Typed
  BY TypedHolds
<1>g. /\ cmd.op = "send" /\ cmd.pc = "load" /\ session = NoSession
      /\ UNCHANGED <<contact, saved, auto, session, pending, server, theirs, mail, rx, compared,
                     relied, crossed, revived, torn, made, commands, faults>>
  BY <1>0 DEF Typed, LoadSession, IInv, TypeOK, book, lanes, peer, marks, Become, CmdType
<1>cr. cmd' = [cmd EXCEPT !.pc = "ask", !.sess = session]
  BY DEF LoadSession, Become
<1>ct. cmd \in CmdType /\ "ask" \in Places /\ session \in Sessions
  BY <1>0, SessionFields DEF Typed, Places
<1>ci. /\ [cmd EXCEPT !.pc = "ask", !.sess = session] \in CmdType
      /\ [cmd EXCEPT !.pc = "ask", !.sess = session].pc = "ask"
      /\ [cmd EXCEPT !.pc = "ask", !.sess = session].op = cmd.op
      /\ [cmd EXCEPT !.pc = "ask", !.sess = session].base = cmd.base
      /\ [cmd EXCEPT !.pc = "ask", !.sess = session].key = cmd.key
      /\ [cmd EXCEPT !.pc = "ask", !.sess = session].sess = session
      /\ ([cmd EXCEPT !.pc = "ask", !.sess = session].halt <=> cmd.halt)
  BY <1>ct DEF CmdType, Places
<1>c. /\ cmd' \in CmdType /\ cmd'.pc = "ask" /\ cmd'.op = cmd.op /\ cmd'.base = cmd.base
      /\ cmd'.key = cmd.key /\ cmd'.sess = session /\ (cmd'.halt <=> cmd.halt)
  BY <1>cr, <1>ci, Zenon
<1>s. Sound(contact)' /\ Sound(saved)' /\ Sound(cmd.base)'
  BY <1>0, <1>g, <1>c, Fixed, RestForm DEF Typed, IInv, TypeOK, RecordsAgree, LanesShaped, Sound,
     KeysReal, Fetching
<1>l. LanesShaped'
  BY <1>0, <1>g, <1>c, RestForm, IdleForm, Fixed, SessionFields DEF Typed, IInv, TypeOK,
     LanesShaped, Fetching
<1>3. RecordsAgree'
  BY <1>0, <1>g, <1>c, <1>s, RestForm, IdleForm, Fixed, SessionFields DEF Typed, IInv,
     LanesShaped, RecordsAgree, KeysReal, Fetching, Differs
<1>2. TypeOK'
  BY <1>0, <1>g, <1>c, <1>s, RestForm, IdleForm, Fixed, SessionFields DEF Typed, IInv, TypeOK,
     CmdType, Places, RxType
<1>4. KeysReal'
  BY <1>0, <1>g, <1>c, RestForm, IdleForm, Fixed, SessionFields, Bounds DEF Typed, IInv, TypeOK,
     LanesShaped, RecordsAgree, KeysReal, Keys, NoKey
<1>5. ComparedIsKnown'
  BY <1>0, <1>g, <1>c, RestForm, IdleForm, Fixed, SessionFields DEF Typed, IInv, TypeOK,
     LanesShaped, RecordsAgree, KeysReal, ComparedIsKnown, Fetching, Differs
<1>p. ComparedIsPinned'
  BY <1>0, <1>g, <1>c, RestForm, IdleForm, Fixed, SessionFields DEF Typed, IInv, LanesShaped,
     RecordsAgree, KeysReal, ComparedIsKnown, ComparedIsPinned, Held, Sound, Fetching, Differs
<1>6. SessionFollows'
  BY <1>0, <1>g, <1>c, RestForm, IdleForm, Fixed, SessionFields DEF Typed, IInv, LanesShaped,
     RecordsAgree, KeysReal, SessionFollows, Under, Fetching, Differs
<1>7. PinStep
  BY <1>0, <1>g, <1>c, RestForm, IdleForm, Fixed, SessionFields DEF Typed, PinStep, IInv, TypeOK,
     LanesShaped, RecordsAgree, KeysReal, Differs, Fetching
<1> QED BY <1>2, <1>l, <1>3, <1>4, <1>5, <1>p, <1>6, <1>7 DEF IInv

LEMMA LoadSessionKeeps2 ==
  ASSUME IInv, LoadSession, session # NoSession
  PROVE  IInv' /\ PinStep
<1>0. Typed
  BY TypedHolds
<1>g. /\ cmd.op = "send" /\ cmd.pc = "load" /\ session # NoSession
      /\ UNCHANGED <<contact, saved, auto, session, pending, server, theirs, mail, rx, compared,
                     relied, crossed, revived, torn, made, commands, faults>>
  BY <1>0 DEF Typed, LoadSession, IInv, TypeOK, book, lanes, peer, marks, Become, CmdType
<1>cr. cmd' = [cmd EXCEPT !.pc = "save", !.sess = session]
  BY DEF LoadSession, Become
<1>ct. cmd \in CmdType /\ "save" \in Places /\ session \in Sessions
  BY <1>0, SessionFields DEF Typed, Places
<1>ci. /\ [cmd EXCEPT !.pc = "save", !.sess = session] \in CmdType
      /\ [cmd EXCEPT !.pc = "save", !.sess = session].pc = "save"
      /\ [cmd EXCEPT !.pc = "save", !.sess = session].op = cmd.op
      /\ [cmd EXCEPT !.pc = "save", !.sess = session].base = cmd.base
      /\ [cmd EXCEPT !.pc = "save", !.sess = session].key = cmd.key
      /\ [cmd EXCEPT !.pc = "save", !.sess = session].sess = session
      /\ ([cmd EXCEPT !.pc = "save", !.sess = session].halt <=> cmd.halt)
  BY <1>ct DEF CmdType, Places
<1>c. /\ cmd' \in CmdType /\ cmd'.pc = "save" /\ cmd'.op = cmd.op /\ cmd'.base = cmd.base
      /\ cmd'.key = cmd.key /\ cmd'.sess = session /\ (cmd'.halt <=> cmd.halt)
  BY <1>cr, <1>ci, Zenon
<1>s. Sound(contact)' /\ Sound(saved)' /\ Sound(cmd.base)'
  BY <1>0, <1>g, <1>c, Fixed, RestForm DEF Typed, IInv, TypeOK, RecordsAgree, LanesShaped, Sound,
     KeysReal, Fetching
<1>l. LanesShaped'
  BY <1>0, <1>g, <1>c, RestForm, IdleForm, Fixed, SessionFields DEF Typed, IInv, TypeOK,
     LanesShaped, Fetching
<1>3. RecordsAgree'
  BY <1>0, <1>g, <1>c, <1>s, RestForm, IdleForm, Fixed, SessionFields DEF Typed, IInv,
     LanesShaped, RecordsAgree, KeysReal, Fetching, Differs
<1>2. TypeOK'
  BY <1>0, <1>g, <1>c, <1>s, RestForm, IdleForm, Fixed, SessionFields DEF Typed, IInv, TypeOK,
     CmdType, Places, RxType
<1>4. KeysReal'
  BY <1>0, <1>g, <1>c, RestForm, IdleForm, Fixed, SessionFields, Bounds DEF Typed, IInv, TypeOK,
     LanesShaped, RecordsAgree, KeysReal, Keys, NoKey
<1>5. ComparedIsKnown'
  BY <1>0, <1>g, <1>c, RestForm, IdleForm, Fixed, SessionFields DEF Typed, IInv, TypeOK,
     LanesShaped, RecordsAgree, KeysReal, ComparedIsKnown, Fetching, Differs
<1>p. ComparedIsPinned'
  BY <1>0, <1>g, <1>c, RestForm, IdleForm, Fixed, SessionFields DEF Typed, IInv, LanesShaped,
     RecordsAgree, KeysReal, ComparedIsKnown, ComparedIsPinned, Held, Sound, Fetching, Differs
<1>6. SessionFollows'
  BY <1>0, <1>g, <1>c, RestForm, IdleForm, Fixed, SessionFields DEF Typed, IInv, LanesShaped,
     RecordsAgree, KeysReal, SessionFollows, Under, Fetching, Differs
<1>7. PinStep
  BY <1>0, <1>g, <1>c, RestForm, IdleForm, Fixed, SessionFields DEF Typed, PinStep, IInv, TypeOK,
     LanesShaped, RecordsAgree, KeysReal, Differs, Fetching
<1> QED BY <1>2, <1>l, <1>3, <1>4, <1>5, <1>p, <1>6, <1>7 DEF IInv

LEMMA SaveRatchetKeeps ==
  ASSUME IInv, SaveRatchet
  PROVE  IInv' /\ PinStep
<1>0. Typed
  BY TypedHolds
<1>g. /\ cmd.op = "send" /\ cmd.pc = "save"
      /\ UNCHANGED <<contact, saved, auto, pending, server, theirs, mail, rx, compared, relied,
                     revived, torn, made, commands, faults>>
  BY <1>0 DEF Typed, SaveRatchet, IInv, TypeOK, book, lanes, peer, marks, Become, Cross
<1>c. /\ cmd' = Rest
  BY <1>0 DEF Typed, SaveRatchet, IInv, TypeOK, book, lanes, peer, marks, Become, Cross
<1>o. /\ session' = cmd.sess /\ crossed' = (crossed \/ cmd.sess # session)
  BY <1>0 DEF Typed, SaveRatchet, IInv, TypeOK, book, lanes, peer, marks, Become, Cross
<1>s. Sound(contact)' /\ Sound(saved)' /\ Sound(cmd.base)'
  BY <1>0, <1>g, <1>c, <1>o, Fixed, RestForm DEF Typed, IInv, TypeOK, RecordsAgree, LanesShaped,
     Sound, KeysReal, Fetching
<1>l. LanesShaped'
  BY <1>0, <1>g, <1>c, <1>o, RestForm, IdleForm, Fixed, SessionFields DEF Typed, IInv, TypeOK,
     LanesShaped, Fetching
<1>3. RecordsAgree'
  BY <1>0, <1>g, <1>c, <1>o, <1>s, RestForm, IdleForm, Fixed, SessionFields DEF Typed, IInv,
     LanesShaped, RecordsAgree, KeysReal, Fetching, Differs
<1>2. TypeOK'
  BY <1>0, <1>g, <1>c, <1>o, <1>s, RestForm, IdleForm, Fixed, SessionFields DEF Typed, IInv,
     TypeOK, CmdType, Places, RxType
<1>4. KeysReal'
  BY <1>0, <1>g, <1>c, <1>o, RestForm, IdleForm, Fixed, SessionFields, Bounds DEF Typed, IInv,
     TypeOK, LanesShaped, RecordsAgree, KeysReal, Keys, NoKey
<1>5. ComparedIsKnown'
  BY <1>0, <1>g, <1>c, <1>o, RestForm, IdleForm, Fixed, SessionFields DEF Typed, IInv, TypeOK,
     LanesShaped, RecordsAgree, KeysReal, ComparedIsKnown, Fetching, Differs
<1>p. ComparedIsPinned'
  BY <1>0, <1>g, <1>c, <1>o, RestForm, IdleForm, Fixed, SessionFields DEF Typed, IInv,
     LanesShaped, RecordsAgree, KeysReal, ComparedIsKnown, ComparedIsPinned, Held, Sound,
     Fetching, Differs
<1>6. SessionFollows'
  BY <1>0, <1>g, <1>c, <1>o, RestForm, IdleForm, Fixed, SessionFields DEF Typed, IInv,
     LanesShaped, RecordsAgree, KeysReal, SessionFollows, Under, Fetching, Differs
<1>7. PinStep
  BY <1>0, <1>g, <1>c, <1>o, RestForm, IdleForm, Fixed, SessionFields DEF Typed, PinStep, IInv,
     TypeOK, LanesShaped, RecordsAgree, KeysReal, Differs, Fetching
<1> QED BY <1>2, <1>l, <1>3, <1>4, <1>5, <1>p, <1>6, <1>7 DEF IInv

LEMMA FetchBundleKeeps ==
  ASSUME IInv, FetchBundle
  PROVE  IInv' /\ PinStep
<1>0. Typed
  BY TypedHolds
<1>g. /\ cmd.pc = "ask"
      /\ UNCHANGED <<contact, saved, auto, session, pending, server, theirs, mail, rx, compared,
                     relied, crossed, revived, torn, made, commands, faults>>
  BY <1>0, Bounds DEF Typed, FetchBundle, IInv, TypeOK, book, lanes, peer, marks, Become, CmdType,
     Keys
<1>cr. cmd' = [cmd EXCEPT !.pc = "bundle", !.key = server]
  BY DEF FetchBundle, Become, Keys
<1>ct. cmd \in CmdType /\ "bundle" \in Places /\ server \in Keys
  BY <1>0, SessionFields DEF Typed, Places
<1>ci. /\ [cmd EXCEPT !.pc = "bundle", !.key = server] \in CmdType
      /\ [cmd EXCEPT !.pc = "bundle", !.key = server].pc = "bundle"
      /\ [cmd EXCEPT !.pc = "bundle", !.key = server].op = cmd.op
      /\ [cmd EXCEPT !.pc = "bundle", !.key = server].base = cmd.base
      /\ [cmd EXCEPT !.pc = "bundle", !.key = server].key = server
      /\ [cmd EXCEPT !.pc = "bundle", !.key = server].sess = cmd.sess
      /\ ([cmd EXCEPT !.pc = "bundle", !.key = server].halt <=> cmd.halt)
  BY <1>ct DEF CmdType, Places
<1>c. /\ cmd' \in CmdType /\ cmd'.pc = "bundle" /\ cmd'.op = cmd.op /\ cmd'.base = cmd.base
      /\ cmd'.key = server /\ cmd'.sess = cmd.sess /\ (cmd'.halt <=> cmd.halt)
  BY <1>cr, <1>ci, Zenon
<1>s. Sound(contact)' /\ Sound(saved)' /\ Sound(cmd.base)'
  BY <1>0, <1>g, <1>c, Fixed, RestForm DEF Typed, IInv, TypeOK, RecordsAgree, LanesShaped, Sound,
     KeysReal, Fetching
<1>l. LanesShaped'
  BY <1>0, <1>g, <1>c, RestForm, IdleForm, Fixed, SessionFields DEF Typed, IInv, TypeOK,
     LanesShaped, Fetching
<1>3. RecordsAgree'
  BY <1>0, <1>g, <1>c, <1>s, RestForm, IdleForm, Fixed, SessionFields DEF Typed, IInv,
     LanesShaped, RecordsAgree, KeysReal, Fetching, Differs
<1>2. TypeOK'
  BY <1>0, <1>g, <1>c, <1>s, RestForm, IdleForm, Fixed, SessionFields DEF Typed, IInv, TypeOK,
     CmdType, Places, RxType
<1>4. KeysReal'
  BY <1>0, <1>g, <1>c, RestForm, IdleForm, Fixed, SessionFields, Bounds DEF Typed, IInv, TypeOK,
     LanesShaped, RecordsAgree, KeysReal, Keys, NoKey
<1>5. ComparedIsKnown'
  BY <1>0, <1>g, <1>c, RestForm, IdleForm, Fixed, SessionFields DEF Typed, IInv, TypeOK,
     LanesShaped, RecordsAgree, KeysReal, ComparedIsKnown, Fetching, Differs
<1>p. ComparedIsPinned'
  BY <1>0, <1>g, <1>c, RestForm, IdleForm, Fixed, SessionFields DEF Typed, IInv, LanesShaped,
     RecordsAgree, KeysReal, ComparedIsKnown, ComparedIsPinned, Held, Sound, Fetching, Differs
<1>6. SessionFollows'
  BY <1>0, <1>g, <1>c, RestForm, IdleForm, Fixed, SessionFields DEF Typed, IInv, LanesShaped,
     RecordsAgree, KeysReal, SessionFollows, Under, Fetching, Differs
<1>7. PinStep
  BY <1>0, <1>g, <1>c, RestForm, IdleForm, Fixed, SessionFields DEF Typed, PinStep, IInv, TypeOK,
     LanesShaped, RecordsAgree, KeysReal, Differs, Fetching
<1> QED BY <1>2, <1>l, <1>3, <1>4, <1>5, <1>p, <1>6, <1>7 DEF IInv

LEMMA NoBundleKeeps ==
  ASSUME IInv, NoBundle
  PROVE  IInv' /\ PinStep
<1>0. Typed
  BY TypedHolds
<1>g. /\ cmd.pc = "bundle"
      /\ UNCHANGED <<contact, saved, auto, session, pending, server, theirs, mail, rx, compared,
                     relied, crossed, revived, torn, made, commands>>
  BY <1>0 DEF Typed, NoBundle, IInv, TypeOK, book, lanes, peer, marks, Become
<1>n. /\ faults' \in 0 .. MaxFaults
  BY Bounds DEF NoBundle, IInv, TypeOK
<1>c. /\ cmd' = Rest
  BY <1>0 DEF Typed, NoBundle, IInv, TypeOK, book, lanes, peer, marks, Become
<1>s. Sound(contact)' /\ Sound(saved)' /\ Sound(cmd.base)'
  BY <1>0, <1>g, <1>n, <1>c, Fixed, RestForm DEF Typed, IInv, TypeOK, RecordsAgree, LanesShaped,
     Sound, KeysReal, Fetching
<1>l. LanesShaped'
  BY <1>0, <1>g, <1>n, <1>c, RestForm, IdleForm, Fixed, SessionFields DEF Typed, IInv, TypeOK,
     LanesShaped, Fetching
<1>3. RecordsAgree'
  BY <1>0, <1>g, <1>n, <1>c, <1>s, RestForm, IdleForm, Fixed, SessionFields DEF Typed, IInv,
     LanesShaped, RecordsAgree, KeysReal, Fetching, Differs
<1>2. TypeOK'
  BY <1>0, <1>g, <1>n, <1>c, <1>s, RestForm, IdleForm, Fixed, SessionFields DEF Typed, IInv,
     TypeOK, CmdType, Places, RxType
<1>4. KeysReal'
  BY <1>0, <1>g, <1>n, <1>c, RestForm, IdleForm, Fixed, SessionFields, Bounds DEF Typed, IInv,
     TypeOK, LanesShaped, RecordsAgree, KeysReal, Keys, NoKey
<1>5. ComparedIsKnown'
  BY <1>0, <1>g, <1>n, <1>c, RestForm, IdleForm, Fixed, SessionFields DEF Typed, IInv, TypeOK,
     LanesShaped, RecordsAgree, KeysReal, ComparedIsKnown, Fetching, Differs
<1>p. ComparedIsPinned'
  BY <1>0, <1>g, <1>n, <1>c, RestForm, IdleForm, Fixed, SessionFields DEF Typed, IInv,
     LanesShaped, RecordsAgree, KeysReal, ComparedIsKnown, ComparedIsPinned, Held, Sound,
     Fetching, Differs
<1>6. SessionFollows'
  BY <1>0, <1>g, <1>n, <1>c, RestForm, IdleForm, Fixed, SessionFields DEF Typed, IInv,
     LanesShaped, RecordsAgree, KeysReal, SessionFollows, Under, Fetching, Differs
<1>7. PinStep
  BY <1>0, <1>g, <1>n, <1>c, RestForm, IdleForm, Fixed, SessionFields DEF Typed, PinStep, IInv,
     TypeOK, LanesShaped, RecordsAgree, KeysReal, Differs, Fetching
<1> QED BY <1>2, <1>l, <1>3, <1>4, <1>5, <1>p, <1>6, <1>7 DEF IInv

LEMMA VerifyBundleKeeps1 ==
  ASSUME IInv, VerifyBundle, Differs(cmd.base, cmd.key)
  PROVE  IInv' /\ PinStep
<1>0. Typed
  BY TypedHolds
<1>g. /\ cmd.op = "verify" /\ cmd.pc = "bundle" /\ Differs(cmd.base, cmd.key)
      /\ UNCHANGED <<auto, session, pending, server, theirs, mail, rx, compared, relied, revived,
                     torn, made, commands, faults>>
  BY <1>0, RecordForms DEF Typed, VerifyBundle, IInv, TypeOK, book, lanes, peer, marks, Become,
     Save, Cross, CmdType, Differs
<1>rr. /\ contact' = Changed(cmd.base, cmd.key)
      /\ saved' = contact'
  BY DEF VerifyBundle, Become, Save, Cross, Differs
<1>rt. cmd.base \in Contacts /\ cmd.key \in Keys /\ auto \in BOOLEAN
  BY <1>0, SessionFields DEF Typed, Places
<1>ri. /\ Changed(cmd.base, cmd.key) \in Contacts
      /\ (Changed(cmd.base, cmd.key).known <=> cmd.base.known)
      /\ Changed(cmd.base, cmd.key).ik = cmd.key
      /\ (Changed(cmd.base, cmd.key).verified <=> FALSE)
      /\ (Changed(cmd.base, cmd.key).blocked <=> ~auto)
  BY RecordForms, <1>rt
<1>r. /\ contact' \in Contacts /\ (contact'.known <=> cmd.base.known) /\ contact'.ik = cmd.key
      /\ (contact'.verified <=> FALSE) /\ (contact'.blocked <=> ~auto) /\ saved' = contact'
  BY <1>rr, <1>ri, Zenon
<1>cr. cmd' = [cmd EXCEPT !.pc = "teardown", !.halt = ~auto]
  BY DEF VerifyBundle, Become, Save, Cross, Differs
<1>ct. cmd \in CmdType /\ auto \in BOOLEAN
  BY <1>0, SessionFields DEF Typed, Places
<1>ci. /\ [cmd EXCEPT !.pc = "teardown", !.halt = ~auto] \in CmdType
      /\ [cmd EXCEPT !.pc = "teardown", !.halt = ~auto].pc = "teardown"
      /\ [cmd EXCEPT !.pc = "teardown", !.halt = ~auto].op = cmd.op
      /\ [cmd EXCEPT !.pc = "teardown", !.halt = ~auto].base = cmd.base
      /\ [cmd EXCEPT !.pc = "teardown", !.halt = ~auto].key = cmd.key
      /\ [cmd EXCEPT !.pc = "teardown", !.halt = ~auto].sess = cmd.sess
      /\ ([cmd EXCEPT !.pc = "teardown", !.halt = ~auto].halt <=> ~auto)
  BY <1>ct DEF CmdType, Places
<1>c. /\ cmd' \in CmdType /\ cmd'.pc = "teardown" /\ cmd'.op = cmd.op /\ cmd'.base = cmd.base
      /\ cmd'.key = cmd.key /\ cmd'.sess = cmd.sess /\ (cmd'.halt <=> ~auto)
  BY <1>cr, <1>ci, Zenon
<1>o. /\ crossed' = (crossed \/ cmd.base # contact)
  BY <1>0, RecordForms DEF Typed, VerifyBundle, IInv, TypeOK, book, lanes, peer, marks, Become,
     Save, Cross, CmdType, Differs
<1>s. Sound(contact)' /\ Sound(saved)' /\ Sound(cmd.base)'
  BY <1>0, <1>g, <1>r, <1>c, <1>o, Fixed, RestForm DEF Typed, IInv, TypeOK, RecordsAgree,
     LanesShaped, Sound, KeysReal, Fetching
<1>l. LanesShaped'
  BY <1>0, <1>g, <1>r, <1>c, <1>o, RestForm, IdleForm, Fixed, SessionFields DEF Typed, IInv,
     TypeOK, LanesShaped, Fetching
<1>3. RecordsAgree'
  BY <1>0, <1>g, <1>r, <1>c, <1>o, <1>s, RestForm, IdleForm, Fixed, SessionFields DEF Typed, IInv,
     LanesShaped, RecordsAgree, KeysReal, Fetching, Differs
<1>2. TypeOK'
  BY <1>0, <1>g, <1>r, <1>c, <1>o, <1>s, RestForm, IdleForm, Fixed, SessionFields DEF Typed, IInv,
     TypeOK, CmdType, Places, RxType
<1>4. KeysReal'
  BY <1>0, <1>g, <1>r, <1>c, <1>o, RestForm, IdleForm, Fixed, SessionFields, Bounds DEF Typed,
     IInv, TypeOK, LanesShaped, RecordsAgree, KeysReal, Keys, NoKey
<1>5. ComparedIsKnown'
  BY <1>0, <1>g, <1>r, <1>c, <1>o, RestForm, IdleForm, Fixed, SessionFields DEF Typed, IInv,
     TypeOK, LanesShaped, RecordsAgree, KeysReal, ComparedIsKnown, Fetching, Differs
<1>p. ComparedIsPinned'
  BY <1>0, <1>g, <1>r, <1>c, <1>o, RestForm, IdleForm, Fixed, SessionFields DEF Typed, IInv,
     LanesShaped, RecordsAgree, KeysReal, ComparedIsKnown, ComparedIsPinned, Held, Sound,
     Fetching, Differs
<1>6. SessionFollows'
  BY <1>0, <1>g, <1>r, <1>c, <1>o, RestForm, IdleForm, Fixed, SessionFields DEF Typed, IInv,
     LanesShaped, RecordsAgree, KeysReal, SessionFollows, Under, Fetching, Differs
<1>7. PinStep
  BY <1>0, <1>g, <1>r, <1>c, <1>o, RestForm, IdleForm, Fixed, SessionFields DEF Typed, PinStep,
     IInv, TypeOK, LanesShaped, RecordsAgree, KeysReal, Differs, Fetching
<1> QED BY <1>2, <1>l, <1>3, <1>4, <1>5, <1>p, <1>6, <1>7 DEF IInv

LEMMA VerifyBundleKeeps2 ==
  ASSUME IInv, VerifyBundle, ~Differs(cmd.base, cmd.key) /\ cmd.base.ik = NoKey
  PROVE  IInv' /\ PinStep
<1>0. Typed
  BY TypedHolds
<1>g. /\ cmd.op = "verify" /\ cmd.pc = "bundle" /\ ~Differs(cmd.base, cmd.key)
      /\ cmd.base.ik = NoKey
      /\ UNCHANGED <<auto, session, pending, server, theirs, mail, rx, relied, revived, torn,
                     made, commands, faults>>
  BY <1>0, RecordForms DEF Typed, VerifyBundle, IInv, TypeOK, book, lanes, peer, marks, Become,
     Save, Cross, Show, Differs
<1>rr. /\ contact' = Pinned(cmd.base, cmd.key)
      /\ saved' = contact'
  BY DEF VerifyBundle, Become, Save, Cross, Show, Differs
<1>rt. cmd.base \in Contacts /\ cmd.key \in Keys /\ auto \in BOOLEAN
  BY <1>0, SessionFields DEF Typed, Places
<1>ri. /\ Pinned(cmd.base, cmd.key) \in Contacts
      /\ (Pinned(cmd.base, cmd.key).known <=> cmd.base.known)
      /\ Pinned(cmd.base, cmd.key).ik = cmd.key
      /\ (Pinned(cmd.base, cmd.key).verified <=> (auto \/ cmd.base.verified))
      /\ (Pinned(cmd.base, cmd.key).blocked <=> cmd.base.blocked)
  BY RecordForms, <1>rt
<1>r. /\ contact' \in Contacts /\ (contact'.known <=> cmd.base.known) /\ contact'.ik = cmd.key
      /\ (contact'.verified <=> (auto \/ cmd.base.verified))
      /\ (contact'.blocked <=> cmd.base.blocked) /\ saved' = contact'
  BY <1>rr, <1>ri, Zenon
<1>c. /\ cmd' = Rest
  BY <1>0, RecordForms DEF Typed, VerifyBundle, IInv, TypeOK, book, lanes, peer, marks, Become,
     Save, Cross, Show, Differs
<1>o. /\ compared' = cmd.key /\ crossed' = (crossed \/ cmd.base # contact)
  BY <1>0, RecordForms DEF Typed, VerifyBundle, IInv, TypeOK, book, lanes, peer, marks, Become,
     Save, Cross, Show, Differs
<1>s. Sound(contact)' /\ Sound(saved)' /\ Sound(cmd.base)'
  BY <1>0, <1>g, <1>r, <1>c, <1>o, Fixed, RestForm DEF Typed, IInv, TypeOK, RecordsAgree,
     LanesShaped, Sound, KeysReal, Fetching
<1>l. LanesShaped'
  BY <1>0, <1>g, <1>r, <1>c, <1>o, RestForm, IdleForm, Fixed, SessionFields DEF Typed, IInv,
     TypeOK, LanesShaped, Fetching
<1>3. RecordsAgree'
  BY <1>0, <1>g, <1>r, <1>c, <1>o, <1>s, RestForm, IdleForm, Fixed, SessionFields DEF Typed, IInv,
     LanesShaped, RecordsAgree, KeysReal, Fetching, Differs
<1>2. TypeOK'
  BY <1>0, <1>g, <1>r, <1>c, <1>o, <1>s, RestForm, IdleForm, Fixed, SessionFields DEF Typed, IInv,
     TypeOK, CmdType, Places, RxType
<1>4. KeysReal'
  BY <1>0, <1>g, <1>r, <1>c, <1>o, RestForm, IdleForm, Fixed, SessionFields, Bounds DEF Typed,
     IInv, TypeOK, LanesShaped, RecordsAgree, KeysReal, Keys, NoKey
<1>5. ComparedIsKnown'
  BY <1>0, <1>g, <1>r, <1>c, <1>o, RestForm, IdleForm, Fixed, SessionFields DEF Typed, IInv,
     TypeOK, LanesShaped, RecordsAgree, KeysReal, ComparedIsKnown, Fetching, Differs
<1>p. ComparedIsPinned'
  BY <1>0, <1>g, <1>r, <1>c, <1>o, RestForm, IdleForm, Fixed, SessionFields DEF Typed, IInv,
     LanesShaped, RecordsAgree, KeysReal, ComparedIsKnown, ComparedIsPinned, Held, Sound,
     Fetching, Differs
<1>6. SessionFollows'
  BY <1>0, <1>g, <1>r, <1>c, <1>o, RestForm, IdleForm, Fixed, SessionFields DEF Typed, IInv,
     LanesShaped, RecordsAgree, KeysReal, SessionFollows, Under, Fetching, Differs
<1>7. PinStep
  BY <1>0, <1>g, <1>r, <1>c, <1>o, RestForm, IdleForm, Fixed, SessionFields DEF Typed, PinStep,
     IInv, TypeOK, LanesShaped, RecordsAgree, KeysReal, Differs, Fetching
<1> QED BY <1>2, <1>l, <1>3, <1>4, <1>5, <1>p, <1>6, <1>7 DEF IInv

LEMMA VerifyBundleKeeps3 ==
  ASSUME IInv, VerifyBundle, ~Differs(cmd.base, cmd.key) /\ cmd.base.ik # NoKey
  PROVE  IInv' /\ PinStep
<1>0. Typed
  BY TypedHolds
<1>g. /\ cmd.op = "verify" /\ cmd.pc = "bundle" /\ ~Differs(cmd.base, cmd.key)
      /\ cmd.base.ik # NoKey
      /\ UNCHANGED <<contact, saved, auto, session, pending, server, theirs, mail, rx, relied,
                     crossed, revived, torn, made, commands, faults>>
  BY <1>0 DEF Typed, VerifyBundle, IInv, TypeOK, book, lanes, peer, marks, Become, Show, Differs
<1>c. /\ cmd' = Rest
  BY <1>0 DEF Typed, VerifyBundle, IInv, TypeOK, book, lanes, peer, marks, Become, Show, Differs
<1>o. /\ compared' = cmd.key
  BY <1>0 DEF Typed, VerifyBundle, IInv, TypeOK, book, lanes, peer, marks, Become, Show, Differs
<1>s. Sound(contact)' /\ Sound(saved)' /\ Sound(cmd.base)'
  BY <1>0, <1>g, <1>c, <1>o, Fixed, RestForm DEF Typed, IInv, TypeOK, RecordsAgree, LanesShaped,
     Sound, KeysReal, Fetching
<1>l. LanesShaped'
  BY <1>0, <1>g, <1>c, <1>o, RestForm, IdleForm, Fixed, SessionFields DEF Typed, IInv, TypeOK,
     LanesShaped, Fetching
<1>3. RecordsAgree'
  BY <1>0, <1>g, <1>c, <1>o, <1>s, RestForm, IdleForm, Fixed, SessionFields DEF Typed, IInv,
     LanesShaped, RecordsAgree, KeysReal, Fetching, Differs
<1>2. TypeOK'
  BY <1>0, <1>g, <1>c, <1>o, <1>s, RestForm, IdleForm, Fixed, SessionFields DEF Typed, IInv,
     TypeOK, CmdType, Places, RxType
<1>4. KeysReal'
  BY <1>0, <1>g, <1>c, <1>o, RestForm, IdleForm, Fixed, SessionFields, Bounds DEF Typed, IInv,
     TypeOK, LanesShaped, RecordsAgree, KeysReal, Keys, NoKey
<1>5. ComparedIsKnown'
  BY <1>0, <1>g, <1>c, <1>o, RestForm, IdleForm, Fixed, SessionFields DEF Typed, IInv, TypeOK,
     LanesShaped, RecordsAgree, KeysReal, ComparedIsKnown, Fetching, Differs
<1>p. ComparedIsPinned'
  BY <1>0, <1>g, <1>c, <1>o, RestForm, IdleForm, Fixed, SessionFields DEF Typed, IInv,
     LanesShaped, RecordsAgree, KeysReal, ComparedIsKnown, ComparedIsPinned, Held, Sound,
     Fetching, Differs
<1>6. SessionFollows'
  BY <1>0, <1>g, <1>c, <1>o, RestForm, IdleForm, Fixed, SessionFields DEF Typed, IInv,
     LanesShaped, RecordsAgree, KeysReal, SessionFollows, Under, Fetching, Differs
<1>7. PinStep
  BY <1>0, <1>g, <1>c, <1>o, RestForm, IdleForm, Fixed, SessionFields DEF Typed, PinStep, IInv,
     TypeOK, LanesShaped, RecordsAgree, KeysReal, Differs, Fetching
<1> QED BY <1>2, <1>l, <1>3, <1>4, <1>5, <1>p, <1>6, <1>7 DEF IInv

LEMMA CheckBundleKeeps1 ==
  ASSUME IInv, CheckBundle, Differs(cmd.base, cmd.key)
  PROVE  IInv' /\ PinStep
<1>0. Typed
  BY TypedHolds
<1>g. /\ cmd.op = "send" /\ cmd.pc = "bundle" /\ Differs(cmd.base, cmd.key)
      /\ UNCHANGED <<auto, session, pending, server, theirs, mail, rx, compared, relied, revived,
                     torn, made, commands, faults>>
  BY <1>0, RecordForms DEF Typed, CheckBundle, IInv, TypeOK, book, lanes, peer, marks, Become,
     Save, Cross, CmdType
<1>rr. /\ contact' = Changed(cmd.base, cmd.key)
      /\ saved' = contact'
  BY DEF CheckBundle, Become, Save, Cross
<1>rt. cmd.base \in Contacts /\ cmd.key \in Keys /\ auto \in BOOLEAN
  BY <1>0, SessionFields DEF Typed, Places
<1>ri. /\ Changed(cmd.base, cmd.key) \in Contacts
      /\ (Changed(cmd.base, cmd.key).known <=> cmd.base.known)
      /\ Changed(cmd.base, cmd.key).ik = cmd.key
      /\ (Changed(cmd.base, cmd.key).verified <=> FALSE)
      /\ (Changed(cmd.base, cmd.key).blocked <=> ~auto)
  BY RecordForms, <1>rt
<1>r. /\ contact' \in Contacts /\ (contact'.known <=> cmd.base.known) /\ contact'.ik = cmd.key
      /\ (contact'.verified <=> FALSE) /\ (contact'.blocked <=> ~auto) /\ saved' = contact'
  BY <1>rr, <1>ri, Zenon
<1>cr. cmd' = [cmd EXCEPT !.pc = "teardown", !.halt = ~auto]
  BY DEF CheckBundle, Become, Save, Cross
<1>ct. cmd \in CmdType /\ auto \in BOOLEAN
  BY <1>0, SessionFields DEF Typed, Places
<1>ci. /\ [cmd EXCEPT !.pc = "teardown", !.halt = ~auto] \in CmdType
      /\ [cmd EXCEPT !.pc = "teardown", !.halt = ~auto].pc = "teardown"
      /\ [cmd EXCEPT !.pc = "teardown", !.halt = ~auto].op = cmd.op
      /\ [cmd EXCEPT !.pc = "teardown", !.halt = ~auto].base = cmd.base
      /\ [cmd EXCEPT !.pc = "teardown", !.halt = ~auto].key = cmd.key
      /\ [cmd EXCEPT !.pc = "teardown", !.halt = ~auto].sess = cmd.sess
      /\ ([cmd EXCEPT !.pc = "teardown", !.halt = ~auto].halt <=> ~auto)
  BY <1>ct DEF CmdType, Places
<1>c. /\ cmd' \in CmdType /\ cmd'.pc = "teardown" /\ cmd'.op = cmd.op /\ cmd'.base = cmd.base
      /\ cmd'.key = cmd.key /\ cmd'.sess = cmd.sess /\ (cmd'.halt <=> ~auto)
  BY <1>cr, <1>ci, Zenon
<1>o. /\ crossed' = (crossed \/ cmd.base # contact)
  BY <1>0, RecordForms DEF Typed, CheckBundle, IInv, TypeOK, book, lanes, peer, marks, Become,
     Save, Cross, CmdType
<1>s. Sound(contact)' /\ Sound(saved)' /\ Sound(cmd.base)'
  BY <1>0, <1>g, <1>r, <1>c, <1>o, Fixed, RestForm DEF Typed, IInv, TypeOK, RecordsAgree,
     LanesShaped, Sound, KeysReal, Fetching
<1>l. LanesShaped'
  BY <1>0, <1>g, <1>r, <1>c, <1>o, RestForm, IdleForm, Fixed, SessionFields DEF Typed, IInv,
     TypeOK, LanesShaped, Fetching
<1>3. RecordsAgree'
  BY <1>0, <1>g, <1>r, <1>c, <1>o, <1>s, RestForm, IdleForm, Fixed, SessionFields DEF Typed, IInv,
     LanesShaped, RecordsAgree, KeysReal, Fetching, Differs
<1>2. TypeOK'
  BY <1>0, <1>g, <1>r, <1>c, <1>o, <1>s, RestForm, IdleForm, Fixed, SessionFields DEF Typed, IInv,
     TypeOK, CmdType, Places, RxType
<1>4. KeysReal'
  BY <1>0, <1>g, <1>r, <1>c, <1>o, RestForm, IdleForm, Fixed, SessionFields, Bounds DEF Typed,
     IInv, TypeOK, LanesShaped, RecordsAgree, KeysReal, Keys, NoKey
<1>5. ComparedIsKnown'
  BY <1>0, <1>g, <1>r, <1>c, <1>o, RestForm, IdleForm, Fixed, SessionFields DEF Typed, IInv,
     TypeOK, LanesShaped, RecordsAgree, KeysReal, ComparedIsKnown, Fetching, Differs
<1>p. ComparedIsPinned'
  BY <1>0, <1>g, <1>r, <1>c, <1>o, RestForm, IdleForm, Fixed, SessionFields DEF Typed, IInv,
     LanesShaped, RecordsAgree, KeysReal, ComparedIsKnown, ComparedIsPinned, Held, Sound,
     Fetching, Differs
<1>6. SessionFollows'
  BY <1>0, <1>g, <1>r, <1>c, <1>o, RestForm, IdleForm, Fixed, SessionFields DEF Typed, IInv,
     LanesShaped, RecordsAgree, KeysReal, SessionFollows, Under, Fetching, Differs
<1>7. PinStep
  BY <1>0, <1>g, <1>r, <1>c, <1>o, RestForm, IdleForm, Fixed, SessionFields DEF Typed, PinStep,
     IInv, TypeOK, LanesShaped, RecordsAgree, KeysReal, Differs, Fetching
<1> QED BY <1>2, <1>l, <1>3, <1>4, <1>5, <1>p, <1>6, <1>7 DEF IInv

LEMMA CheckBundleKeeps2 ==
  ASSUME IInv, CheckBundle, ~Differs(cmd.base, cmd.key)
  PROVE  IInv' /\ PinStep
<1>0. Typed
  BY TypedHolds
<1>g. /\ cmd.op = "send" /\ cmd.pc = "bundle" /\ ~Differs(cmd.base, cmd.key)
      /\ UNCHANGED <<contact, saved, auto, session, pending, server, theirs, mail, rx, compared,
                     relied, crossed, revived, torn, made, commands, faults>>
  BY <1>0 DEF Typed, CheckBundle, IInv, TypeOK, book, lanes, peer, marks, Become, CmdType
<1>cr. cmd' = [cmd EXCEPT !.pc = "post"]
  BY DEF CheckBundle, Become
<1>ct. cmd \in CmdType /\ "post" \in Places
  BY <1>0, SessionFields DEF Typed, Places
<1>ci. /\ [cmd EXCEPT !.pc = "post"] \in CmdType
      /\ [cmd EXCEPT !.pc = "post"].pc = "post"
      /\ [cmd EXCEPT !.pc = "post"].op = cmd.op
      /\ [cmd EXCEPT !.pc = "post"].base = cmd.base
      /\ [cmd EXCEPT !.pc = "post"].key = cmd.key
      /\ [cmd EXCEPT !.pc = "post"].sess = cmd.sess
      /\ ([cmd EXCEPT !.pc = "post"].halt <=> cmd.halt)
  BY PcForm, <1>ct
<1>c. /\ cmd' \in CmdType /\ cmd'.pc = "post" /\ cmd'.op = cmd.op /\ cmd'.base = cmd.base
      /\ cmd'.key = cmd.key /\ cmd'.sess = cmd.sess /\ (cmd'.halt <=> cmd.halt)
  BY <1>cr, <1>ci, Zenon
<1>s. Sound(contact)' /\ Sound(saved)' /\ Sound(cmd.base)'
  BY <1>0, <1>g, <1>c, Fixed, RestForm DEF Typed, IInv, TypeOK, RecordsAgree, LanesShaped, Sound,
     KeysReal, Fetching
<1>l. LanesShaped'
  BY <1>0, <1>g, <1>c, RestForm, IdleForm, Fixed, SessionFields DEF Typed, IInv, TypeOK,
     LanesShaped, Fetching
<1>3. RecordsAgree'
  BY <1>0, <1>g, <1>c, <1>s, RestForm, IdleForm, Fixed, SessionFields DEF Typed, IInv,
     LanesShaped, RecordsAgree, KeysReal, Fetching, Differs
<1>2. TypeOK'
  BY <1>0, <1>g, <1>c, <1>s, RestForm, IdleForm, Fixed, SessionFields DEF Typed, IInv, TypeOK,
     CmdType, Places, RxType
<1>4. KeysReal'
  BY <1>0, <1>g, <1>c, RestForm, IdleForm, Fixed, SessionFields, Bounds DEF Typed, IInv, TypeOK,
     LanesShaped, RecordsAgree, KeysReal, Keys, NoKey
<1>5. ComparedIsKnown'
  BY <1>0, <1>g, <1>c, RestForm, IdleForm, Fixed, SessionFields DEF Typed, IInv, TypeOK,
     LanesShaped, RecordsAgree, KeysReal, ComparedIsKnown, Fetching, Differs
<1>p. ComparedIsPinned'
  BY <1>0, <1>g, <1>c, RestForm, IdleForm, Fixed, SessionFields DEF Typed, IInv, LanesShaped,
     RecordsAgree, KeysReal, ComparedIsKnown, ComparedIsPinned, Held, Sound, Fetching, Differs
<1>6. SessionFollows'
  BY <1>0, <1>g, <1>c, RestForm, IdleForm, Fixed, SessionFields DEF Typed, IInv, LanesShaped,
     RecordsAgree, KeysReal, SessionFollows, Under, Fetching, Differs
<1>7. PinStep
  BY <1>0, <1>g, <1>c, RestForm, IdleForm, Fixed, SessionFields DEF Typed, PinStep, IInv, TypeOK,
     LanesShaped, RecordsAgree, KeysReal, Differs, Fetching
<1> QED BY <1>2, <1>l, <1>3, <1>4, <1>5, <1>p, <1>6, <1>7 DEF IInv

LEMMA TearDownKeeps1 ==
  ASSUME IInv, TearDown, cmd.halt
  PROVE  IInv' /\ PinStep
<1>0. Typed
  BY TypedHolds
<1>g. /\ cmd.pc = "teardown" /\ cmd.halt
      /\ UNCHANGED <<contact, saved, auto, pending, server, theirs, mail, rx, compared, relied,
                     crossed, revived, torn, made, commands, faults>>
  BY <1>0 DEF Typed, TearDown, IInv, TypeOK, book, lanes, peer, marks, Become, Drop
<1>c. /\ cmd' = Rest
  BY <1>0 DEF Typed, TearDown, IInv, TypeOK, book, lanes, peer, marks, Become, Drop
<1>o. /\ session' = NoSession
  BY <1>0 DEF Typed, TearDown, IInv, TypeOK, book, lanes, peer, marks, Become, Drop
<1>s. Sound(contact)' /\ Sound(saved)' /\ Sound(cmd.base)'
  BY <1>0, <1>g, <1>c, <1>o, Fixed, RestForm DEF Typed, IInv, TypeOK, RecordsAgree, LanesShaped,
     Sound, KeysReal, Fetching
<1>l. LanesShaped'
  BY <1>0, <1>g, <1>c, <1>o, RestForm, IdleForm, Fixed, SessionFields DEF Typed, IInv, TypeOK,
     LanesShaped, Fetching
<1>3. RecordsAgree'
  BY <1>0, <1>g, <1>c, <1>o, <1>s, RestForm, IdleForm, Fixed, SessionFields DEF Typed, IInv,
     LanesShaped, RecordsAgree, KeysReal, Fetching, Differs
<1>2. TypeOK'
  BY <1>0, <1>g, <1>c, <1>o, <1>s, RestForm, IdleForm, Fixed, SessionFields DEF Typed, IInv,
     TypeOK, CmdType, Places, RxType
<1>4. KeysReal'
  BY <1>0, <1>g, <1>c, <1>o, RestForm, IdleForm, Fixed, SessionFields, Bounds DEF Typed, IInv,
     TypeOK, LanesShaped, RecordsAgree, KeysReal, Keys, NoKey
<1>5. ComparedIsKnown'
  BY <1>0, <1>g, <1>c, <1>o, RestForm, IdleForm, Fixed, SessionFields DEF Typed, IInv, TypeOK,
     LanesShaped, RecordsAgree, KeysReal, ComparedIsKnown, Fetching, Differs
<1>p. ComparedIsPinned'
  BY <1>0, <1>g, <1>c, <1>o, RestForm, IdleForm, Fixed, SessionFields DEF Typed, IInv,
     LanesShaped, RecordsAgree, KeysReal, ComparedIsKnown, ComparedIsPinned, Held, Sound,
     Fetching, Differs
<1>6. SessionFollows'
  BY <1>0, <1>g, <1>c, <1>o, RestForm, IdleForm, Fixed, SessionFields DEF Typed, IInv,
     LanesShaped, RecordsAgree, KeysReal, SessionFollows, Under, Fetching, Differs
<1>7. PinStep
  BY <1>0, <1>g, <1>c, <1>o, RestForm, IdleForm, Fixed, SessionFields DEF Typed, PinStep, IInv,
     TypeOK, LanesShaped, RecordsAgree, KeysReal, Differs, Fetching
<1> QED BY <1>2, <1>l, <1>3, <1>4, <1>5, <1>p, <1>6, <1>7 DEF IInv

LEMMA TearDownKeeps2 ==
  ASSUME IInv, TearDown, ~cmd.halt /\ cmd.op = "verify"
  PROVE  IInv' /\ PinStep
<1>0. Typed
  BY TypedHolds
<1>g. /\ cmd.pc = "teardown" /\ ~cmd.halt /\ cmd.op = "verify"
      /\ UNCHANGED <<contact, saved, auto, pending, server, theirs, mail, rx, relied, crossed,
                     revived, torn, made, commands, faults>>
  BY <1>0 DEF Typed, TearDown, IInv, TypeOK, book, lanes, peer, marks, Become, Drop, Show
<1>c. /\ cmd' = Rest
  BY <1>0 DEF Typed, TearDown, IInv, TypeOK, book, lanes, peer, marks, Become, Drop, Show
<1>o. /\ session' = NoSession /\ compared' = cmd.key
  BY <1>0 DEF Typed, TearDown, IInv, TypeOK, book, lanes, peer, marks, Become, Drop, Show
<1>s. Sound(contact)' /\ Sound(saved)' /\ Sound(cmd.base)'
  BY <1>0, <1>g, <1>c, <1>o, Fixed, RestForm DEF Typed, IInv, TypeOK, RecordsAgree, LanesShaped,
     Sound, KeysReal, Fetching
<1>l. LanesShaped'
  BY <1>0, <1>g, <1>c, <1>o, RestForm, IdleForm, Fixed, SessionFields DEF Typed, IInv, TypeOK,
     LanesShaped, Fetching
<1>3. RecordsAgree'
  BY <1>0, <1>g, <1>c, <1>o, <1>s, RestForm, IdleForm, Fixed, SessionFields DEF Typed, IInv,
     LanesShaped, RecordsAgree, KeysReal, Fetching, Differs
<1>2. TypeOK'
  BY <1>0, <1>g, <1>c, <1>o, <1>s, RestForm, IdleForm, Fixed, SessionFields DEF Typed, IInv,
     TypeOK, CmdType, Places, RxType
<1>4. KeysReal'
  BY <1>0, <1>g, <1>c, <1>o, RestForm, IdleForm, Fixed, SessionFields, Bounds DEF Typed, IInv,
     TypeOK, LanesShaped, RecordsAgree, KeysReal, Keys, NoKey
<1>5. ComparedIsKnown'
  BY <1>0, <1>g, <1>c, <1>o, RestForm, IdleForm, Fixed, SessionFields DEF Typed, IInv, TypeOK,
     LanesShaped, RecordsAgree, KeysReal, ComparedIsKnown, Fetching, Differs
<1>p. ComparedIsPinned'
  BY <1>0, <1>g, <1>c, <1>o, RestForm, IdleForm, Fixed, SessionFields DEF Typed, IInv,
     LanesShaped, RecordsAgree, KeysReal, ComparedIsKnown, ComparedIsPinned, Held, Sound,
     Fetching, Differs
<1>6. SessionFollows'
  BY <1>0, <1>g, <1>c, <1>o, RestForm, IdleForm, Fixed, SessionFields DEF Typed, IInv,
     LanesShaped, RecordsAgree, KeysReal, SessionFollows, Under, Fetching, Differs
<1>7. PinStep
  BY <1>0, <1>g, <1>c, <1>o, RestForm, IdleForm, Fixed, SessionFields DEF Typed, PinStep, IInv,
     TypeOK, LanesShaped, RecordsAgree, KeysReal, Differs, Fetching
<1> QED BY <1>2, <1>l, <1>3, <1>4, <1>5, <1>p, <1>6, <1>7 DEF IInv

LEMMA TearDownKeeps3 ==
  ASSUME IInv, TearDown, ~cmd.halt /\ cmd.op # "verify"
  PROVE  IInv' /\ PinStep
<1>0. Typed
  BY TypedHolds
<1>g. /\ cmd.pc = "teardown" /\ ~cmd.halt /\ cmd.op # "verify"
      /\ UNCHANGED <<contact, saved, auto, pending, server, theirs, mail, rx, compared, relied,
                     crossed, revived, torn, made, commands, faults>>
  BY <1>0 DEF Typed, TearDown, IInv, TypeOK, book, lanes, peer, marks, Become, Drop, CmdType
<1>cr. cmd' = [cmd EXCEPT !.pc = "post", !.base = contact]
  BY DEF TearDown, Become, Drop
<1>ct. cmd \in CmdType /\ "post" \in Places /\ contact \in Contacts
  BY <1>0, SessionFields DEF Typed, Places
<1>ci. /\ [cmd EXCEPT !.pc = "post", !.base = contact] \in CmdType
      /\ [cmd EXCEPT !.pc = "post", !.base = contact].pc = "post"
      /\ [cmd EXCEPT !.pc = "post", !.base = contact].op = cmd.op
      /\ [cmd EXCEPT !.pc = "post", !.base = contact].base = contact
      /\ [cmd EXCEPT !.pc = "post", !.base = contact].key = cmd.key
      /\ [cmd EXCEPT !.pc = "post", !.base = contact].sess = cmd.sess
      /\ ([cmd EXCEPT !.pc = "post", !.base = contact].halt <=> cmd.halt)
  BY <1>ct DEF CmdType, Places
<1>c. /\ cmd' \in CmdType /\ cmd'.pc = "post" /\ cmd'.op = cmd.op /\ cmd'.base = contact
      /\ cmd'.key = cmd.key /\ cmd'.sess = cmd.sess /\ (cmd'.halt <=> cmd.halt)
  BY <1>cr, <1>ci, Zenon
<1>o. /\ session' = NoSession
  BY <1>0 DEF Typed, TearDown, IInv, TypeOK, book, lanes, peer, marks, Become, Drop, CmdType
<1>s. Sound(contact)' /\ Sound(saved)' /\ Sound(cmd.base)'
  BY <1>0, <1>g, <1>c, <1>o, Fixed, RestForm DEF Typed, IInv, TypeOK, RecordsAgree, LanesShaped,
     Sound, KeysReal, Fetching
<1>l. LanesShaped'
  BY <1>0, <1>g, <1>c, <1>o, RestForm, IdleForm, Fixed, SessionFields DEF Typed, IInv, TypeOK,
     LanesShaped, Fetching
<1>3. RecordsAgree'
  BY <1>0, <1>g, <1>c, <1>o, <1>s, RestForm, IdleForm, Fixed, SessionFields DEF Typed, IInv,
     LanesShaped, RecordsAgree, KeysReal, Fetching, Differs
<1>2. TypeOK'
  BY <1>0, <1>g, <1>c, <1>o, <1>s, RestForm, IdleForm, Fixed, SessionFields DEF Typed, IInv,
     TypeOK, CmdType, Places, RxType
<1>4. KeysReal'
  BY <1>0, <1>g, <1>c, <1>o, RestForm, IdleForm, Fixed, SessionFields, Bounds DEF Typed, IInv,
     TypeOK, LanesShaped, RecordsAgree, KeysReal, Keys, NoKey
<1>5. ComparedIsKnown'
  BY <1>0, <1>g, <1>c, <1>o, RestForm, IdleForm, Fixed, SessionFields DEF Typed, IInv, TypeOK,
     LanesShaped, RecordsAgree, KeysReal, ComparedIsKnown, Fetching, Differs
<1>p. ComparedIsPinned'
  BY <1>0, <1>g, <1>c, <1>o, RestForm, IdleForm, Fixed, SessionFields DEF Typed, IInv,
     LanesShaped, RecordsAgree, KeysReal, ComparedIsKnown, ComparedIsPinned, Held, Sound,
     Fetching, Differs
<1>6. SessionFollows'
  BY <1>0, <1>g, <1>c, <1>o, RestForm, IdleForm, Fixed, SessionFields DEF Typed, IInv,
     LanesShaped, RecordsAgree, KeysReal, SessionFollows, Under, Fetching, Differs
<1>7. PinStep
  BY <1>0, <1>g, <1>c, <1>o, RestForm, IdleForm, Fixed, SessionFields DEF Typed, PinStep, IInv,
     TypeOK, LanesShaped, RecordsAgree, KeysReal, Differs, Fetching
<1> QED BY <1>2, <1>l, <1>3, <1>4, <1>5, <1>p, <1>6, <1>7 DEF IInv

LEMMA PostFirstKeeps1 ==
  ASSUME IInv, PostFirst(TRUE)
  PROVE  IInv' /\ PinStep
<1>0. Typed
  BY TypedHolds
<1>k. /\ made < MaxSessions /\ made + 1 \in 0 .. MaxSessions
      /\ [n |-> made + 1, key |-> cmd.key] \in Sessions /\ [n |-> made + 1, key |-> cmd.key].key = cmd.key
  BY <1>0, NewSession DEF Typed, PostFirst
<1>g. /\ cmd.pc = "post" /\ made < MaxSessions
      /\ UNCHANGED <<contact, saved, auto, session, pending, server, mail, rx, compared, relied,
                     crossed, revived, torn, commands, faults>>
  BY <1>0, <1>k DEF Typed, PostFirst, IInv, TypeOK, book, lanes, peer, marks, Become
<1>n. /\ made' \in 0 .. MaxSessions
  BY <1>0, <1>k DEF Typed, PostFirst, IInv, TypeOK, book, lanes, peer, marks, Become
<1>cr. cmd' = [cmd EXCEPT !.pc = "store", !.sess = [n |-> made + 1, key |-> cmd.key]]
  BY DEF PostFirst, Become
<1>ct. cmd \in CmdType /\ "store" \in Places /\ [n |-> made + 1, key |-> cmd.key] \in Sessions
  BY <1>0, <1>k, SessionFields DEF Typed, Places
<1>ci. /\ [cmd EXCEPT !.pc = "store", !.sess = [n |-> made + 1, key |-> cmd.key]] \in CmdType
      /\ [cmd EXCEPT !.pc = "store", !.sess = [n |-> made + 1, key |-> cmd.key]].pc = "store"
      /\ [cmd EXCEPT !.pc = "store", !.sess = [n |-> made + 1, key |-> cmd.key]].op = cmd.op
      /\ [cmd EXCEPT !.pc = "store", !.sess = [n |-> made + 1, key |-> cmd.key]].base = cmd.base
      /\ [cmd EXCEPT !.pc = "store", !.sess = [n |-> made + 1, key |-> cmd.key]].key = cmd.key
      /\ [cmd EXCEPT !.pc = "store", !.sess = [n |-> made + 1, key |-> cmd.key]].sess = [n |-> made + 1, key |-> cmd.key]
      /\ ([cmd EXCEPT !.pc = "store", !.sess = [n |-> made + 1, key |-> cmd.key]].halt <=> cmd.halt)
  BY <1>ct DEF CmdType, Places
<1>c. /\ cmd' \in CmdType /\ cmd'.pc = "store" /\ cmd'.op = cmd.op /\ cmd'.base = cmd.base
      /\ cmd'.key = cmd.key /\ cmd'.sess = [n |-> made + 1, key |-> cmd.key]
      /\ (cmd'.halt <=> cmd.halt)
  BY <1>cr, <1>ci, Zenon
<1>o. /\ [n |-> made + 1, key |-> cmd.key] \in Sessions
      /\ [n |-> made + 1, key |-> cmd.key].key = cmd.key
      /\ theirs' \in {theirs, [n |-> made + 1, key |-> cmd.key]}
  BY <1>0, <1>k DEF Typed, PostFirst, IInv, TypeOK, book, lanes, peer, marks, Become
<1>s. Sound(contact)' /\ Sound(saved)' /\ Sound(cmd.base)'
  BY <1>0, <1>k, <1>g, <1>n, <1>c, <1>o, Fixed, RestForm DEF Typed, IInv, TypeOK, RecordsAgree,
     LanesShaped, Sound, KeysReal, Fetching
<1>l. LanesShaped'
  BY <1>0, <1>k, <1>g, <1>n, <1>c, <1>o, RestForm, IdleForm, Fixed, SessionFields DEF Typed, IInv,
     TypeOK, LanesShaped, Fetching
<1>3. RecordsAgree'
  BY <1>0, <1>k, <1>g, <1>n, <1>c, <1>o, <1>s, RestForm, IdleForm, Fixed, SessionFields DEF Typed,
     IInv, LanesShaped, RecordsAgree, KeysReal, Fetching, Differs
<1>2. TypeOK'
  BY <1>0, <1>k, <1>g, <1>n, <1>c, <1>o, <1>s, RestForm, IdleForm, Fixed, SessionFields DEF Typed,
     IInv, TypeOK, CmdType, Places, RxType
<1>4. KeysReal'
  BY <1>0, <1>k, <1>g, <1>n, <1>c, <1>o, RestForm, IdleForm, Fixed, SessionFields, Bounds
     DEF Typed, IInv, TypeOK, LanesShaped, RecordsAgree, KeysReal, Keys, NoKey
<1>5. ComparedIsKnown'
  BY <1>0, <1>k, <1>g, <1>n, <1>c, <1>o, RestForm, IdleForm, Fixed, SessionFields DEF Typed, IInv,
     TypeOK, LanesShaped, RecordsAgree, KeysReal, ComparedIsKnown, Fetching, Differs
<1>p. ComparedIsPinned'
  BY <1>0, <1>k, <1>g, <1>n, <1>c, <1>o, RestForm, IdleForm, Fixed, SessionFields DEF Typed, IInv,
     LanesShaped, RecordsAgree, KeysReal, ComparedIsKnown, ComparedIsPinned, Held, Sound,
     Fetching, Differs
<1>6. SessionFollows'
  BY <1>0, <1>k, <1>g, <1>n, <1>c, <1>o, RestForm, IdleForm, Fixed, SessionFields DEF Typed, IInv,
     LanesShaped, RecordsAgree, KeysReal, SessionFollows, Under, Fetching, Differs
<1>7. PinStep
  BY <1>0, <1>k, <1>g, <1>n, <1>c, <1>o, RestForm, IdleForm, Fixed, SessionFields DEF Typed,
     PinStep, IInv, TypeOK, LanesShaped, RecordsAgree, KeysReal, Differs, Fetching
<1> QED BY <1>2, <1>l, <1>3, <1>4, <1>5, <1>p, <1>6, <1>7 DEF IInv

LEMMA PostFirstKeeps2 ==
  ASSUME IInv, PostFirst(FALSE)
  PROVE  IInv' /\ PinStep
<1>0. Typed
  BY TypedHolds
<1>g. /\ cmd.pc = "post"
      /\ UNCHANGED <<contact, saved, auto, session, pending, server, theirs, mail, rx, compared,
                     relied, crossed, revived, torn, made, commands>>
  BY <1>0 DEF Typed, PostFirst, IInv, TypeOK, book, lanes, peer, marks, Become
<1>n. /\ faults' \in 0 .. MaxFaults
  BY Bounds DEF PostFirst, IInv, TypeOK
<1>c. /\ cmd' = Rest
  BY <1>0 DEF Typed, PostFirst, IInv, TypeOK, book, lanes, peer, marks, Become
<1>s. Sound(contact)' /\ Sound(saved)' /\ Sound(cmd.base)'
  BY <1>0, <1>g, <1>n, <1>c, Fixed, RestForm DEF Typed, IInv, TypeOK, RecordsAgree, LanesShaped,
     Sound, KeysReal, Fetching
<1>l. LanesShaped'
  BY <1>0, <1>g, <1>n, <1>c, RestForm, IdleForm, Fixed, SessionFields DEF Typed, IInv, TypeOK,
     LanesShaped, Fetching
<1>3. RecordsAgree'
  BY <1>0, <1>g, <1>n, <1>c, <1>s, RestForm, IdleForm, Fixed, SessionFields DEF Typed, IInv,
     LanesShaped, RecordsAgree, KeysReal, Fetching, Differs
<1>2. TypeOK'
  BY <1>0, <1>g, <1>n, <1>c, <1>s, RestForm, IdleForm, Fixed, SessionFields DEF Typed, IInv,
     TypeOK, CmdType, Places, RxType
<1>4. KeysReal'
  BY <1>0, <1>g, <1>n, <1>c, RestForm, IdleForm, Fixed, SessionFields, Bounds DEF Typed, IInv,
     TypeOK, LanesShaped, RecordsAgree, KeysReal, Keys, NoKey
<1>5. ComparedIsKnown'
  BY <1>0, <1>g, <1>n, <1>c, RestForm, IdleForm, Fixed, SessionFields DEF Typed, IInv, TypeOK,
     LanesShaped, RecordsAgree, KeysReal, ComparedIsKnown, Fetching, Differs
<1>p. ComparedIsPinned'
  BY <1>0, <1>g, <1>n, <1>c, RestForm, IdleForm, Fixed, SessionFields DEF Typed, IInv,
     LanesShaped, RecordsAgree, KeysReal, ComparedIsKnown, ComparedIsPinned, Held, Sound,
     Fetching, Differs
<1>6. SessionFollows'
  BY <1>0, <1>g, <1>n, <1>c, RestForm, IdleForm, Fixed, SessionFields DEF Typed, IInv,
     LanesShaped, RecordsAgree, KeysReal, SessionFollows, Under, Fetching, Differs
<1>7. PinStep
  BY <1>0, <1>g, <1>n, <1>c, RestForm, IdleForm, Fixed, SessionFields DEF Typed, PinStep, IInv,
     TypeOK, LanesShaped, RecordsAgree, KeysReal, Differs, Fetching
<1> QED BY <1>2, <1>l, <1>3, <1>4, <1>5, <1>p, <1>6, <1>7 DEF IInv

LEMMA StoreFirstKeeps1 ==
  ASSUME IInv, StoreFirst, cmd.base.ik = NoKey
  PROVE  IInv' /\ PinStep
<1>0. Typed
  BY TypedHolds
<1>g. /\ cmd.pc = "store" /\ cmd.base.ik = NoKey
      /\ UNCHANGED <<contact, saved, auto, pending, server, theirs, mail, rx, compared, relied,
                     revived, torn, made, commands, faults>>
  BY <1>0 DEF Typed, StoreFirst, IInv, TypeOK, book, lanes, peer, marks, Become, CmdType
<1>cr. cmd' = [cmd EXCEPT !.pc = "pin"]
  BY DEF StoreFirst, Become
<1>ct. cmd \in CmdType /\ "pin" \in Places
  BY <1>0, SessionFields DEF Typed, Places
<1>ci. /\ [cmd EXCEPT !.pc = "pin"] \in CmdType
      /\ [cmd EXCEPT !.pc = "pin"].pc = "pin"
      /\ [cmd EXCEPT !.pc = "pin"].op = cmd.op
      /\ [cmd EXCEPT !.pc = "pin"].base = cmd.base
      /\ [cmd EXCEPT !.pc = "pin"].key = cmd.key
      /\ [cmd EXCEPT !.pc = "pin"].sess = cmd.sess
      /\ ([cmd EXCEPT !.pc = "pin"].halt <=> cmd.halt)
  BY PcForm, <1>ct
<1>c. /\ cmd' \in CmdType /\ cmd'.pc = "pin" /\ cmd'.op = cmd.op /\ cmd'.base = cmd.base
      /\ cmd'.key = cmd.key /\ cmd'.sess = cmd.sess /\ (cmd'.halt <=> cmd.halt)
  BY <1>cr, <1>ci, Zenon
<1>o. /\ session' = cmd.sess /\ crossed' = (crossed \/ Differs(contact, cmd.key))
  BY <1>0 DEF Typed, StoreFirst, IInv, TypeOK, book, lanes, peer, marks, Become, CmdType
<1>s. Sound(contact)' /\ Sound(saved)' /\ Sound(cmd.base)'
  BY <1>0, <1>g, <1>c, <1>o, Fixed, RestForm DEF Typed, IInv, TypeOK, RecordsAgree, LanesShaped,
     Sound, KeysReal, Fetching
<1>l. LanesShaped'
  BY <1>0, <1>g, <1>c, <1>o, RestForm, IdleForm, Fixed, SessionFields DEF Typed, IInv, TypeOK,
     LanesShaped, Fetching
<1>3. RecordsAgree'
  BY <1>0, <1>g, <1>c, <1>o, <1>s, RestForm, IdleForm, Fixed, SessionFields DEF Typed, IInv,
     LanesShaped, RecordsAgree, KeysReal, Fetching, Differs
<1>2. TypeOK'
  BY <1>0, <1>g, <1>c, <1>o, <1>s, RestForm, IdleForm, Fixed, SessionFields DEF Typed, IInv,
     TypeOK, CmdType, Places, RxType
<1>4. KeysReal'
  BY <1>0, <1>g, <1>c, <1>o, RestForm, IdleForm, Fixed, SessionFields, Bounds DEF Typed, IInv,
     TypeOK, LanesShaped, RecordsAgree, KeysReal, Keys, NoKey
<1>5. ComparedIsKnown'
  BY <1>0, <1>g, <1>c, <1>o, RestForm, IdleForm, Fixed, SessionFields DEF Typed, IInv, TypeOK,
     LanesShaped, RecordsAgree, KeysReal, ComparedIsKnown, Fetching, Differs
<1>p. ComparedIsPinned'
  BY <1>0, <1>g, <1>c, <1>o, RestForm, IdleForm, Fixed, SessionFields DEF Typed, IInv,
     LanesShaped, RecordsAgree, KeysReal, ComparedIsKnown, ComparedIsPinned, Held, Sound,
     Fetching, Differs
<1>6. SessionFollows'
  BY <1>0, <1>g, <1>c, <1>o, RestForm, IdleForm, Fixed, SessionFields DEF Typed, IInv,
     LanesShaped, RecordsAgree, KeysReal, SessionFollows, Under, Fetching, Differs
<1>7. PinStep
  BY <1>0, <1>g, <1>c, <1>o, RestForm, IdleForm, Fixed, SessionFields DEF Typed, PinStep, IInv,
     TypeOK, LanesShaped, RecordsAgree, KeysReal, Differs, Fetching
<1> QED BY <1>2, <1>l, <1>3, <1>4, <1>5, <1>p, <1>6, <1>7 DEF IInv

LEMMA StoreFirstKeeps2 ==
  ASSUME IInv, StoreFirst, cmd.base.ik # NoKey
  PROVE  IInv' /\ PinStep
<1>0. Typed
  BY TypedHolds
<1>g. /\ cmd.pc = "store" /\ cmd.base.ik # NoKey
      /\ UNCHANGED <<contact, saved, auto, pending, server, theirs, mail, rx, compared, relied,
                     revived, torn, made, commands, faults>>
  BY <1>0 DEF Typed, StoreFirst, IInv, TypeOK, book, lanes, peer, marks, Become
<1>c. /\ cmd' = Rest
  BY <1>0 DEF Typed, StoreFirst, IInv, TypeOK, book, lanes, peer, marks, Become
<1>o. /\ session' = cmd.sess /\ crossed' = (crossed \/ Differs(contact, cmd.key))
  BY <1>0 DEF Typed, StoreFirst, IInv, TypeOK, book, lanes, peer, marks, Become
<1>w. cmd.op = "send" /\ contact.ik # NoKey /\ cmd.sess.key = cmd.key
  BY <1>0, <1>g DEF Typed, IInv, CmdType, LanesShaped, RecordsAgree, KeysReal, Fetching
<1>s. Sound(contact)' /\ Sound(saved)' /\ Sound(cmd.base)'
  BY <1>0, <1>g, <1>c, <1>o, <1>w, Fixed, RestForm DEF Typed, IInv, TypeOK, RecordsAgree,
     LanesShaped, Sound, KeysReal, Fetching
<1>l. LanesShaped'
  BY <1>0, <1>g, <1>c, <1>o, <1>w, RestForm, IdleForm, Fixed, SessionFields DEF Typed, IInv,
     TypeOK, LanesShaped, Fetching
<1>3. RecordsAgree'
  BY <1>0, <1>g, <1>c, <1>o, <1>w, <1>s, RestForm, IdleForm, Fixed, SessionFields DEF Typed, IInv,
     LanesShaped, RecordsAgree, KeysReal, Fetching, Differs
<1>2. TypeOK'
  BY <1>0, <1>g, <1>c, <1>o, <1>w, <1>s, RestForm, IdleForm, Fixed, SessionFields DEF Typed, IInv,
     TypeOK, CmdType, Places, RxType
<1>4. KeysReal'
  BY <1>0, <1>g, <1>c, <1>o, <1>w, RestForm, IdleForm, Fixed, SessionFields, Bounds DEF Typed,
     IInv, TypeOK, LanesShaped, RecordsAgree, KeysReal, Keys, NoKey
<1>5. ComparedIsKnown'
  BY <1>0, <1>g, <1>c, <1>o, <1>w, RestForm, IdleForm, Fixed, SessionFields DEF Typed, IInv,
     TypeOK, LanesShaped, RecordsAgree, KeysReal, ComparedIsKnown, Fetching, Differs
<1>p. ComparedIsPinned'
  BY <1>0, <1>g, <1>c, <1>o, <1>w, RestForm, IdleForm, Fixed, SessionFields DEF Typed, IInv,
     LanesShaped, RecordsAgree, KeysReal, ComparedIsKnown, ComparedIsPinned, Held, Sound,
     Fetching, Differs
<1>6. SessionFollows'
  BY <1>0, <1>g, <1>c, <1>o, <1>w, RestForm, IdleForm, Fixed, SessionFields DEF Typed, IInv,
     LanesShaped, RecordsAgree, KeysReal, SessionFollows, Under, Fetching, Differs
<1>7. PinStep
  BY <1>0, <1>g, <1>c, <1>o, <1>w, RestForm, IdleForm, Fixed, SessionFields DEF Typed, PinStep,
     IInv, TypeOK, LanesShaped, RecordsAgree, KeysReal, Differs, Fetching
<1> QED BY <1>2, <1>l, <1>3, <1>4, <1>5, <1>p, <1>6, <1>7 DEF IInv

LEMMA PinFirstKeeps ==
  ASSUME IInv, PinFirst
  PROVE  IInv' /\ PinStep
<1>0. Typed
  BY TypedHolds
<1>g. /\ cmd.op = "send" /\ cmd.pc = "pin"
      /\ UNCHANGED <<auto, session, pending, server, theirs, mail, rx, compared, relied, revived,
                     torn, made, commands, faults>>
  BY <1>0, RecordForms DEF Typed, PinFirst, IInv, TypeOK, book, lanes, peer, marks, Become, Save,
     Cross
<1>rr. /\ contact' = Pinned(cmd.base, cmd.key)
      /\ saved' = contact'
  BY DEF PinFirst, Become, Save, Cross
<1>rt. cmd.base \in Contacts /\ cmd.key \in Keys /\ auto \in BOOLEAN
  BY <1>0, SessionFields DEF Typed, Places
<1>ri. /\ Pinned(cmd.base, cmd.key) \in Contacts
      /\ (Pinned(cmd.base, cmd.key).known <=> cmd.base.known)
      /\ Pinned(cmd.base, cmd.key).ik = cmd.key
      /\ (Pinned(cmd.base, cmd.key).verified <=> (auto \/ cmd.base.verified))
      /\ (Pinned(cmd.base, cmd.key).blocked <=> cmd.base.blocked)
  BY RecordForms, <1>rt
<1>r. /\ contact' \in Contacts /\ (contact'.known <=> cmd.base.known) /\ contact'.ik = cmd.key
      /\ (contact'.verified <=> (auto \/ cmd.base.verified))
      /\ (contact'.blocked <=> cmd.base.blocked) /\ saved' = contact'
  BY <1>rr, <1>ri, Zenon
<1>c. /\ cmd' = Rest
  BY <1>0, RecordForms DEF Typed, PinFirst, IInv, TypeOK, book, lanes, peer, marks, Become, Save,
     Cross
<1>o. /\ crossed' = (crossed \/ cmd.base # contact)
  BY <1>0, RecordForms DEF Typed, PinFirst, IInv, TypeOK, book, lanes, peer, marks, Become, Save,
     Cross
<1>s. Sound(contact)' /\ Sound(saved)' /\ Sound(cmd.base)'
  BY <1>0, <1>g, <1>r, <1>c, <1>o, Fixed, RestForm DEF Typed, IInv, TypeOK, RecordsAgree,
     LanesShaped, Sound, KeysReal, Fetching
<1>l. LanesShaped'
  BY <1>0, <1>g, <1>r, <1>c, <1>o, RestForm, IdleForm, Fixed, SessionFields DEF Typed, IInv,
     TypeOK, LanesShaped, Fetching
<1>3. RecordsAgree'
  BY <1>0, <1>g, <1>r, <1>c, <1>o, <1>s, RestForm, IdleForm, Fixed, SessionFields DEF Typed, IInv,
     LanesShaped, RecordsAgree, KeysReal, Fetching, Differs
<1>2. TypeOK'
  BY <1>0, <1>g, <1>r, <1>c, <1>o, <1>s, RestForm, IdleForm, Fixed, SessionFields DEF Typed, IInv,
     TypeOK, CmdType, Places, RxType
<1>4. KeysReal'
  BY <1>0, <1>g, <1>r, <1>c, <1>o, RestForm, IdleForm, Fixed, SessionFields, Bounds DEF Typed,
     IInv, TypeOK, LanesShaped, RecordsAgree, KeysReal, Keys, NoKey
<1>5. ComparedIsKnown'
  BY <1>0, <1>g, <1>r, <1>c, <1>o, RestForm, IdleForm, Fixed, SessionFields DEF Typed, IInv,
     TypeOK, LanesShaped, RecordsAgree, KeysReal, ComparedIsKnown, Fetching, Differs
<1>p. ComparedIsPinned'
  BY <1>0, <1>g, <1>r, <1>c, <1>o, RestForm, IdleForm, Fixed, SessionFields DEF Typed, IInv,
     LanesShaped, RecordsAgree, KeysReal, ComparedIsKnown, ComparedIsPinned, Held, Sound,
     Fetching, Differs
<1>6. SessionFollows'
  BY <1>0, <1>g, <1>r, <1>c, <1>o, RestForm, IdleForm, Fixed, SessionFields DEF Typed, IInv,
     LanesShaped, RecordsAgree, KeysReal, SessionFollows, Under, Fetching, Differs
<1>7. PinStep
  BY <1>0, <1>g, <1>r, <1>c, <1>o, RestForm, IdleForm, Fixed, SessionFields DEF Typed, PinStep,
     IInv, TypeOK, LanesShaped, RecordsAgree, KeysReal, Differs, Fetching
<1> QED BY <1>2, <1>l, <1>3, <1>4, <1>5, <1>p, <1>6, <1>7 DEF IInv

LEMMA PeerGreetsKeeps ==
  ASSUME IInv, PeerGreets
  PROVE  IInv' /\ PinStep
<1>0. Typed
  BY TypedHolds
<1>k. /\ made < MaxSessions /\ made + 1 \in 0 .. MaxSessions
      /\ [n |-> made + 1, key |-> server] \in Sessions /\ [n |-> made + 1, key |-> server].key = server
  BY <1>0, NewSession DEF Typed, PeerGreets
<1>g. /\ made < MaxSessions
      /\ UNCHANGED <<contact, saved, auto, session, pending, server, cmd, rx, compared, relied,
                     crossed, revived, torn, commands, faults>>
  BY <1>0, <1>k DEF Typed, PeerGreets, IInv, TypeOK, book, lanes, peer, marks
<1>n. /\ made' \in 0 .. MaxSessions
  BY <1>0, <1>k DEF Typed, PeerGreets, IInv, TypeOK, book, lanes, peer, marks
<1>o. /\ [n |-> made + 1, key |-> server] \in Sessions
      /\ [n |-> made + 1, key |-> server].key = server
      /\ theirs' = [n |-> made + 1, key |-> server]
      /\ mail' = Append(mail, [kx |-> TRUE, sess |-> theirs'])
  BY <1>0, <1>k DEF Typed, PeerGreets, IInv, TypeOK, book, lanes, peer, marks
<1>s. Sound(contact)' /\ Sound(saved)' /\ Sound(cmd.base)'
  BY <1>0, <1>k, <1>g, <1>n, <1>o, Fixed, RestForm DEF Typed, IInv, TypeOK, RecordsAgree,
     LanesShaped, Sound, KeysReal, Fetching
<1>l. LanesShaped'
  BY <1>0, <1>k, <1>g, <1>n, <1>o, RestForm, IdleForm, Fixed, SessionFields DEF Typed, IInv,
     TypeOK, LanesShaped, Fetching
<1>3. RecordsAgree'
  BY <1>0, <1>k, <1>g, <1>n, <1>o, <1>s, RestForm, IdleForm, Fixed, SessionFields DEF Typed, IInv,
     LanesShaped, RecordsAgree, KeysReal, Fetching, Differs
<1>a. mail' \in Seq(Messages)
  BY <1>0, <1>k, <1>g, <1>n, <1>o DEF Typed, Messages
<1>2. TypeOK'
  BY <1>0, <1>k, <1>g, <1>n, <1>o, <1>s, <1>a, RestForm, IdleForm, Fixed, SessionFields DEF Typed,
     IInv, TypeOK, CmdType, Places, RxType
<1>4. KeysReal'
  BY SMTT(20), <1>0, <1>k, <1>g, <1>n, <1>o, RestForm, IdleForm, Fixed, SessionFields, Bounds DEF Typed,
     IInv, TypeOK, LanesShaped, RecordsAgree, KeysReal, Keys, NoKey
<1>5. ComparedIsKnown'
  BY <1>0, <1>k, <1>g, <1>n, <1>o, RestForm, IdleForm, Fixed, SessionFields DEF Typed, IInv,
     TypeOK, LanesShaped, RecordsAgree, KeysReal, ComparedIsKnown, Fetching, Differs
<1>p. ComparedIsPinned'
  BY <1>0, <1>k, <1>g, <1>n, <1>o, RestForm, IdleForm, Fixed, SessionFields DEF Typed, IInv,
     LanesShaped, RecordsAgree, KeysReal, ComparedIsKnown, ComparedIsPinned, Held, Sound,
     Fetching, Differs
<1>6. SessionFollows'
  BY <1>0, <1>k, <1>g, <1>n, <1>o, RestForm, IdleForm, Fixed, SessionFields DEF Typed, IInv,
     LanesShaped, RecordsAgree, KeysReal, SessionFollows, Under, Fetching, Differs
<1>7. PinStep
  BY <1>0, <1>k, <1>g, <1>n, <1>o, RestForm, IdleForm, Fixed, SessionFields DEF Typed, PinStep,
     IInv, TypeOK, LanesShaped, RecordsAgree, KeysReal, Differs, Fetching
<1> QED BY <1>2, <1>l, <1>3, <1>4, <1>5, <1>p, <1>6, <1>7 DEF IInv

LEMMA PeerWritesKeeps ==
  ASSUME IInv, PeerWrites
  PROVE  IInv' /\ PinStep
<1>0. Typed
  BY TypedHolds
<1>g. /\ theirs # NoSession
      /\ UNCHANGED <<contact, saved, auto, session, pending, server, theirs, cmd, rx, compared,
                     relied, crossed, revived, torn, made, commands, faults>>
  BY <1>0 DEF Typed, PeerWrites, IInv, TypeOK, book, lanes, peer, marks
<1>o. /\ mail' = Append(mail, [kx |-> FALSE, sess |-> theirs])
  BY <1>0 DEF Typed, PeerWrites, IInv, TypeOK, book, lanes, peer, marks
<1>s. Sound(contact)' /\ Sound(saved)' /\ Sound(cmd.base)'
  BY <1>0, <1>g, <1>o, Fixed, RestForm DEF Typed, IInv, TypeOK, RecordsAgree, LanesShaped, Sound,
     KeysReal, Fetching
<1>l. LanesShaped'
  BY <1>0, <1>g, <1>o, RestForm, IdleForm, Fixed, SessionFields DEF Typed, IInv, TypeOK,
     LanesShaped, Fetching
<1>3. RecordsAgree'
  BY <1>0, <1>g, <1>o, <1>s, RestForm, IdleForm, Fixed, SessionFields DEF Typed, IInv,
     LanesShaped, RecordsAgree, KeysReal, Fetching, Differs
<1>a. mail' \in Seq(Messages)
  BY <1>0, <1>g, <1>o DEF Typed, Messages
<1>2. TypeOK'
  BY <1>0, <1>g, <1>o, <1>s, <1>a, RestForm, IdleForm, Fixed, SessionFields DEF Typed, IInv,
     TypeOK, CmdType, Places, RxType
<1>4. KeysReal'
  BY <1>0, <1>g, <1>o, RestForm, IdleForm, Fixed, SessionFields, Bounds DEF Typed, IInv, TypeOK,
     LanesShaped, RecordsAgree, KeysReal, Keys, NoKey
<1>5. ComparedIsKnown'
  BY <1>0, <1>g, <1>o, RestForm, IdleForm, Fixed, SessionFields DEF Typed, IInv, TypeOK,
     LanesShaped, RecordsAgree, KeysReal, ComparedIsKnown, Fetching, Differs
<1>p. ComparedIsPinned'
  BY <1>0, <1>g, <1>o, RestForm, IdleForm, Fixed, SessionFields DEF Typed, IInv, LanesShaped,
     RecordsAgree, KeysReal, ComparedIsKnown, ComparedIsPinned, Held, Sound, Fetching, Differs
<1>6. SessionFollows'
  BY <1>0, <1>g, <1>o, RestForm, IdleForm, Fixed, SessionFields DEF Typed, IInv, LanesShaped,
     RecordsAgree, KeysReal, SessionFollows, Under, Fetching, Differs
<1>7. PinStep
  BY <1>0, <1>g, <1>o, RestForm, IdleForm, Fixed, SessionFields DEF Typed, PinStep, IInv, TypeOK,
     LanesShaped, RecordsAgree, KeysReal, Differs, Fetching
<1> QED BY <1>2, <1>l, <1>3, <1>4, <1>5, <1>p, <1>6, <1>7 DEF IInv

LEMMA PeerRecoversKeeps ==
  ASSUME IInv, PeerRecovers
  PROVE  IInv' /\ PinStep
<1>0. Typed
  BY TypedHolds
<1>g. /\ UNCHANGED <<contact, saved, auto, session, pending, mail, cmd, rx, compared, relied,
                     crossed, revived, torn, made, commands, faults>>
  BY <1>0, Bounds DEF Typed, PeerRecovers, IInv, TypeOK, book, lanes, peer, marks
<1>o. /\ server' \in 1 .. MaxKeys /\ theirs' = NoSession
  BY <1>0, Bounds DEF Typed, PeerRecovers, IInv, TypeOK, book, lanes, peer, marks
<1>s. Sound(contact)' /\ Sound(saved)' /\ Sound(cmd.base)'
  BY <1>0, <1>g, <1>o, Fixed, RestForm DEF Typed, IInv, TypeOK, RecordsAgree, LanesShaped, Sound,
     KeysReal, Fetching
<1>l. LanesShaped'
  BY <1>0, <1>g, <1>o, RestForm, IdleForm, Fixed, SessionFields DEF Typed, IInv, TypeOK,
     LanesShaped, Fetching
<1>3. RecordsAgree'
  BY <1>0, <1>g, <1>o, <1>s, RestForm, IdleForm, Fixed, SessionFields DEF Typed, IInv,
     LanesShaped, RecordsAgree, KeysReal, Fetching, Differs
<1>2. TypeOK'
  BY <1>0, <1>g, <1>o, <1>s, RestForm, IdleForm, Fixed, SessionFields DEF Typed, IInv, TypeOK,
     CmdType, Places, RxType
<1>4. KeysReal'
  BY <1>0, <1>g, <1>o, RestForm, IdleForm, Fixed, SessionFields, Bounds DEF Typed, IInv, TypeOK,
     LanesShaped, RecordsAgree, KeysReal, Keys, NoKey
<1>5. ComparedIsKnown'
  BY <1>0, <1>g, <1>o, RestForm, IdleForm, Fixed, SessionFields DEF Typed, IInv, TypeOK,
     LanesShaped, RecordsAgree, KeysReal, ComparedIsKnown, Fetching, Differs
<1>p. ComparedIsPinned'
  BY <1>0, <1>g, <1>o, RestForm, IdleForm, Fixed, SessionFields DEF Typed, IInv, LanesShaped,
     RecordsAgree, KeysReal, ComparedIsKnown, ComparedIsPinned, Held, Sound, Fetching, Differs
<1>6. SessionFollows'
  BY <1>0, <1>g, <1>o, RestForm, IdleForm, Fixed, SessionFields DEF Typed, IInv, LanesShaped,
     RecordsAgree, KeysReal, SessionFollows, Under, Fetching, Differs
<1>7. PinStep
  BY <1>0, <1>g, <1>o, RestForm, IdleForm, Fixed, SessionFields DEF Typed, PinStep, IInv, TypeOK,
     LanesShaped, RecordsAgree, KeysReal, Differs, Fetching
<1> QED BY <1>2, <1>l, <1>3, <1>4, <1>5, <1>p, <1>6, <1>7 DEF IInv

LEMMA CloseKeeps ==
  ASSUME IInv, Close
  PROVE  IInv' /\ PinStep
<1>0. Typed
  BY TypedHolds
<1>g. /\ UNCHANGED <<saved, auto, session, pending, server, theirs, mail, compared, relied,
                     crossed, revived, made, commands>>
  BY <1>0 DEF Typed, Close, IInv, TypeOK, book, lanes, peer, marks
<1>n. /\ faults' \in 0 .. MaxFaults
  BY Bounds DEF Close, IInv, TypeOK
<1>r. /\ contact' = saved
  BY <1>0 DEF Typed, Close, IInv, TypeOK, book, lanes, peer, marks
<1>c. /\ cmd' = Rest
  BY <1>0 DEF Typed, Close, IInv, TypeOK, book, lanes, peer, marks
<1>x. /\ rx' = Idle
  BY <1>0 DEF Typed, Close, IInv, TypeOK, book, lanes, peer, marks
<1>o. /\ torn' = (torn \/ cmd.pc \in {"teardown", "pin"} \/ rx.pc = "teardown")
  BY <1>0 DEF Typed, Close, IInv, TypeOK, book, lanes, peer, marks
<1>s. Sound(contact)' /\ Sound(saved)' /\ Sound(cmd.base)'
  BY <1>0, <1>g, <1>n, <1>r, <1>c, <1>x, <1>o, Fixed, RestForm DEF Typed, IInv, TypeOK,
     RecordsAgree, LanesShaped, Sound, KeysReal, Fetching
<1>l. LanesShaped'
  BY <1>0, <1>g, <1>n, <1>r, <1>c, <1>x, <1>o, RestForm, IdleForm, Fixed, SessionFields DEF Typed,
     IInv, TypeOK, LanesShaped, Fetching
<1>3. RecordsAgree'
  BY <1>0, <1>g, <1>n, <1>r, <1>c, <1>x, <1>o, <1>s, RestForm, IdleForm, Fixed, SessionFields
     DEF Typed, IInv, LanesShaped, RecordsAgree, KeysReal, Fetching, Differs
<1>2. TypeOK'
  BY <1>0, <1>g, <1>n, <1>r, <1>c, <1>x, <1>o, <1>s, RestForm, IdleForm, Fixed, SessionFields
     DEF Typed, IInv, TypeOK, CmdType, Places, RxType
<1>4. KeysReal'
  BY <1>0, <1>g, <1>n, <1>r, <1>c, <1>x, <1>o, RestForm, IdleForm, Fixed, SessionFields, Bounds
     DEF Typed, IInv, TypeOK, LanesShaped, RecordsAgree, KeysReal, Keys, NoKey
<1>5. ComparedIsKnown'
  BY <1>0, <1>g, <1>n, <1>r, <1>c, <1>x, <1>o, RestForm, IdleForm, Fixed, SessionFields DEF Typed,
     IInv, TypeOK, LanesShaped, RecordsAgree, KeysReal, ComparedIsKnown, Fetching, Differs
<1>p. ComparedIsPinned'
  BY <1>0, <1>g, <1>n, <1>r, <1>c, <1>x, <1>o, RestForm, IdleForm, Fixed, SessionFields DEF Typed,
     IInv, LanesShaped, RecordsAgree, KeysReal, ComparedIsKnown, ComparedIsPinned, Held, Sound,
     Fetching, Differs
<1>6. SessionFollows'
  BY <1>0, <1>g, <1>n, <1>r, <1>c, <1>x, <1>o, RestForm, IdleForm, Fixed, SessionFields DEF Typed,
     IInv, LanesShaped, RecordsAgree, KeysReal, SessionFollows, Under, Fetching, Differs
<1>7. PinStep
  BY <1>0, <1>g, <1>n, <1>r, <1>c, <1>x, <1>o, RestForm, IdleForm, Fixed, SessionFields DEF Typed,
     PinStep, IInv, TypeOK, LanesShaped, RecordsAgree, KeysReal, Differs, Fetching
<1> QED BY <1>2, <1>l, <1>3, <1>4, <1>5, <1>p, <1>6, <1>7 DEF IInv

LEMMA ReadKxKeeps1 ==
  ASSUME IInv, ReadKx, ~contact.known
  PROVE  IInv' /\ PinStep
<1>0. Typed
  BY TypedHolds
<1>m. /\ Head(mail) \in Messages /\ Head(mail).sess \in Sessions /\ Head(mail).sess.key \in Keys
      /\ Head(mail).sess.key # NoKey /\ Tail(mail) \in Seq(Messages)
      /\ \A i \in DOMAIN Tail(mail) : Tail(mail)[i].sess.key # NoKey
  BY <1>0, MailTaken DEF Typed, IInv, KeysReal, ReadKx, Take
<1>g. /\ rx = Idle /\ mail # <<>> /\ ~contact.known
      /\ UNCHANGED <<contact, saved, auto, session, pending, server, theirs, cmd, compared,
                     relied, crossed, revived, torn, made, commands, faults>>
  BY <1>0, <1>m DEF Typed, ReadKx, IInv, TypeOK, book, lanes, peer, marks, Take, Greet, Await,
     Next1, RxType
<1>xr. rx' = [pc |-> "bind", msg |-> Head(mail), halt |-> FALSE]
  BY DEF ReadKx, Take, Greet, Await, Next1
<1>x. /\ rx' \in RxType /\ rx'.pc = "bind" /\ rx'.msg = Head(mail) /\ (rx'.halt <=> FALSE)
  BY <1>0, <1>m, <1>xr DEF Typed, RxType
<1>o. /\ mail' = Tail(mail)
  BY <1>0, <1>m DEF Typed, ReadKx, IInv, TypeOK, book, lanes, peer, marks, Take, Greet, Await,
     Next1, RxType
<1>s. Sound(contact)' /\ Sound(saved)' /\ Sound(cmd.base)'
  BY <1>0, <1>m, <1>g, <1>x, <1>o, Fixed, RestForm DEF Typed, IInv, TypeOK, RecordsAgree,
     LanesShaped, Sound, KeysReal, Fetching
<1>l. LanesShaped'
  BY <1>0, <1>m, <1>g, <1>x, <1>o, RestForm, IdleForm, Fixed, SessionFields DEF Typed, IInv,
     TypeOK, LanesShaped, Fetching
<1>3. RecordsAgree'
  BY <1>0, <1>m, <1>g, <1>x, <1>o, <1>s, RestForm, IdleForm, Fixed, SessionFields DEF Typed, IInv,
     LanesShaped, RecordsAgree, KeysReal, Fetching, Differs
<1>2. TypeOK'
  BY <1>0, <1>m, <1>g, <1>x, <1>o, <1>s, RestForm, IdleForm, Fixed, SessionFields DEF Typed, IInv,
     TypeOK, CmdType, Places, RxType
<1>4. KeysReal'
  BY <1>0, <1>m, <1>g, <1>x, <1>o, RestForm, IdleForm, Fixed, SessionFields, Bounds DEF Typed,
     IInv, TypeOK, LanesShaped, RecordsAgree, KeysReal, Keys, NoKey
<1>5. ComparedIsKnown'
  BY <1>0, <1>m, <1>g, <1>x, <1>o, RestForm, IdleForm, Fixed, SessionFields DEF Typed, IInv,
     TypeOK, LanesShaped, RecordsAgree, KeysReal, ComparedIsKnown, Fetching, Differs
<1>p. ComparedIsPinned'
  BY <1>0, <1>m, <1>g, <1>x, <1>o, RestForm, IdleForm, Fixed, SessionFields DEF Typed, IInv,
     LanesShaped, RecordsAgree, KeysReal, ComparedIsKnown, ComparedIsPinned, Held, Sound,
     Fetching, Differs
<1>6. SessionFollows'
  BY <1>0, <1>m, <1>g, <1>x, <1>o, RestForm, IdleForm, Fixed, SessionFields DEF Typed, IInv,
     LanesShaped, RecordsAgree, KeysReal, SessionFollows, Under, Fetching, Differs
<1>7. PinStep
  BY <1>0, <1>m, <1>g, <1>x, <1>o, RestForm, IdleForm, Fixed, SessionFields DEF Typed, PinStep,
     IInv, TypeOK, LanesShaped, RecordsAgree, KeysReal, Differs, Fetching
<1> QED BY <1>2, <1>l, <1>3, <1>4, <1>5, <1>p, <1>6, <1>7 DEF IInv

LEMMA ReadKxKeeps2 ==
  ASSUME IInv, ReadKx, contact.known /\ Differs(contact, Head(mail).sess.key)
  PROVE  IInv' /\ PinStep
<1>0. Typed
  BY TypedHolds
<1>m. /\ Head(mail) \in Messages /\ Head(mail).sess \in Sessions /\ Head(mail).sess.key \in Keys
      /\ Head(mail).sess.key # NoKey /\ Tail(mail) \in Seq(Messages)
      /\ \A i \in DOMAIN Tail(mail) : Tail(mail)[i].sess.key # NoKey
  BY <1>0, MailTaken DEF Typed, IInv, KeysReal, ReadKx, Take
<1>g. /\ rx = Idle /\ mail # <<>> /\ contact.known /\ Differs(contact, Head(mail).sess.key)
      /\ UNCHANGED <<auto, session, pending, server, theirs, cmd, compared, relied, crossed,
                     revived, torn, made, commands, faults>>
  BY <1>0, <1>m, RecordForms DEF Typed, ReadKx, IInv, TypeOK, book, lanes, peer, marks, Take,
     Greet, Await, Next1, RxType, Save
<1>rr. /\ contact' = Changed(contact, Head(mail).sess.key)
      /\ saved' = contact'
  BY DEF ReadKx, Take, Greet, Await, Next1, Save
<1>rt. contact \in Contacts /\ Head(mail).sess.key \in Keys /\ auto \in BOOLEAN
  BY <1>0, <1>m, SessionFields DEF Typed, Places
<1>ri. /\ Changed(contact, Head(mail).sess.key) \in Contacts
      /\ (Changed(contact, Head(mail).sess.key).known <=> contact.known)
      /\ Changed(contact, Head(mail).sess.key).ik = Head(mail).sess.key
      /\ (Changed(contact, Head(mail).sess.key).verified <=> FALSE)
      /\ (Changed(contact, Head(mail).sess.key).blocked <=> ~auto)
  BY RecordForms, <1>rt
<1>r. /\ contact' \in Contacts /\ (contact'.known <=> contact.known)
      /\ contact'.ik = Head(mail).sess.key /\ (contact'.verified <=> FALSE)
      /\ (contact'.blocked <=> ~auto) /\ saved' = contact'
  BY <1>rr, <1>ri, Zenon
<1>xr. rx' = [pc |-> "teardown", msg |-> Head(mail), halt |-> ~auto]
  BY DEF ReadKx, Take, Greet, Await, Next1, Save
<1>x. /\ rx' \in RxType /\ rx'.pc = "teardown" /\ rx'.msg = Head(mail) /\ (rx'.halt <=> ~auto)
  BY <1>0, <1>m, <1>xr DEF Typed, RxType
<1>o. /\ mail' = Tail(mail)
  BY <1>0, <1>m, RecordForms DEF Typed, ReadKx, IInv, TypeOK, book, lanes, peer, marks, Take,
     Greet, Await, Next1, RxType, Save
<1>s. Sound(contact)' /\ Sound(saved)' /\ Sound(cmd.base)'
  BY <1>0, <1>m, <1>g, <1>r, <1>x, <1>o, Fixed, RestForm DEF Typed, IInv, TypeOK, RecordsAgree,
     LanesShaped, Sound, KeysReal, Fetching
<1>l. LanesShaped'
  BY <1>0, <1>m, <1>g, <1>r, <1>x, <1>o, RestForm, IdleForm, Fixed, SessionFields DEF Typed, IInv,
     TypeOK, LanesShaped, Fetching
<1>3. RecordsAgree'
  BY <1>0, <1>m, <1>g, <1>r, <1>x, <1>o, <1>s, RestForm, IdleForm, Fixed, SessionFields DEF Typed,
     IInv, LanesShaped, RecordsAgree, KeysReal, Fetching, Differs
<1>2. TypeOK'
  BY <1>0, <1>m, <1>g, <1>r, <1>x, <1>o, <1>s, RestForm, IdleForm, Fixed, SessionFields DEF Typed,
     IInv, TypeOK, CmdType, Places, RxType
<1>4. KeysReal'
  BY <1>0, <1>m, <1>g, <1>r, <1>x, <1>o, RestForm, IdleForm, Fixed, SessionFields, Bounds
     DEF Typed, IInv, TypeOK, LanesShaped, RecordsAgree, KeysReal, Keys, NoKey
<1>5. ComparedIsKnown'
  BY <1>0, <1>m, <1>g, <1>r, <1>x, <1>o, RestForm, IdleForm, Fixed, SessionFields DEF Typed, IInv,
     TypeOK, LanesShaped, RecordsAgree, KeysReal, ComparedIsKnown, Fetching, Differs
<1>p. ComparedIsPinned'
  BY <1>0, <1>m, <1>g, <1>r, <1>x, <1>o, RestForm, IdleForm, Fixed, SessionFields DEF Typed, IInv,
     LanesShaped, RecordsAgree, KeysReal, ComparedIsKnown, ComparedIsPinned, Held, Sound,
     Fetching, Differs
<1>6. SessionFollows'
  BY <1>0, <1>m, <1>g, <1>r, <1>x, <1>o, RestForm, IdleForm, Fixed, SessionFields DEF Typed, IInv,
     LanesShaped, RecordsAgree, KeysReal, SessionFollows, Under, Fetching, Differs
<1>7. PinStep
  BY <1>0, <1>m, <1>g, <1>r, <1>x, <1>o, RestForm, IdleForm, Fixed, SessionFields DEF Typed,
     PinStep, IInv, TypeOK, LanesShaped, RecordsAgree, KeysReal, Differs, Fetching
<1> QED BY <1>2, <1>l, <1>3, <1>4, <1>5, <1>p, <1>6, <1>7 DEF IInv

LEMMA ReadKxKeeps3 ==
  ASSUME IInv, ReadKx, contact.known /\ contact.ik = NoKey
  PROVE  IInv' /\ PinStep
<1>0. Typed
  BY TypedHolds
<1>m. /\ Head(mail) \in Messages /\ Head(mail).sess \in Sessions /\ Head(mail).sess.key \in Keys
      /\ Head(mail).sess.key # NoKey /\ Tail(mail) \in Seq(Messages)
      /\ \A i \in DOMAIN Tail(mail) : Tail(mail)[i].sess.key # NoKey
  BY <1>0, MailTaken DEF Typed, IInv, KeysReal, ReadKx, Take
<1>g. /\ rx = Idle /\ mail # <<>> /\ contact.known /\ contact.ik = NoKey
      /\ UNCHANGED <<auto, session, pending, server, theirs, cmd, compared, relied, crossed,
                     revived, torn, made, commands, faults>>
  BY <1>0, <1>m, RecordForms DEF Typed, ReadKx, IInv, TypeOK, book, lanes, peer, marks, Take,
     Greet, Await, Next1, RxType, Save, Differs
<1>rr. /\ contact' = Pinned(contact, Head(mail).sess.key)
      /\ saved' = contact'
  BY DEF ReadKx, Take, Greet, Await, Next1, Save, Differs
<1>rt. contact \in Contacts /\ Head(mail).sess.key \in Keys /\ auto \in BOOLEAN
  BY <1>0, <1>m, SessionFields DEF Typed, Places
<1>ri. /\ Pinned(contact, Head(mail).sess.key) \in Contacts
      /\ (Pinned(contact, Head(mail).sess.key).known <=> contact.known)
      /\ Pinned(contact, Head(mail).sess.key).ik = Head(mail).sess.key
      /\ (Pinned(contact, Head(mail).sess.key).verified <=> (auto \/ contact.verified))
      /\ (Pinned(contact, Head(mail).sess.key).blocked <=> contact.blocked)
  BY RecordForms, <1>rt
<1>r. /\ contact' \in Contacts /\ (contact'.known <=> contact.known)
      /\ contact'.ik = Head(mail).sess.key /\ (contact'.verified <=> (auto \/ contact.verified))
      /\ (contact'.blocked <=> contact.blocked) /\ saved' = contact'
  BY <1>rr, <1>ri, Zenon
<1>xr. rx' = [pc |-> "store", msg |-> Head(mail), halt |-> FALSE]
  BY DEF ReadKx, Take, Greet, Await, Next1, Save, Differs
<1>x. /\ rx' \in RxType /\ rx'.pc = "store" /\ rx'.msg = Head(mail) /\ (rx'.halt <=> FALSE)
  BY <1>0, <1>m, <1>xr DEF Typed, RxType
<1>o. /\ mail' = Tail(mail)
  BY <1>0, <1>m, RecordForms DEF Typed, ReadKx, IInv, TypeOK, book, lanes, peer, marks, Take,
     Greet, Await, Next1, RxType, Save, Differs
<1>w. /\ compared = NoKey /\ ~contact.verified /\ ~contact.blocked
      /\ (~relied => ~contact'.verified) /\ ~contact'.blocked
  BY <1>0, <1>g, <1>r, Fixed DEF Typed, IInv, TypeOK, Sound, RecordsAgree, ComparedIsKnown
<1>s. Sound(contact)' /\ Sound(saved)' /\ Sound(cmd.base)'
  BY <1>0, <1>m, <1>g, <1>r, <1>x, <1>o, <1>w, Fixed, RestForm DEF Typed, IInv, TypeOK,
     RecordsAgree, LanesShaped, Sound, KeysReal, Fetching
<1>l. LanesShaped'
  BY <1>0, <1>m, <1>g, <1>r, <1>x, <1>o, <1>w, RestForm, IdleForm, Fixed, SessionFields DEF Typed,
     IInv, TypeOK, LanesShaped, Fetching
<1>3. RecordsAgree'
  BY <1>0, <1>m, <1>g, <1>r, <1>x, <1>o, <1>w, <1>s, RestForm, IdleForm, Fixed, SessionFields
     DEF Typed, IInv, LanesShaped, RecordsAgree, KeysReal, Fetching, Differs
<1>2. TypeOK'
  BY <1>0, <1>m, <1>g, <1>r, <1>x, <1>o, <1>w, <1>s, RestForm, IdleForm, Fixed, SessionFields
     DEF Typed, IInv, TypeOK, CmdType, Places, RxType
<1>4. KeysReal'
  BY <1>0, <1>m, <1>g, <1>r, <1>x, <1>o, <1>w, RestForm, IdleForm, Fixed, SessionFields, Bounds
     DEF Typed, IInv, TypeOK, LanesShaped, RecordsAgree, KeysReal, Keys, NoKey
<1>5. ComparedIsKnown'
  BY <1>0, <1>m, <1>g, <1>r, <1>x, <1>o, <1>w, RestForm, IdleForm, Fixed, SessionFields DEF Typed,
     IInv, TypeOK, LanesShaped, RecordsAgree, KeysReal, ComparedIsKnown, Fetching, Differs
<1>p. ComparedIsPinned'
  BY <1>0, <1>m, <1>g, <1>r, <1>x, <1>o, <1>w, RestForm, IdleForm, Fixed, SessionFields DEF Typed,
     IInv, LanesShaped, RecordsAgree, KeysReal, ComparedIsKnown, ComparedIsPinned, Held, Sound,
     Fetching, Differs
<1>6. SessionFollows'
  BY <1>0, <1>m, <1>g, <1>r, <1>x, <1>o, <1>w, RestForm, IdleForm, Fixed, SessionFields DEF Typed,
     IInv, LanesShaped, RecordsAgree, KeysReal, SessionFollows, Under, Fetching, Differs
<1>7. PinStep
  BY <1>0, <1>m, <1>g, <1>r, <1>x, <1>o, <1>w, RestForm, IdleForm, Fixed, SessionFields DEF Typed,
     PinStep, IInv, TypeOK, LanesShaped, RecordsAgree, KeysReal, Differs, Fetching
<1> QED BY <1>2, <1>l, <1>3, <1>4, <1>5, <1>p, <1>6, <1>7 DEF IInv

LEMMA ReadKxKeeps4 ==
  ASSUME IInv, ReadKx, contact.known /\ contact.ik # NoKey /\ ~Differs(contact, Head(mail).sess.key)
  PROVE  IInv' /\ PinStep
<1>0. Typed
  BY TypedHolds
<1>m. /\ Head(mail) \in Messages /\ Head(mail).sess \in Sessions /\ Head(mail).sess.key \in Keys
      /\ Head(mail).sess.key # NoKey /\ Tail(mail) \in Seq(Messages)
      /\ \A i \in DOMAIN Tail(mail) : Tail(mail)[i].sess.key # NoKey
  BY <1>0, MailTaken DEF Typed, IInv, KeysReal, ReadKx, Take
<1>g. /\ rx = Idle /\ mail # <<>> /\ contact.known /\ contact.ik = Head(mail).sess.key
      /\ UNCHANGED <<auto, session, pending, server, theirs, cmd, compared, relied, crossed,
                     revived, torn, made, commands, faults>>
  BY <1>0, <1>m, RecordForms DEF Typed, ReadKx, IInv, TypeOK, book, lanes, peer, marks, Take,
     Greet, Await, Next1, RxType, Save, Differs
<1>r. /\ contact' = contact /\ saved' = contact
  BY <1>0, <1>m, RecordForms DEF Typed, ReadKx, IInv, TypeOK, book, lanes, peer, marks, Take,
     Greet, Await, Next1, RxType, Save, Differs
<1>xr. rx' = [pc |-> "store", msg |-> Head(mail), halt |-> FALSE]
  BY DEF ReadKx, Take, Greet, Await, Next1, Save, Differs
<1>x. /\ rx' \in RxType /\ rx'.pc = "store" /\ rx'.msg = Head(mail) /\ (rx'.halt <=> FALSE)
  BY <1>0, <1>m, <1>xr DEF Typed, RxType
<1>o. /\ mail' = Tail(mail)
  BY <1>0, <1>m, RecordForms DEF Typed, ReadKx, IInv, TypeOK, book, lanes, peer, marks, Take,
     Greet, Await, Next1, RxType, Save, Differs
<1>s. Sound(contact)' /\ Sound(saved)' /\ Sound(cmd.base)'
  BY <1>0, <1>m, <1>g, <1>r, <1>x, <1>o, Fixed, RestForm DEF Typed, IInv, TypeOK, RecordsAgree,
     LanesShaped, Sound, KeysReal, Fetching
<1>l. LanesShaped'
  BY <1>0, <1>m, <1>g, <1>r, <1>x, <1>o, RestForm, IdleForm, Fixed, SessionFields DEF Typed, IInv,
     TypeOK, LanesShaped, Fetching
<1>3. RecordsAgree'
  BY <1>0, <1>m, <1>g, <1>r, <1>x, <1>o, <1>s, RestForm, IdleForm, Fixed, SessionFields DEF Typed,
     IInv, LanesShaped, RecordsAgree, KeysReal, Fetching, Differs
<1>2. TypeOK'
  BY <1>0, <1>m, <1>g, <1>r, <1>x, <1>o, <1>s, RestForm, IdleForm, Fixed, SessionFields DEF Typed,
     IInv, TypeOK, CmdType, Places, RxType
<1>4. KeysReal'
  BY <1>0, <1>m, <1>g, <1>r, <1>x, <1>o, RestForm, IdleForm, Fixed, SessionFields, Bounds
     DEF Typed, IInv, TypeOK, LanesShaped, RecordsAgree, KeysReal, Keys, NoKey
<1>5. ComparedIsKnown'
  BY <1>0, <1>m, <1>g, <1>r, <1>x, <1>o, RestForm, IdleForm, Fixed, SessionFields DEF Typed, IInv,
     TypeOK, LanesShaped, RecordsAgree, KeysReal, ComparedIsKnown, Fetching, Differs
<1>p. ComparedIsPinned'
  BY <1>0, <1>m, <1>g, <1>r, <1>x, <1>o, RestForm, IdleForm, Fixed, SessionFields DEF Typed, IInv,
     LanesShaped, RecordsAgree, KeysReal, ComparedIsKnown, ComparedIsPinned, Held, Sound,
     Fetching, Differs
<1>6. SessionFollows'
  BY <1>0, <1>m, <1>g, <1>r, <1>x, <1>o, RestForm, IdleForm, Fixed, SessionFields DEF Typed, IInv,
     LanesShaped, RecordsAgree, KeysReal, SessionFollows, Under, Fetching, Differs
<1>7. PinStep
  BY <1>0, <1>m, <1>g, <1>r, <1>x, <1>o, RestForm, IdleForm, Fixed, SessionFields DEF Typed,
     PinStep, IInv, TypeOK, LanesShaped, RecordsAgree, KeysReal, Differs, Fetching
<1> QED BY <1>2, <1>l, <1>3, <1>4, <1>5, <1>p, <1>6, <1>7 DEF IInv

LEMMA RxTearDownKeeps1 ==
  ASSUME IInv, RxTearDown, rx.halt
  PROVE  IInv' /\ PinStep
<1>0. Typed
  BY TypedHolds
<1>g. /\ rx.pc = "teardown"
      /\ UNCHANGED <<contact, saved, auto, pending, server, theirs, mail, cmd, compared, relied,
                     crossed, revived, torn, made, commands, faults>>
  BY <1>0 DEF Typed, RxTearDown, IInv, TypeOK, book, lanes, peer, marks, Drop
<1>x. /\ rx' = Idle
  BY <1>0 DEF Typed, RxTearDown, IInv, TypeOK, book, lanes, peer, marks, Drop
<1>o. /\ session' = NoSession
  BY <1>0 DEF Typed, RxTearDown, IInv, TypeOK, book, lanes, peer, marks, Drop
<1>s. Sound(contact)' /\ Sound(saved)' /\ Sound(cmd.base)'
  BY <1>0, <1>g, <1>x, <1>o, Fixed, RestForm DEF Typed, IInv, TypeOK, RecordsAgree, LanesShaped,
     Sound, KeysReal, Fetching
<1>l. LanesShaped'
  BY <1>0, <1>g, <1>x, <1>o, RestForm, IdleForm, Fixed, SessionFields DEF Typed, IInv, TypeOK,
     LanesShaped, Fetching
<1>3. RecordsAgree'
  BY <1>0, <1>g, <1>x, <1>o, <1>s, RestForm, IdleForm, Fixed, SessionFields DEF Typed, IInv,
     LanesShaped, RecordsAgree, KeysReal, Fetching, Differs
<1>2. TypeOK'
  BY <1>0, <1>g, <1>x, <1>o, <1>s, RestForm, IdleForm, Fixed, SessionFields DEF Typed, IInv,
     TypeOK, CmdType, Places, RxType
<1>4. KeysReal'
  BY <1>0, <1>g, <1>x, <1>o, RestForm, IdleForm, Fixed, SessionFields, Bounds DEF Typed, IInv,
     TypeOK, LanesShaped, RecordsAgree, KeysReal, Keys, NoKey
<1>5. ComparedIsKnown'
  BY <1>0, <1>g, <1>x, <1>o, RestForm, IdleForm, Fixed, SessionFields DEF Typed, IInv, TypeOK,
     LanesShaped, RecordsAgree, KeysReal, ComparedIsKnown, Fetching, Differs
<1>p. ComparedIsPinned'
  BY <1>0, <1>g, <1>x, <1>o, RestForm, IdleForm, Fixed, SessionFields DEF Typed, IInv,
     LanesShaped, RecordsAgree, KeysReal, ComparedIsKnown, ComparedIsPinned, Held, Sound,
     Fetching, Differs
<1>6. SessionFollows'
  BY <1>0, <1>g, <1>x, <1>o, RestForm, IdleForm, Fixed, SessionFields DEF Typed, IInv,
     LanesShaped, RecordsAgree, KeysReal, SessionFollows, Under, Fetching, Differs
<1>7. PinStep
  BY <1>0, <1>g, <1>x, <1>o, RestForm, IdleForm, Fixed, SessionFields DEF Typed, PinStep, IInv,
     TypeOK, LanesShaped, RecordsAgree, KeysReal, Differs, Fetching
<1> QED BY <1>2, <1>l, <1>3, <1>4, <1>5, <1>p, <1>6, <1>7 DEF IInv

LEMMA RxTearDownKeeps2 ==
  ASSUME IInv, RxTearDown, ~rx.halt
  PROVE  IInv' /\ PinStep
<1>0. Typed
  BY TypedHolds
<1>g. /\ rx.pc = "teardown"
      /\ UNCHANGED <<contact, saved, auto, pending, server, theirs, mail, cmd, compared, relied,
                     crossed, revived, torn, made, commands, faults>>
  BY <1>0 DEF Typed, RxTearDown, IInv, TypeOK, book, lanes, peer, marks, Drop
<1>xr. rx' = [rx EXCEPT !.pc = "store"]
  BY DEF RxTearDown, Drop
<1>x. /\ rx' \in RxType /\ rx'.pc = "store" /\ rx'.msg = rx.msg /\ (rx'.halt <=> rx.halt)
  BY <1>0, <1>xr DEF Typed, RxType
<1>o. /\ session' = NoSession
  BY <1>0 DEF Typed, RxTearDown, IInv, TypeOK, book, lanes, peer, marks, Drop
<1>s. Sound(contact)' /\ Sound(saved)' /\ Sound(cmd.base)'
  BY <1>0, <1>g, <1>x, <1>o, Fixed, RestForm DEF Typed, IInv, TypeOK, RecordsAgree, LanesShaped,
     Sound, KeysReal, Fetching
<1>l. LanesShaped'
  BY <1>0, <1>g, <1>x, <1>o, RestForm, IdleForm, Fixed, SessionFields DEF Typed, IInv, TypeOK,
     LanesShaped, Fetching
<1>3. RecordsAgree'
  BY <1>0, <1>g, <1>x, <1>o, <1>s, RestForm, IdleForm, Fixed, SessionFields DEF Typed, IInv,
     LanesShaped, RecordsAgree, KeysReal, Fetching, Differs
<1>2. TypeOK'
  BY <1>0, <1>g, <1>x, <1>o, <1>s, RestForm, IdleForm, Fixed, SessionFields DEF Typed, IInv,
     TypeOK, CmdType, Places, RxType
<1>4. KeysReal'
  BY <1>0, <1>g, <1>x, <1>o, RestForm, IdleForm, Fixed, SessionFields, Bounds DEF Typed, IInv,
     TypeOK, LanesShaped, RecordsAgree, KeysReal, Keys, NoKey
<1>5. ComparedIsKnown'
  BY <1>0, <1>g, <1>x, <1>o, RestForm, IdleForm, Fixed, SessionFields DEF Typed, IInv, TypeOK,
     LanesShaped, RecordsAgree, KeysReal, ComparedIsKnown, Fetching, Differs
<1>p. ComparedIsPinned'
  BY <1>0, <1>g, <1>x, <1>o, RestForm, IdleForm, Fixed, SessionFields DEF Typed, IInv,
     LanesShaped, RecordsAgree, KeysReal, ComparedIsKnown, ComparedIsPinned, Held, Sound,
     Fetching, Differs
<1>6. SessionFollows'
  BY <1>0, <1>g, <1>x, <1>o, RestForm, IdleForm, Fixed, SessionFields DEF Typed, IInv,
     LanesShaped, RecordsAgree, KeysReal, SessionFollows, Under, Fetching, Differs
<1>7. PinStep
  BY <1>0, <1>g, <1>x, <1>o, RestForm, IdleForm, Fixed, SessionFields DEF Typed, PinStep, IInv,
     TypeOK, LanesShaped, RecordsAgree, KeysReal, Differs, Fetching
<1> QED BY <1>2, <1>l, <1>3, <1>4, <1>5, <1>p, <1>6, <1>7 DEF IInv

LEMMA RxStoreKeeps ==
  ASSUME IInv, RxStore
  PROVE  IInv' /\ PinStep
<1>0. Typed
  BY TypedHolds
<1>g. /\ rx.pc = "store"
      /\ UNCHANGED <<contact, saved, auto, pending, server, theirs, mail, cmd, compared, relied,
                     revived, torn, made, commands, faults>>
  BY <1>0 DEF Typed, RxStore, IInv, TypeOK, book, lanes, peer, marks
<1>x. /\ rx' = Idle
  BY <1>0 DEF Typed, RxStore, IInv, TypeOK, book, lanes, peer, marks
<1>o. /\ session' = rx.msg.sess /\ crossed' = (crossed \/ contact.ik # rx.msg.sess.key)
  BY <1>0 DEF Typed, RxStore, IInv, TypeOK, book, lanes, peer, marks
<1>s. Sound(contact)' /\ Sound(saved)' /\ Sound(cmd.base)'
  BY <1>0, <1>g, <1>x, <1>o, Fixed, RestForm DEF Typed, IInv, TypeOK, RecordsAgree, LanesShaped,
     Sound, KeysReal, Fetching
<1>l. LanesShaped'
  BY <1>0, <1>g, <1>x, <1>o, RestForm, IdleForm, Fixed, SessionFields DEF Typed, IInv, TypeOK,
     LanesShaped, Fetching
<1>3. RecordsAgree'
  BY <1>0, <1>g, <1>x, <1>o, <1>s, RestForm, IdleForm, Fixed, SessionFields DEF Typed, IInv,
     LanesShaped, RecordsAgree, KeysReal, Fetching, Differs
<1>2. TypeOK'
  BY <1>0, <1>g, <1>x, <1>o, <1>s, RestForm, IdleForm, Fixed, SessionFields DEF Typed, IInv,
     TypeOK, CmdType, Places, RxType
<1>4. KeysReal'
  BY <1>0, <1>g, <1>x, <1>o, RestForm, IdleForm, Fixed, SessionFields, Bounds DEF Typed, IInv,
     TypeOK, LanesShaped, RecordsAgree, KeysReal, Keys, NoKey
<1>5. ComparedIsKnown'
  BY <1>0, <1>g, <1>x, <1>o, RestForm, IdleForm, Fixed, SessionFields DEF Typed, IInv, TypeOK,
     LanesShaped, RecordsAgree, KeysReal, ComparedIsKnown, Fetching, Differs
<1>p. ComparedIsPinned'
  BY <1>0, <1>g, <1>x, <1>o, RestForm, IdleForm, Fixed, SessionFields DEF Typed, IInv,
     LanesShaped, RecordsAgree, KeysReal, ComparedIsKnown, ComparedIsPinned, Held, Sound,
     Fetching, Differs
<1>6. SessionFollows'
  BY ZenonT(40), <1>0, <1>g, <1>x, <1>o, RestForm, IdleForm, Fixed, SessionFields DEF Typed, IInv,
     LanesShaped, RecordsAgree, KeysReal, SessionFollows, Under, Fetching, Differs
<1>7. PinStep
  BY <1>0, <1>g, <1>x, <1>o, RestForm, IdleForm, Fixed, SessionFields DEF Typed, PinStep, IInv,
     TypeOK, LanesShaped, RecordsAgree, KeysReal, Differs, Fetching
<1> QED BY <1>2, <1>l, <1>3, <1>4, <1>5, <1>p, <1>6, <1>7 DEF IInv

LEMMA BindKeeps ==
  ASSUME IInv, Bind
  PROVE  IInv' /\ PinStep
<1>0. Typed
  BY TypedHolds
<1>g. /\ rx.pc = "bind"
      /\ UNCHANGED <<contact, saved, auto, session, server, theirs, mail, cmd, compared, relied,
                     revived, torn, made, commands, faults>>
  BY <1>0 DEF Typed, Bind, IInv, TypeOK, book, lanes, peer, marks
<1>x. /\ rx' = Idle
  BY <1>0 DEF Typed, Bind, IInv, TypeOK, book, lanes, peer, marks
<1>o. /\ pending' \in {pending, rx.msg.sess}
      /\ crossed' \in {crossed, TRUE} /\ crossed' \in BOOLEAN
  BY <1>0 DEF Typed, Bind, IInv, TypeOK, book, lanes, peer, marks
<1>s. Sound(contact)' /\ Sound(saved)' /\ Sound(cmd.base)'
  BY <1>0, <1>g, <1>x, <1>o, Fixed, RestForm DEF Typed, IInv, TypeOK, RecordsAgree, LanesShaped,
     Sound, KeysReal, Fetching
<1>l. LanesShaped'
  BY <1>0, <1>g, <1>x, <1>o, RestForm, IdleForm, Fixed, SessionFields DEF Typed, IInv, TypeOK,
     LanesShaped, Fetching
<1>3. RecordsAgree'
  BY <1>0, <1>g, <1>x, <1>o, <1>s, RestForm, IdleForm, Fixed, SessionFields DEF Typed, IInv,
     LanesShaped, RecordsAgree, KeysReal, Fetching, Differs
<1>2. TypeOK'
  BY <1>0, <1>g, <1>x, <1>o, <1>s, RestForm, IdleForm, Fixed, SessionFields DEF Typed, IInv,
     TypeOK, CmdType, Places, RxType
<1>4. KeysReal'
  BY <1>0, <1>g, <1>x, <1>o, RestForm, IdleForm, Fixed, SessionFields, Bounds DEF Typed, IInv,
     TypeOK, LanesShaped, RecordsAgree, KeysReal, Keys, NoKey
<1>5. ComparedIsKnown'
  BY <1>0, <1>g, <1>x, <1>o, RestForm, IdleForm, Fixed, SessionFields DEF Typed, IInv, TypeOK,
     LanesShaped, RecordsAgree, KeysReal, ComparedIsKnown, Fetching, Differs
<1>p. ComparedIsPinned'
  BY <1>0, <1>g, <1>x, <1>o, RestForm, IdleForm, Fixed, SessionFields DEF Typed, IInv,
     LanesShaped, RecordsAgree, KeysReal, ComparedIsKnown, ComparedIsPinned, Held, Sound,
     Fetching, Differs
<1>6. SessionFollows'
  BY ZenonT(40), <1>0, <1>g, <1>x, <1>o, RestForm, IdleForm, Fixed, SessionFields DEF Typed, IInv,
     LanesShaped, RecordsAgree, KeysReal, SessionFollows, Under, Fetching, Differs
<1>7. PinStep
  BY <1>0, <1>g, <1>x, <1>o, RestForm, IdleForm, Fixed, SessionFields DEF Typed, PinStep, IInv,
     TypeOK, LanesShaped, RecordsAgree, KeysReal, Differs, Fetching
<1> QED BY <1>2, <1>l, <1>3, <1>4, <1>5, <1>p, <1>6, <1>7 DEF IInv

LEMMA ReadMsgKeeps1 ==
  ASSUME IInv, ReadMsg, Head(mail).sess = session
  PROVE  IInv' /\ PinStep
<1>0. Typed
  BY TypedHolds
<1>m. /\ Head(mail) \in Messages /\ Head(mail).sess \in Sessions /\ Head(mail).sess.key \in Keys
      /\ Head(mail).sess.key # NoKey /\ Tail(mail) \in Seq(Messages)
      /\ \A i \in DOMAIN Tail(mail) : Tail(mail)[i].sess.key # NoKey
  BY <1>0, MailTaken DEF Typed, IInv, KeysReal, ReadMsg, Take
<1>g. /\ rx = Idle /\ mail # <<>>
      /\ UNCHANGED <<contact, saved, auto, session, pending, server, theirs, cmd, compared,
                     relied, crossed, revived, torn, made, commands, faults>>
  BY <1>0, <1>m DEF Typed, ReadMsg, IInv, TypeOK, book, lanes, peer, marks, Take, Await, Next1,
     RxType
<1>xr. rx' = [pc |-> "save", msg |-> Head(mail), halt |-> FALSE]
  BY DEF ReadMsg, Take, Await, Next1
<1>x. /\ rx' \in RxType /\ rx'.pc = "save" /\ rx'.msg = Head(mail) /\ (rx'.halt <=> FALSE)
  BY <1>0, <1>m, <1>xr DEF Typed, RxType
<1>o. /\ mail' = Tail(mail)
  BY <1>0, <1>m DEF Typed, ReadMsg, IInv, TypeOK, book, lanes, peer, marks, Take, Await, Next1,
     RxType
<1>s. Sound(contact)' /\ Sound(saved)' /\ Sound(cmd.base)'
  BY <1>0, <1>m, <1>g, <1>x, <1>o, Fixed, RestForm DEF Typed, IInv, TypeOK, RecordsAgree,
     LanesShaped, Sound, KeysReal, Fetching
<1>l. LanesShaped'
  BY <1>0, <1>m, <1>g, <1>x, <1>o, RestForm, IdleForm, Fixed, SessionFields DEF Typed, IInv,
     TypeOK, LanesShaped, Fetching
<1>3. RecordsAgree'
  BY <1>0, <1>m, <1>g, <1>x, <1>o, <1>s, RestForm, IdleForm, Fixed, SessionFields DEF Typed, IInv,
     LanesShaped, RecordsAgree, KeysReal, Fetching, Differs
<1>2. TypeOK'
  BY <1>0, <1>m, <1>g, <1>x, <1>o, <1>s, RestForm, IdleForm, Fixed, SessionFields DEF Typed, IInv,
     TypeOK, CmdType, Places, RxType
<1>4. KeysReal'
  BY <1>0, <1>m, <1>g, <1>x, <1>o, RestForm, IdleForm, Fixed, SessionFields, Bounds DEF Typed,
     IInv, TypeOK, LanesShaped, RecordsAgree, KeysReal, Keys, NoKey
<1>5. ComparedIsKnown'
  BY <1>0, <1>m, <1>g, <1>x, <1>o, RestForm, IdleForm, Fixed, SessionFields DEF Typed, IInv,
     TypeOK, LanesShaped, RecordsAgree, KeysReal, ComparedIsKnown, Fetching, Differs
<1>p. ComparedIsPinned'
  BY <1>0, <1>m, <1>g, <1>x, <1>o, RestForm, IdleForm, Fixed, SessionFields DEF Typed, IInv,
     LanesShaped, RecordsAgree, KeysReal, ComparedIsKnown, ComparedIsPinned, Held, Sound,
     Fetching, Differs
<1>6. SessionFollows'
  BY <1>0, <1>m, <1>g, <1>x, <1>o, RestForm, IdleForm, Fixed, SessionFields DEF Typed, IInv,
     LanesShaped, RecordsAgree, KeysReal, SessionFollows, Under, Fetching, Differs
<1>7. PinStep
  BY <1>0, <1>m, <1>g, <1>x, <1>o, RestForm, IdleForm, Fixed, SessionFields DEF Typed, PinStep,
     IInv, TypeOK, LanesShaped, RecordsAgree, KeysReal, Differs, Fetching
<1> QED BY <1>2, <1>l, <1>3, <1>4, <1>5, <1>p, <1>6, <1>7 DEF IInv

LEMMA ReadMsgKeeps2 ==
  ASSUME IInv, ReadMsg, Head(mail).sess # session
  PROVE  IInv' /\ PinStep
<1>0. Typed
  BY TypedHolds
<1>m. /\ Head(mail) \in Messages /\ Head(mail).sess \in Sessions /\ Head(mail).sess.key \in Keys
      /\ Head(mail).sess.key # NoKey /\ Tail(mail) \in Seq(Messages)
      /\ \A i \in DOMAIN Tail(mail) : Tail(mail)[i].sess.key # NoKey
  BY <1>0, MailTaken DEF Typed, IInv, KeysReal, ReadMsg, Take
<1>g. /\ rx = Idle /\ mail # <<>>
      /\ UNCHANGED <<contact, saved, auto, session, pending, server, theirs, cmd, rx, compared,
                     relied, crossed, revived, torn, made, commands, faults>>
  BY <1>0, <1>m DEF Typed, ReadMsg, IInv, TypeOK, book, lanes, peer, marks, Take, Await, Next1,
     RxType
<1>o. /\ mail' = Tail(mail)
  BY <1>0, <1>m DEF Typed, ReadMsg, IInv, TypeOK, book, lanes, peer, marks, Take, Await, Next1,
     RxType
<1>s. Sound(contact)' /\ Sound(saved)' /\ Sound(cmd.base)'
  BY <1>0, <1>m, <1>g, <1>o, Fixed, RestForm DEF Typed, IInv, TypeOK, RecordsAgree, LanesShaped,
     Sound, KeysReal, Fetching
<1>l. LanesShaped'
  BY <1>0, <1>m, <1>g, <1>o, RestForm, IdleForm, Fixed, SessionFields DEF Typed, IInv, TypeOK,
     LanesShaped, Fetching
<1>3. RecordsAgree'
  BY <1>0, <1>m, <1>g, <1>o, <1>s, RestForm, IdleForm, Fixed, SessionFields DEF Typed, IInv,
     LanesShaped, RecordsAgree, KeysReal, Fetching, Differs
<1>2. TypeOK'
  BY <1>0, <1>m, <1>g, <1>o, <1>s, RestForm, IdleForm, Fixed, SessionFields DEF Typed, IInv,
     TypeOK, CmdType, Places, RxType
<1>4. KeysReal'
  BY <1>0, <1>m, <1>g, <1>o, RestForm, IdleForm, Fixed, SessionFields, Bounds DEF Typed, IInv,
     TypeOK, LanesShaped, RecordsAgree, KeysReal, Keys, NoKey
<1>5. ComparedIsKnown'
  BY <1>0, <1>m, <1>g, <1>o, RestForm, IdleForm, Fixed, SessionFields DEF Typed, IInv, TypeOK,
     LanesShaped, RecordsAgree, KeysReal, ComparedIsKnown, Fetching, Differs
<1>p. ComparedIsPinned'
  BY <1>0, <1>m, <1>g, <1>o, RestForm, IdleForm, Fixed, SessionFields DEF Typed, IInv,
     LanesShaped, RecordsAgree, KeysReal, ComparedIsKnown, ComparedIsPinned, Held, Sound,
     Fetching, Differs
<1>6. SessionFollows'
  BY <1>0, <1>m, <1>g, <1>o, RestForm, IdleForm, Fixed, SessionFields DEF Typed, IInv,
     LanesShaped, RecordsAgree, KeysReal, SessionFollows, Under, Fetching, Differs
<1>7. PinStep
  BY <1>0, <1>m, <1>g, <1>o, RestForm, IdleForm, Fixed, SessionFields DEF Typed, PinStep, IInv,
     TypeOK, LanesShaped, RecordsAgree, KeysReal, Differs, Fetching
<1> QED BY <1>2, <1>l, <1>3, <1>4, <1>5, <1>p, <1>6, <1>7 DEF IInv

LEMMA RxSaveKeeps ==
  ASSUME IInv, RxSave
  PROVE  IInv' /\ PinStep
<1>0. Typed
  BY TypedHolds
<1>g. /\ rx.pc = "save"
      /\ UNCHANGED <<contact, saved, auto, pending, server, theirs, mail, cmd, compared, relied,
                     revived, torn, made, commands, faults>>
  BY <1>0 DEF Typed, RxSave, IInv, TypeOK, book, lanes, peer, marks, Cross
<1>x. /\ rx' = Idle
  BY <1>0 DEF Typed, RxSave, IInv, TypeOK, book, lanes, peer, marks, Cross
<1>o. /\ session' = rx.msg.sess /\ crossed' = (crossed \/ rx.msg.sess # session)
  BY <1>0 DEF Typed, RxSave, IInv, TypeOK, book, lanes, peer, marks, Cross
<1>s. Sound(contact)' /\ Sound(saved)' /\ Sound(cmd.base)'
  BY <1>0, <1>g, <1>x, <1>o, Fixed, RestForm DEF Typed, IInv, TypeOK, RecordsAgree, LanesShaped,
     Sound, KeysReal, Fetching
<1>l. LanesShaped'
  BY <1>0, <1>g, <1>x, <1>o, RestForm, IdleForm, Fixed, SessionFields DEF Typed, IInv, TypeOK,
     LanesShaped, Fetching
<1>3. RecordsAgree'
  BY <1>0, <1>g, <1>x, <1>o, <1>s, RestForm, IdleForm, Fixed, SessionFields DEF Typed, IInv,
     LanesShaped, RecordsAgree, KeysReal, Fetching, Differs
<1>2. TypeOK'
  BY <1>0, <1>g, <1>x, <1>o, <1>s, RestForm, IdleForm, Fixed, SessionFields DEF Typed, IInv,
     TypeOK, CmdType, Places, RxType
<1>4. KeysReal'
  BY <1>0, <1>g, <1>x, <1>o, RestForm, IdleForm, Fixed, SessionFields, Bounds DEF Typed, IInv,
     TypeOK, LanesShaped, RecordsAgree, KeysReal, Keys, NoKey
<1>5. ComparedIsKnown'
  BY <1>0, <1>g, <1>x, <1>o, RestForm, IdleForm, Fixed, SessionFields DEF Typed, IInv, TypeOK,
     LanesShaped, RecordsAgree, KeysReal, ComparedIsKnown, Fetching, Differs
<1>p. ComparedIsPinned'
  BY <1>0, <1>g, <1>x, <1>o, RestForm, IdleForm, Fixed, SessionFields DEF Typed, IInv,
     LanesShaped, RecordsAgree, KeysReal, ComparedIsKnown, ComparedIsPinned, Held, Sound,
     Fetching, Differs
<1>6. SessionFollows'
  BY <1>0, <1>g, <1>x, <1>o, RestForm, IdleForm, Fixed, SessionFields DEF Typed, IInv,
     LanesShaped, RecordsAgree, KeysReal, SessionFollows, Under, Fetching, Differs
<1>7. PinStep
  BY <1>0, <1>g, <1>x, <1>o, RestForm, IdleForm, Fixed, SessionFields DEF Typed, PinStep, IInv,
     TypeOK, LanesShaped, RecordsAgree, KeysReal, Differs, Fetching
<1> QED BY <1>2, <1>l, <1>3, <1>4, <1>5, <1>p, <1>6, <1>7 DEF IInv

-----------------------------------------------------------------------------
(* The whole of it. *)

LEMMA InitHolds == Init => IInv
<1> SUFFICES ASSUME Init PROVE IInv
  OBVIOUS
<1>1. /\ contact = NoContact /\ saved = NoContact /\ cmd = Rest /\ rx = Idle /\ auto \in BOOLEAN
      /\ session = NoSession /\ pending = NoSession /\ theirs = NoSession /\ server = 1
      /\ mail = <<>> /\ compared = NoKey /\ (relied <=> auto) /\ relied \in BOOLEAN
      /\ crossed = FALSE /\ revived = FALSE /\ torn = FALSE
      /\ made = 0 /\ commands = 0 /\ faults = 0
  BY DEF Init
<1>2. server \in 1 .. MaxKeys /\ made \in 0 .. MaxSessions /\ commands \in 0 .. MaxCommands
      /\ faults \in 0 .. MaxFaults
  BY <1>1, Bounds
<1>3. Sound(contact) /\ Sound(saved) /\ Sound(cmd.base)
  BY <1>1, Fixed, RestForm DEF Sound
<1>k. cmd \in CmdType /\ rx \in RxType /\ mail \in Seq(Messages) /\ compared \in Keys
  BY <1>1, RestForm, IdleForm, Bounds
<1>b. {relied, crossed, revived, torn} \subseteq BOOLEAN
  BY <1>1, Zenon
<1>4. TypeOK
  BY <1>1, <1>2, <1>3, <1>k, <1>b, Fixed DEF TypeOK, CmdType, RxType, Places
<1>5. LanesShaped /\ RecordsAgree
  BY <1>1, <1>3, Fixed, RestForm, IdleForm DEF LanesShaped, RecordsAgree, Fetching
<1>6. KeysReal
  BY <1>1, Fixed, RestForm, IdleForm DEF KeysReal
<1>7. ComparedIsKnown /\ ComparedIsPinned
  BY <1>1, Fixed, RestForm, IdleForm DEF ComparedIsKnown, ComparedIsPinned, Held, Fetching
<1>8. SessionFollows
  BY <1>1, Fixed, RestForm, IdleForm DEF SessionFollows, Under
<1> QED BY <1>4, <1>5, <1>6, <1>7, <1>8 DEF IInv

LEMMA StandsStill ==
  ASSUME IInv, UNCHANGED vars
  PROVE  IInv' /\ PinStep
<1>1. UNCHANGED <<contact, saved, auto, session, pending, server, theirs, mail, cmd, rx,
                  compared, relied, crossed, revived, torn, made, commands, faults>>
  BY DEF vars, book, peer, lanes, marks
<1> QED
  BY <1>1 DEF PinStep, IInv, TypeOK, LanesShaped, RecordsAgree, KeysReal, ComparedIsKnown,
     ComparedIsPinned, SessionFollows, Held, Sound, Under, Fetching

(* One step of whatever kind keeps the invariant, and what PinHolds says of it. *)
LEMMA StepKeeps ==
  ASSUME IInv, [Next]_vars
  PROVE  IInv' /\ PinStep
<1>1. CASE Verified
  BY <1>1, VerifiedKeeps
<1>2. CASE Ack
  BY <1>2, AckKeeps
<1>3. CASE SettingsTrust
  BY <1>3, SettingsTrustKeeps
<1>4. CASE Add
  BY <1>4, AddKeeps1, AddKeeps2
<1>5. CASE Promote
  BY <1>5, PromoteKeeps1, PromoteKeeps2
<1>6. CASE FinishAdd
  BY <1>6, FinishAddKeeps
<1>7. CASE RemoveAll
  BY <1>7, RemoveAllKeeps
<1>8. CASE Clear
  BY <1>8, ClearKeeps
<1>9. CASE Remove
  BY <1>9, RemoveKeeps
<1>10. CASE Forget
  BY <1>10, ForgetKeeps
<1>11. CASE Unlist
  BY <1>11, UnlistKeeps
<1>12. CASE Verify
  BY <1>12, VerifyKeeps
<1>13. CASE SendText
  BY <1>13, SendTextKeeps
<1>14. CASE LoadSession
  BY <1>14, LoadSessionKeeps1, LoadSessionKeeps2
<1>15. CASE SaveRatchet
  BY <1>15, SaveRatchetKeeps
<1>16. CASE FetchBundle
  BY <1>16, FetchBundleKeeps
<1>17. CASE NoBundle
  BY <1>17, NoBundleKeeps
<1>18. CASE VerifyBundle
  BY <1>18, VerifyBundleKeeps1, VerifyBundleKeeps2, VerifyBundleKeeps3
<1>19. CASE CheckBundle
  BY <1>19, CheckBundleKeeps1, CheckBundleKeeps2
<1>20. CASE TearDown
  BY <1>20, TearDownKeeps1, TearDownKeeps2, TearDownKeeps3
<1>21. CASE \E sent \in BOOLEAN : PostFirst(sent)
  <2>1. CASE PostFirst(TRUE)
    BY <2>1, PostFirstKeeps1
  <2>2. CASE PostFirst(FALSE)
    BY <2>2, PostFirstKeeps2
  <2> QED BY <1>21, <2>1, <2>2
<1>22. CASE StoreFirst
  BY <1>22, StoreFirstKeeps1, StoreFirstKeeps2
<1>23. CASE PinFirst
  BY <1>23, PinFirstKeeps
<1>24. CASE PeerGreets
  BY <1>24, PeerGreetsKeeps
<1>25. CASE PeerWrites
  BY <1>25, PeerWritesKeeps
<1>26. CASE PeerRecovers
  BY <1>26, PeerRecoversKeeps
<1>27. CASE Close
  BY <1>27, CloseKeeps
<1>28. CASE ReadKx
  BY <1>28, ReadKxKeeps1, ReadKxKeeps2, ReadKxKeeps3, ReadKxKeeps4 DEF ReadKx, Greet, Next1
<1>29. CASE RxTearDown
  BY <1>29, RxTearDownKeeps1, RxTearDownKeeps2
<1>30. CASE RxStore
  BY <1>30, RxStoreKeeps
<1>31. CASE Bind
  BY <1>31, BindKeeps
<1>32. CASE ReadMsg
  BY <1>32, ReadMsgKeeps1, ReadMsgKeeps2
<1>33. CASE RxSave
  BY <1>33, RxSaveKeeps
<1>s. CASE UNCHANGED vars
  BY <1>s, StandsStill
<1> QED
  BY <1>1, <1>2, <1>3, <1>4, <1>5, <1>6, <1>7, <1>8, <1>9, <1>10, <1>11, <1>12, <1>13, <1>14,
     <1>15, <1>16, <1>17, <1>18, <1>19, <1>20, <1>21, <1>22, <1>23, <1>24, <1>25, <1>26, <1>27,
     <1>28, <1>29, <1>30, <1>31, <1>32, <1>33, <1>s
     DEF Next, Commands, Receiving, Around

(* The invariant the properties below are read from (trust.ts:33-120). *)
THEOREM TrustHolds == Spec => []IInv
<1>1. Init => IInv
  BY InitHolds
<1>2. IInv /\ [Next]_vars => IInv'
  BY StepKeeps
<1> QED BY <1>1, <1>2, PTL DEF Spec

(* The record, both lanes and the queue keep their types, and nobody is
   verified or blocked without a pinned key (records.ts:64). *)
THEOREM TrustTyped == Spec => []TypeOK
<1>1. IInv => TypeOK
  BY DEF IInv
<1> QED BY <1>1, TrustHolds, PTL

(* However a change of key falls between /verify, /ack and /verified, under
   manual trust a contact is verified for the key that was compared
   (trust.ts:33, :86; messaging.ts, contacts.ts). *)
THEOREM OnlyComparedIsVerified == Spec => []VerifiedWasCompared
<1>1. IInv => VerifiedWasCompared
  BY DEF IInv, ComparedIsPinned, Held, VerifiedWasCompared
<1> QED BY <1>1, TrustHolds, PTL

(* With both lanes at rest, and no lane having crossed the other, the session
   is under the pinned key (trust.ts:119). *)
THEOREM NoSessionSurvivesItsKey == Spec => []SessionMatchesPin
<1>1. IInv => SessionMatchesPin
  BY RestForm, IdleForm DEF IInv, SessionFollows, Under, SessionMatchesPin
<1> QED BY <1>1, TrustHolds, PTL

(* No step replaces a pinned key and leaves the contact verified, and no step
   but /ack lifts a block from a contact that stays (records.ts:64). *)
THEOREM PinsAndBlocksHold == Spec => PinHolds
<1>1. IInv /\ [Next]_vars => [PinStep]_vars
  BY StepKeeps
<1> QED BY <1>1, TrustHolds, PTL DEF Spec, PinHolds
===============================================================================
