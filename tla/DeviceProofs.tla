----------------------------- MODULE DeviceProofs -----------------------------
(***************************************************************************)
(* For any passphrases, batch size, periods and number of keys, prekeys,   *)
(* messages and faults: whatever is published in the device's name it can  *)
(* open, a first message finds its signed prekey, the codes written down   *)
(* are in force, the duress passphrase is apart and names the account, and *)
(* nothing is filed in the wrong store.                                    *)
(***************************************************************************)
EXTENDS Device, FiniteSetTheorems, TLAPS

LEMMA Bounds ==
  /\ Batch \in Nat /\ Watermark \in Nat /\ Rotation \in Nat /\ Retention \in Nat /\ TTL \in Nat
  /\ MaxKeys \in Nat /\ MaxPrekeys \in Nat /\ MaxClock \in Nat /\ MaxMail \in Nat /\ MaxFaults \in Nat
  /\ Watermark <= Batch /\ Batch > 0
  /\ NoPass \notin Pass /\ NoKey = 0
  /\ NoKey \in Key /\ Key \subseteq Nat /\ Serial \subseteq Nat /\ Instant \subseteq Nat
BY DeviceBounds DEF Key, Serial, Instant, NoKey

-----------------------------------------------------------------------------
(* Forms of the records. *)

LEMMA NoSpkForm == NoSpk \in Spk
BY Bounds DEF NoSpk, Spk, Serial, Instant

LEMMA DecoyForm == Decoy \in Envelope /\ Decoy.pass = NoPass /\ Decoy.key = NoKey
BY Bounds DEF Decoy, Envelope, MaybePass

LEMMA NewStoreForm ==
  ASSUME NEW p \in MaybePass
  PROVE  /\ NewStore(p) \in Store /\ NewStore(p).wrap = p /\ NewStore(p).id = NoKey
         /\ NewStore(p).spks = {} /\ NewStore(p).opks = {}
         /\ NewStore(p).duress = Decoy /\ NewStore(p).filed = {}
BY Bounds, DecoyForm DEF NewStore, Store

LEMMA NoStoreForm ==
  /\ NoStore \in Store /\ NoStore.wrap = NoPass /\ NoStore.id = NoKey
  /\ NoStore.spks = {} /\ NoStore.opks = {} /\ NoStore.duress = Decoy /\ NoStore.filed = {}
BY NewStoreForm DEF NoStore, MaybePass

LEMMA StoreForms ==
  ASSUME NEW s \in Store
  PROVE  /\ s.wrap \in MaybePass /\ s.id \in Key /\ s.spks \subseteq Spk /\ s.opks \subseteq Serial
         /\ s.duress \in Envelope /\ s.filed \subseteq Key
BY DEF Store

(* One field of the store is rewritten. *)
LEMMA WrapSet ==
  ASSUME NEW s \in Store, NEW x \in MaybePass, NEW t, t = [s EXCEPT !.wrap = x]
  PROVE  /\ t \in Store /\ t.wrap = x /\ t.id = s.id /\ t.spks = s.spks
         /\ t.opks = s.opks /\ t.duress = s.duress /\ t.filed = s.filed
BY DEF Store

LEMMA IdSet ==
  ASSUME NEW s \in Store, NEW x \in Key, NEW t, t = [s EXCEPT !.id = x]
  PROVE  /\ t \in Store /\ t.wrap = s.wrap /\ t.id = x /\ t.spks = s.spks
         /\ t.opks = s.opks /\ t.duress = s.duress /\ t.filed = s.filed
BY DEF Store

LEMMA SpksSet ==
  ASSUME NEW s \in Store, NEW x \in SUBSET Spk, NEW t, t = [s EXCEPT !.spks = x]
  PROVE  /\ t \in Store /\ t.wrap = s.wrap /\ t.id = s.id /\ t.spks = x
         /\ t.opks = s.opks /\ t.duress = s.duress /\ t.filed = s.filed
BY DEF Store

LEMMA OpksSet ==
  ASSUME NEW s \in Store, NEW x \in SUBSET Serial, NEW t, t = [s EXCEPT !.opks = x]
  PROVE  /\ t \in Store /\ t.wrap = s.wrap /\ t.id = s.id /\ t.spks = s.spks
         /\ t.opks = x /\ t.duress = s.duress /\ t.filed = s.filed
BY DEF Store

LEMMA DuressSet ==
  ASSUME NEW s \in Store, NEW x \in Envelope, NEW t, t = [s EXCEPT !.duress = x]
  PROVE  /\ t \in Store /\ t.wrap = s.wrap /\ t.id = s.id /\ t.spks = s.spks
         /\ t.opks = s.opks /\ t.duress = x /\ t.filed = s.filed
BY DEF Store

LEMMA FiledSet ==
  ASSUME NEW s \in Store, NEW x \in SUBSET Key, NEW t, t = [s EXCEPT !.filed = x]
  PROVE  /\ t \in Store /\ t.wrap = s.wrap /\ t.id = s.id /\ t.spks = s.spks
         /\ t.opks = s.opks /\ t.duress = s.duress /\ t.filed = x
BY DEF Store

LEMMA EnrolledForm ==
  ASSUME NEW k \in Key
  PROVE  /\ Enrolled(k) \in Account /\ Enrolled(k).key = k /\ Enrolled(k).spk = NoSpk
         /\ Enrolled(k).opks = {} /\ Enrolled(k).live = FALSE
BY NoSpkForm DEF Enrolled, Account

LEMMA AccountForms ==
  ASSUME NEW a \in Account
  PROVE  a.key \in Key /\ a.spk \in Spk /\ a.opks \subseteq Serial /\ a.live \in BOOLEAN
BY DEF Account

LEMMA SpkServed ==
  ASSUME NEW s \in Account, NEW x \in Spk, NEW t, t = [s EXCEPT !.spk = x]
  PROVE  /\ t \in Account /\ t.key = s.key /\ t.spk = x /\ t.opks = s.opks /\ t.live = s.live
BY DEF Account

LEMMA OpksServed ==
  ASSUME NEW s \in Account, NEW x \in SUBSET Serial, NEW t, t = [s EXCEPT !.opks = x]
  PROVE  /\ t \in Account /\ t.key = s.key /\ t.spk = s.spk /\ t.opks = x /\ t.live = s.live
BY DEF Account

LEMMA SessionOpens ==
  ASSUME NEW s \in Account, NEW t, t = [s EXCEPT !.live = TRUE]
  PROVE  /\ t \in Account /\ t.key = s.key /\ t.spk = s.spk /\ t.opks = s.opks /\ t.live = TRUE
BY DEF Account

LEMMA SessionEnds ==
  ASSUME NEW s \in Account, NEW t, t = [s EXCEPT !.live = FALSE]
  PROVE  /\ t \in Account /\ t.key = s.key /\ t.spk = s.spk /\ t.opks = s.opks /\ t.live = FALSE
BY DEF Account

LEMMA FlowForm ==
  ASSUME NEW why \in {"none", "register", "recover", "enrol", "login", "refill", "purge"},
         NEW pc \in Step, NEW p \in MaybePass,
         pc \in Before \/ why \in {"enrol", "login", "refill"}
  PROVE  LET c == Flow(why, pc, p) IN
         c \in Command /\ c.why = why /\ c.pc = pc /\ c.pass = p /\ c.key = NoKey /\ c.opks = 0
BY Bounds DEF Flow, Command

LEMMA RestForm ==
  /\ Rest \in Command /\ Rest.why = "none" /\ Rest.pc = "rest" /\ Rest.pass = NoPass
  /\ Rest.key = NoKey /\ Rest.opks = 0
BY FlowForm DEF Rest, Before, Step, MaybePass

LEMMA CommandForms ==
  ASSUME NEW c \in Command
  PROVE  /\ c.why \in {"none", "register", "recover", "enrol", "login", "refill", "purge"}
         /\ c.pc \in Step /\ c.pass \in MaybePass /\ c.key \in Key /\ c.opks \in 0..Batch
         /\ c.pc \in Before \/ c.why \in {"enrol", "login", "refill"}
BY DEF Command

(* A command that goes on. *)
LEMMA WentOn ==
  ASSUME cmd \in Command, NEW pc \in Step, Go(pc),
         pc \in Before \/ cmd.why \in {"enrol", "login", "refill"}
  PROVE  /\ cmd' \in Command /\ cmd'.pc = pc /\ cmd'.why = cmd.why /\ cmd'.pass = cmd.pass
         /\ cmd'.key = cmd.key /\ cmd'.opks = cmd.opks
BY DEF Command, Go

(* A token that is kept or forgotten. *)
LEMMA Forgets ==
  ASSUME NEW t \in BOOLEAN, NEW u, NEW b, u = t \/ u = (t /\ b)
  PROVE  u \in BOOLEAN /\ (u => t)
<1>1. CASE u = t
  BY <1>1
<1>2. CASE u = (t /\ b)
  <2>1. (t /\ b) \in BOOLEAN
    BY Zenon
  <2>2. (t /\ b) => t
    BY Zenon
  <2> QED BY <1>2, <2>1, <2>2, Zenon
<1> QED BY <1>1, <1>2

LEMMA IdleForm == Idle.pc = "idle" /\ Idle.stale = FALSE /\ Idle.env = NoMail
BY DEF Idle

LEMMA AnsweringForms ==
  ASSUME NEW r \in Answering
  PROVE  /\ r # Idle /\ r.pc \in {"lookup", "opened"} /\ r.env \in Mail /\ r.stale \in BOOLEAN
         /\ r.env.key \in Key /\ r.env.spk \in Spk /\ r.env.opk \in Serial /\ r.env.at \in Instant
         /\ LET q == [r EXCEPT !.stale = TRUE] IN
              q \in Answering /\ q # Idle /\ q.pc = r.pc /\ q.env = r.env /\ q.stale = TRUE
         /\ LET q == [r EXCEPT !.pc = "opened"] IN
              q \in Answering /\ q # Idle /\ q.pc = "opened" /\ q.env = r.env /\ q.stale = r.stale
<1>1. /\ r # Idle /\ r.pc \in {"lookup", "opened"} /\ r.env \in Mail /\ r.stale \in BOOLEAN
      /\ r.env.key \in Key /\ r.env.spk \in Spk /\ r.env.opk \in Serial /\ r.env.at \in Instant
  BY IdleForm DEF Answering, Mail
<1>2. LET q == [r EXCEPT !.stale = TRUE] IN
        q \in Answering /\ q.pc = r.pc /\ q.env = r.env /\ q.stale = TRUE
  BY DEF Answering
<1>3. LET q == [r EXCEPT !.pc = "opened"] IN
        q \in Answering /\ q.pc = "opened" /\ q.env = r.env /\ q.stale = r.stale
  BY DEF Answering
<1> QED BY <1>1, <1>2, <1>3, IdleForm

LEMMA MailForms ==
  ASSUME NEW e \in Mail
  PROVE  e.key \in Key /\ e.spk \in Spk /\ e.opk \in Serial /\ e.at \in Instant
BY DEF Mail

LEMMA SpkForms ==
  /\ \A s \in Spk : s.n \in Serial /\ s.at \in Instant
  /\ \A n \in Serial, at \in Instant :
       LET s == [n |-> n, at |-> at] IN s \in Spk /\ s.n = n /\ s.at = at
  /\ \A s, t \in Spk : s.n = t.n /\ s.at = t.at => s = t
BY DEF Spk

-----------------------------------------------------------------------------
(* What the types say, and when there is a store. *)
LEMMA Typed ==
  ASSUME TypeOK
  PROVE  /\ store \in Store /\ server \in Account /\ cmd \in Command
         /\ Exists <=> store.wrap # NoPass
         /\ ~Exists => store = NoStore
         /\ store.id # NoKey => Exists
         /\ dek => Exists
         /\ server.key = NoKey => server = NoAccount
         /\ clock \in Nat /\ keys \in Nat /\ prekeys \in Nat /\ faults \in Nat
         /\ prekeys <= MaxPrekeys /\ keys <= MaxKeys /\ faults <= MaxFaults
         /\ paper \in Key /\ ident \in Key /\ mail \subseteq Mail
         /\ rx = Idle \/ rx \in Answering
BY Bounds, NoStoreForm DEF TypeOK, Exists, Instant, Key, Serial

(* What every leaf below needs of the types. *)
LEMMA Fields ==
  ASSUME TypeOK
  PROVE  /\ store.wrap \in MaybePass /\ store.id \in Key /\ store.spks \subseteq Spk
         /\ store.opks \subseteq Serial /\ store.duress \in Envelope /\ store.filed \subseteq Key
         /\ server.key \in Key /\ server.spk \in Spk /\ server.opks \subseteq Serial
         /\ server.live \in BOOLEAN
         /\ store.id \in Nat /\ server.key \in Nat /\ cmd.key \in Nat /\ paper \in Nat /\ ident \in Nat
         /\ cmd.pass \in MaybePass /\ cmd.key \in Key /\ cmd.opks \in Nat
         /\ cmd.pc \in Before \/ cmd.why \in {"enrol", "login", "refill"}
         /\ rx # Idle => rx.env \in Mail /\ rx.stale \in BOOLEAN
<1>1. store \in Store /\ server \in Account /\ cmd \in Command /\ (rx = Idle \/ rx \in Answering)
      /\ paper \in Key /\ ident \in Key
  BY Typed
<1>2. /\ store.wrap \in MaybePass /\ store.id \in Key /\ store.spks \subseteq Spk
      /\ store.opks \subseteq Serial /\ store.duress \in Envelope /\ store.filed \subseteq Key
      /\ server.key \in Key /\ server.spk \in Spk /\ server.opks \subseteq Serial
      /\ server.live \in BOOLEAN
  BY <1>1, StoreForms, AccountForms
<1>3. /\ cmd.pass \in MaybePass /\ cmd.key \in Key /\ cmd.opks \in 0..Batch
      /\ cmd.pc \in Before \/ cmd.why \in {"enrol", "login", "refill"}
  BY <1>1, CommandForms
<1>4. rx # Idle => rx.env \in Mail /\ rx.stale \in BOOLEAN
  <2>1. CASE rx = Idle
    BY <2>1
  <2>2. CASE rx \in Answering
    BY <2>2 DEF Answering
  <2> QED BY <1>1, <2>1, <2>2
<1>5. /\ store.id \in Nat /\ server.key \in Nat /\ cmd.key \in Nat /\ paper \in Nat
      /\ ident \in Nat /\ cmd.opks \in Nat
  <2>1. \A k \in Key : k \in Nat
    BY Bounds
  <2>2. \A n \in 0..Batch : n \in Nat
    BY Bounds
  <2> QED BY <1>1, <1>2, <1>3, <2>1, <2>2
<1> QED BY <1>1, <1>2, <1>3, <1>4, <1>5

LEMMA NoAccountForm ==
  /\ NoAccount \in Account /\ NoAccount.key = NoKey /\ NoAccount.spk = NoSpk
  /\ NoAccount.opks = {} /\ NoAccount.live = FALSE
BY Bounds, EnrolledForm DEF NoAccount

(* The epoch moves on: a message being answered is stale. *)
LEMMA LockLocalDoes ==
  ASSUME TypeOK, LockLocal
  PROVE  /\ dek' = FALSE /\ ident' = NoKey /\ ws' = FALSE
         /\ rx' = Idle \/ rx' \in Answering
         /\ rx' # Idle => rx # Idle /\ rx'.env = rx.env /\ rx'.stale = TRUE
<1>1. dek' = FALSE /\ ident' = NoKey /\ ws' = FALSE /\ rx' = [rx EXCEPT !.stale = (rx.pc # "idle")]
  BY DEF LockLocal
<1>2. CASE rx = Idle
  <2>1. rx' = Idle
    BY <1>1, <1>2 DEF Idle
  <2> QED BY <1>1, <2>1
<1>3. CASE rx \in Answering
  <2>1. rx' = [rx EXCEPT !.stale = TRUE]
    BY <1>1, <1>3, AnsweringForms
  <2>2. rx' \in Answering /\ rx'.env = rx.env /\ rx'.stale = TRUE
    BY <1>3, <2>1 DEF Answering
  <2> QED BY <1>1, <1>3, <2>2, AnsweringForms
<1> QED BY <1>2, <1>3, Typed

LEMMA PricedDoes ==
  ASSUME TypeOK, NEW o \in Outcome, Priced(o)
  PROVE  faults' \in 0..MaxFaults
BY Typed, Bounds DEF Priced, TypeOK

LEMMA PurgeFlow ==
  ASSUME NEW k \in Key
  PROVE  LET c == [Flow("purge", "purge", NoPass) EXCEPT !.key = k] IN
         c \in Command /\ c.pc = "purge" /\ c.key = k
<1>1. Flow("purge", "purge", NoPass)
        = [why |-> "purge", pc |-> "purge", pass |-> NoPass, key |-> NoKey, opks |-> 0]
  BY DEF Flow
<1>2. [Flow("purge", "purge", NoPass) EXCEPT !.key = k]
        = [why |-> "purge", pc |-> "purge", pass |-> NoPass, key |-> k, opks |-> 0]
  BY <1>1
<1> QED BY <1>2, Bounds DEF Command, Before, Step, MaybePass

(* What each action does. *)

LEMMA BeginRegisterDoes ==
  ASSUME TypeOK, NEW p \in Pass, BeginRegister(p)
  PROVE  /\ store = NoStore /\ cmd = Rest /\ cmd' \in Command /\ cmd'.pc = "ask"
         /\ cmd'.why = "register" /\ cmd'.pass = p /\ cmd'.key = NoKey /\ store' = store
         /\ server' = server /\ mail' = mail /\ paper' = paper /\ dek' = dek
         /\ ident' = ident /\ token' = token /\ ws' = ws /\ rx' = rx /\ clock' = clock
         /\ keys' = keys /\ prekeys' = prekeys /\ faults' = faults /\ unseen' = unseen
BY Typed, Bounds, FlowForm
   DEF BeginRegister, serials, memory, Begin, Exists, Before, Step, MaybePass

LEMMA BeginRecoverDoes ==
  ASSUME TypeOK, NEW p \in Pass, BeginRecover(p)
  PROVE  /\ cmd = Rest /\ cmd' \in Command /\ cmd'.pc = "ask" /\ cmd'.why = "recover"
         /\ cmd'.pass = p /\ cmd'.key = NoKey /\ store' = store /\ server' = server
         /\ mail' = mail /\ paper' = paper /\ dek' = dek /\ ident' = ident
         /\ token' = token /\ ws' = ws /\ rx' = rx /\ clock' = clock /\ keys' = keys
         /\ prekeys' = prekeys /\ faults' = faults /\ unseen' = unseen
BY Typed, Bounds, FlowForm
   DEF BeginRecover, serials, memory, Begin, Before, Step, MaybePass

LEMMA AskRegisterDoes ==
  ASSUME TypeOK, NEW o \in Outcome, AskRegister(o)
  PROVE  /\ cmd.pc = "ask" /\ cmd.why = "register" /\ keys' = keys + 1 /\ keys + 1 \in Key
         /\ faults' \in 0..MaxFaults
         /\ \/ /\ server' = Enrolled(keys + 1) /\ mail' = {} /\ unseen' = FALSE
               /\ cmd' \in Command /\ cmd'.pc = "create" /\ cmd'.pass = cmd.pass /\ cmd'.key = keys + 1
            \/ cmd' = Rest /\ server' = server /\ mail' = mail /\ unseen' = unseen
         /\ store' = store /\ paper' = paper /\ dek' = dek /\ ident' = ident
         /\ token' = token /\ ws' = ws /\ rx' = rx /\ clock' = clock /\ prekeys' = prekeys
<1>1. faults' \in 0..MaxFaults
  BY PricedDoes DEF AskRegister
<1>2. keys + 1 \in Key
  BY Typed, Bounds DEF AskRegister, Key
<1>3. CASE o = "answered"
  <2>1. cmd' = [cmd EXCEPT !.pc = "create", !.key = keys + 1]
    BY <1>3 DEF AskRegister
  <2>2. /\ cmd' \in Command /\ cmd'.pc = "create" /\ cmd'.pass = cmd.pass /\ cmd'.key = keys + 1
    BY <2>1, <1>2, Typed, Bounds DEF Command, Before, Step
  <2> QED BY <1>1, <1>2, <1>3, <2>2 DEF AskRegister, memory
<1>4. CASE o # "answered"
  BY <1>1, <1>2, <1>4 DEF AskRegister, memory, Stop
<1> QED BY <1>3, <1>4

LEMMA AskRegisterSets ==
  ASSUME TypeOK, NEW o \in Outcome, AskRegister(o)
  PROVE  /\ \/ server' = server /\ cmd' = Rest
            \/ /\ cmd'.pc = "create" /\ server' \in Account /\ server'.key = keys + 1 /\ server'.spk = NoSpk
               /\ server'.opks = {} /\ server'.live = FALSE
BY AskRegisterDoes, EnrolledForm

LEMMA AskRecoverDoes ==
  ASSUME TypeOK, NEW o \in Outcome, AskRecover(o)
  PROVE  /\ cmd.pc = "ask" /\ cmd.why = "recover" /\ keys' = keys + 1 /\ keys + 1 \in Key
         /\ server.key # NoKey /\ paper = server.key /\ faults' \in 0..MaxFaults
         /\ \/ /\ server' = Enrolled(keys + 1) /\ mail' = {} /\ unseen' = unseen
               /\ cmd' \in Command /\ cmd'.pc = (IF Exists THEN "wipe" ELSE "create") /\ cmd'.pass = cmd.pass /\ cmd'.key = keys + 1
               /\ token' = FALSE /\ LockLocal
            \/ /\ server' = Enrolled(keys + 1) /\ mail' = {} /\ unseen' = TRUE /\ cmd' = Rest
               /\ token' = token /\ dek' = dek /\ ident' = ident /\ ws' = ws /\ rx' = rx
            \/ cmd' = Rest /\ server' = server /\ mail' = mail
               /\ unseen' = unseen /\ token' = token /\ dek' = dek /\ ident' = ident /\ ws' = ws /\ rx' = rx
         /\ store' = store /\ paper' = paper /\ clock' = clock /\ prekeys' = prekeys
<1>1. faults' \in 0..MaxFaults
  BY PricedDoes DEF AskRecover
<1>2. keys + 1 \in Key
  BY Typed, Bounds DEF AskRecover, Key
<1>3. CASE o = "answered"
  <2> DEFINE to == IF Exists THEN "wipe" ELSE "create"
  <2>1. cmd' = [cmd EXCEPT !.pc = to, !.key = keys + 1]
    BY <1>3 DEF AskRecover
  <2>2. to \in Step /\ to \in Before
    BY DEF Before, Step
  <2> HIDE DEF to
  <2>3. /\ cmd' \in Command /\ cmd'.pc = to /\ cmd'.pass = cmd.pass /\ cmd'.key = keys + 1
    BY <2>1, <2>2, <1>2, Typed, Bounds DEF Command
  <2>4. server' = Enrolled(keys + 1) /\ mail' = {} /\ unseen' = unseen /\ token' = FALSE /\ LockLocal
    <3>1. unseen' = (unseen \/ FALSE) /\ unseen \in BOOLEAN
      BY <1>3 DEF AskRecover, TypeOK
    <3> QED BY <3>1, <1>3 DEF AskRecover, Reached
  <2> QED BY <1>1, <1>2, <2>3, <2>4 DEF AskRecover, to
<1>4. CASE o = "unanswered"
  <2>1. unseen' = (unseen \/ TRUE)
    BY <1>4 DEF AskRecover
  <2> QED BY <1>1, <1>2, <1>4, <2>1 DEF AskRecover, memory, Stop, Reached
<1>5. CASE o = "refused"
  <2>1. unseen' = (unseen \/ FALSE) /\ unseen \in BOOLEAN
    BY <1>5 DEF AskRecover, TypeOK
  <2> QED BY <1>1, <1>2, <1>5, <2>1 DEF AskRecover, memory, Stop, Reached
<1> QED BY <1>3, <1>4, <1>5 DEF Outcome

LEMMA AskRecoverSets ==
  ASSUME TypeOK, NEW o \in Outcome, AskRecover(o)
  PROVE  /\ \/ server' = server /\ cmd' = Rest
            \/ /\ server' \in Account /\ server'.key = keys + 1 /\ server'.spk = NoSpk
               /\ server'.opks = {} /\ server'.live = FALSE
BY AskRecoverDoes, EnrolledForm

LEMMA CodeRefusedDoes ==
  ASSUME TypeOK, CodeRefused
  PROVE  /\ cmd.pc = "ask" /\ cmd' = Rest /\ store' = store /\ server' = server
         /\ mail' = mail /\ paper' = paper /\ dek' = dek /\ ident' = ident
         /\ token' = token /\ ws' = ws /\ rx' = rx /\ clock' = clock /\ keys' = keys
         /\ prekeys' = prekeys /\ faults' = faults /\ unseen' = unseen
BY Typed, Bounds
   DEF CodeRefused, serials, memory, Stop

LEMMA WipeForRecoverDoes ==
  ASSUME TypeOK, WipeForRecover
  PROVE  /\ cmd.pc = "wipe" /\ store' = NoStore /\ dek' = FALSE /\ cmd' \in Command
         /\ cmd'.pc = "create" /\ cmd'.why = cmd.why /\ cmd'.pass = cmd.pass
         /\ cmd'.key = cmd.key /\ cmd'.opks = cmd.opks /\ server' = server /\ mail' = mail
         /\ paper' = paper /\ ident' = ident /\ token' = token /\ ws' = ws /\ rx' = rx
         /\ clock' = clock /\ keys' = keys /\ prekeys' = prekeys /\ faults' = faults
         /\ unseen' = unseen
BY Typed, Bounds, WentOn
   DEF WipeForRecover, serials, memory, Before, Step

LEMMA CreateStoreDoes ==
  ASSUME TypeOK, CreateStore
  PROVE  /\ cmd.pc = "create" /\ store' = NewStore(cmd.pass) /\ dek' = TRUE
         /\ cmd' \in Command /\ cmd'.pc = "identity" /\ cmd'.key = cmd.key
         /\ server' = server /\ mail' = mail /\ paper' = paper /\ ident' = ident
         /\ token' = token /\ ws' = ws /\ rx' = rx /\ clock' = clock /\ keys' = keys
         /\ prekeys' = prekeys /\ faults' = faults /\ unseen' = unseen
BY Typed, Bounds, CommandForms
   DEF CreateStore, serials, memory, Command, Before, Step, MaybePass

LEMMA CreateStoreSets ==
  ASSUME TypeOK, CreateStore
  PROVE  /\ store' \in Store /\ store'.wrap = cmd.pass /\ store'.id = NoKey
         /\ store'.spks = {} /\ store'.opks = {} /\ store'.duress = Decoy
         /\ store'.filed = {}
BY CreateStoreDoes, Fields, NewStoreForm

LEMMA PutIdentityDoes ==
  ASSUME TypeOK, PutIdentity
  PROVE  /\ cmd.pc = "identity" /\ store' = [store EXCEPT !.id = cmd.key]
         /\ \/ /\ dek /\ unseen' = unseen /\ cmd' \in Command /\ cmd'.pc = "defaults" /\ cmd'.why = cmd.why /\ cmd'.pass = cmd.pass /\ cmd'.key = cmd.key /\ cmd'.opks = cmd.opks
            \/ ~dek /\ unseen' = TRUE /\ cmd' = Rest
         /\ server' = server /\ mail' = mail /\ paper' = paper /\ dek' = dek
         /\ ident' = ident /\ token' = token /\ ws' = ws /\ rx' = rx /\ clock' = clock
         /\ keys' = keys /\ prekeys' = prekeys /\ faults' = faults
BY Typed, Bounds, WentOn, CommandForms
   DEF PutIdentity, serials, memory, Stop, Before, Step, TypeOK

LEMMA PutIdentitySets ==
  ASSUME TypeOK, PutIdentity
  PROVE  /\ store' \in Store /\ store'.wrap = store.wrap /\ store'.spks = store.spks
         /\ store'.opks = store.opks /\ store'.duress = store.duress
         /\ store'.filed = store.filed /\ store'.id = cmd.key
BY PutIdentityDoes, Typed, Fields, IdSet

LEMMA PutDefaultsDoes ==
  ASSUME TypeOK, PutDefaults
  PROVE  /\ cmd.pc = "defaults"
         /\ \/ /\ ident' = cmd.key /\ paper' = cmd.key /\ unseen' = unseen
               /\ cmd' \in Command /\ cmd'.pc = "sign" /\ cmd'.why = cmd.why
               /\ cmd'.pass = cmd.pass /\ cmd'.key = cmd.key /\ cmd'.opks = cmd.opks
            \/ ident' = ident /\ paper' = paper /\ unseen' = TRUE /\ cmd' = Rest
         /\ store' = store /\ server' = server /\ mail' = mail /\ dek' = dek
         /\ token' = token /\ ws' = ws /\ rx' = rx /\ clock' = clock /\ keys' = keys
         /\ prekeys' = prekeys /\ faults' = faults
BY Typed, Bounds, WentOn, CommandForms
   DEF PutDefaults, Stop, serials, memory, Before, Step

LEMMA SignDoes ==
  ASSUME TypeOK, NEW o \in Outcome, Sign(o)
  PROVE  /\ cmd.pc = "sign" /\ faults' \in 0..MaxFaults
         /\ \/ /\ ident # NoKey /\ cmd' \in Command
               /\ cmd'.pc = "verify" /\ cmd'.key = ident
            \/ cmd' = Rest
         /\ store' = store /\ server' = server /\ mail' = mail /\ paper' = paper
         /\ dek' = dek /\ ident' = ident /\ token' = token /\ ws' = ws /\ rx' = rx
         /\ clock' = clock /\ keys' = keys /\ prekeys' = prekeys /\ unseen' = unseen
BY Typed, Bounds, PricedDoes
   DEF Sign, serials, memory, Stop, Command, Before, Step

LEMMA VerifyDoes ==
  ASSUME TypeOK, NEW o \in Outcome, Verify(o)
  PROVE  /\ cmd.pc = "verify" /\ faults' \in 0..MaxFaults
         /\ \/ server' = server
            \/ Honoured /\ server' = [server EXCEPT !.live = TRUE]
         /\ \/ /\ token' = TRUE /\ Honoured /\ cmd' \in Command /\ cmd'.key = NoKey
               /\ cmd'.pc \in {"status", "spk"}
            \/ token' = token /\ cmd' = Rest
         /\ store' = store /\ mail' = mail /\ paper' = paper /\ dek' = dek
         /\ ident' = ident /\ ws' = ws /\ rx' = rx /\ clock' = clock /\ keys' = keys
         /\ prekeys' = prekeys /\ unseen' = unseen
BY Typed, Bounds, PricedDoes, FlowForm, CommandForms
   DEF Verify, serials, memory, Stop, Before, Step, MaybePass

LEMMA VerifySets ==
  ASSUME TypeOK, NEW o \in Outcome, Verify(o)
  PROVE  /\ server' \in Account /\ server'.key = server.key /\ server'.spk = server.spk
         /\ server'.opks = server.opks
         /\ server'.live = server.live \/ (server'.live = TRUE /\ Honoured)
<1>1. CASE server' = server
  BY <1>1, Typed
<1>2. CASE Honoured /\ server' = [server EXCEPT !.live = TRUE]
  BY <1>2, Typed, SessionOpens
<1> QED BY <1>1, <1>2, VerifyDoes

LEMMA KeysStatusDoes ==
  ASSUME TypeOK, NEW o \in Outcome, KeysStatus(o)
  PROVE  /\ cmd.pc = "status" /\ faults' \in 0..MaxFaults /\ token' \in BOOLEAN
         /\ token' => token
         /\ \/ /\ cmd' \in Command /\ cmd'.pc \in {"spk", "opk", "drain"} /\ cmd'.key = cmd.key
            \/ cmd' = Rest
         /\ store' = store /\ server' = server /\ mail' = mail /\ paper' = paper
         /\ dek' = dek /\ ident' = ident /\ ws' = ws /\ rx' = rx /\ clock' = clock
         /\ keys' = keys /\ prekeys' = prekeys /\ unseen' = unseen
<1>1. /\ cmd.pc = "status" /\ Priced(o)
      /\ token' = token \/ token' = (token /\ (server.live \/ o # "answered"))
      /\ store' = store /\ server' = server /\ mail' = mail /\ paper' = paper /\ dek' = dek
      /\ ident' = ident /\ ws' = ws /\ rx' = rx /\ clock' = clock /\ keys' = keys
      /\ prekeys' = prekeys /\ unseen' = unseen
  BY DEF KeysStatus, serials
<1>2. IsFiniteSet(server.opks)
  <2>1. IsFiniteSet(Serial)
    BY Bounds, FS_Interval DEF Serial
  <2> QED BY <2>1, Typed, AccountForms, FS_Subset
<1>3. Cardinality(server.opks) \in Nat
  BY <1>2, FS_CardinalityType
<1>4. \A least \in {Watermark, Batch} : Missing(least) \in 0..Batch
  BY <1>3, Bounds DEF Missing
<1>5. cmd' = Rest \/ (cmd' \in Command /\ cmd'.pc \in {"spk", "opk", "drain"} /\ cmd'.key = cmd.key)
  <2>1. cmd.why \in {"enrol", "login", "refill"}
    BY <1>1, Typed, CommandForms DEF Before
  <2>2. ASSUME NEW n \in 0..Batch, NEW pc \in {"spk", "opk", "drain"},
               cmd' = [cmd EXCEPT !.pc = pc, !.opks = n] \/ cmd' = [cmd EXCEPT !.pc = pc]
        PROVE  cmd' \in Command /\ cmd'.pc \in {"spk", "opk", "drain"} /\ cmd'.key = cmd.key
    BY <2>1, <2>2, Typed DEF Command, Step
  <2> DEFINE n == Missing(IF cmd.why = "login" THEN Watermark ELSE Batch)
  <2>3. n \in 0..Batch
    BY <1>4
  <2>4. \/ cmd' = CASE cmd.why = "login" /\ SpkDue -> [cmd EXCEPT !.pc = "spk", !.opks = n]
                    [] n > 0 -> [cmd EXCEPT !.pc = "opk", !.opks = n]
                    [] cmd.why = "login" -> [cmd EXCEPT !.pc = "drain"]
                    [] OTHER -> Rest
        \/ cmd' = Rest
    BY DEF KeysStatus, Stop
  <2> HIDE DEF n
  <2>5. \/ cmd' = Rest
        \/ cmd' = [cmd EXCEPT !.pc = "spk", !.opks = n]
        \/ cmd' = [cmd EXCEPT !.pc = "opk", !.opks = n]
        \/ cmd' = [cmd EXCEPT !.pc = "drain"]
    BY <2>4
  <2> QED BY <2>2, <2>3, <2>5
<1>6. faults' \in 0..MaxFaults
  BY <1>1, PricedDoes
<1>7. token' \in BOOLEAN /\ (token' => token)
  BY <1>1, Forgets DEF TypeOK
<1> QED BY <1>1, <1>5, <1>6, <1>7

LEMMA BeginRefillDoes ==
  ASSUME TypeOK, BeginRefill
  PROVE  /\ cmd = Rest /\ cmd' \in Command /\ cmd'.pc = "status" /\ cmd'.key = NoKey
         /\ store' = store /\ server' = server /\ mail' = mail /\ paper' = paper
         /\ dek' = dek /\ ident' = ident /\ token' = token /\ ws' = ws /\ rx' = rx
         /\ clock' = clock /\ keys' = keys /\ prekeys' = prekeys /\ faults' = faults
         /\ unseen' = unseen
BY Typed, Bounds, FlowForm
   DEF BeginRefill, serials, memory, Begin, Before, Step, MaybePass

LEMMA PersistSpkDoes ==
  ASSUME TypeOK, PersistSpk
  PROVE  /\ cmd.pc = "spk"
         /\ \/ /\ dek /\ prekeys' = prekeys + 1 /\ prekeys + 1 \in Serial
               /\ store' = [store EXCEPT !.spks = store.spks \cup {[n |-> prekeys + 1, at |-> clock]}]
               /\ cmd' \in Command /\ cmd'.pc = "uploadSpk" /\ cmd'.why = cmd.why /\ cmd'.pass = cmd.pass /\ cmd'.key = cmd.key /\ cmd'.opks = cmd.opks
            \/ cmd' = Rest /\ store' = store /\ prekeys' = prekeys
         /\ server' = server /\ mail' = mail /\ paper' = paper /\ dek' = dek
         /\ ident' = ident /\ token' = token /\ ws' = ws /\ rx' = rx /\ clock' = clock
         /\ keys' = keys /\ faults' = faults /\ unseen' = unseen
BY Typed, Bounds, WentOn, CommandForms
   DEF PersistSpk, serials, memory, Stop, Ready, Serial, Before, Step

LEMMA PersistSpkSets ==
  ASSUME TypeOK, PersistSpk
  PROVE  /\ store' \in Store /\ store'.wrap = store.wrap /\ store'.id = store.id
         /\ store'.opks = store.opks /\ store'.duress = store.duress
         /\ store'.filed = store.filed
         /\ \/ store'.spks = store.spks /\ cmd' = Rest
            \/ /\ cmd'.pc = "uploadSpk"
               /\ store'.spks = store.spks \cup {[n |-> prekeys + 1, at |-> clock]}
<1>1. CASE cmd' = Rest /\ store' = store
  BY <1>1, Typed
<1>2. CASE /\ cmd'.pc = "uploadSpk" /\ prekeys + 1 \in Serial
           /\ store' = [store EXCEPT !.spks = store.spks \cup {[n |-> prekeys + 1, at |-> clock]}]
  <2>1. store.spks \cup {[n |-> prekeys + 1, at |-> clock]} \in SUBSET Spk
    BY <1>2, Fields DEF TypeOK, Spk
  <2> QED BY <1>2, <2>1, Typed, SpksSet
<1> QED BY <1>1, <1>2, PersistSpkDoes

LEMMA UploadSpkDoes ==
  ASSUME TypeOK, NEW o \in Outcome, UploadSpk(o)
  PROVE  /\ cmd.pc = "uploadSpk" /\ faults' \in 0..MaxFaults /\ token' \in BOOLEAN
         /\ token' => token
         /\ \/ server' = server
            \/ Standing /\ server' = [server EXCEPT !.spk = Newest]
         /\ \/ cmd' = Rest
            \/ /\ Standing /\ server' = [server EXCEPT !.spk = Newest]
               /\ cmd' \in Command /\ cmd'.pc = "prune" /\ cmd'.why = cmd.why /\ cmd'.pass = cmd.pass /\ cmd'.key = cmd.key /\ cmd'.opks = cmd.opks
         /\ store' = store /\ mail' = mail /\ paper' = paper /\ dek' = dek
         /\ ident' = ident /\ ws' = ws /\ rx' = rx /\ clock' = clock /\ keys' = keys
         /\ prekeys' = prekeys /\ unseen' = unseen
BY Typed, Bounds, PricedDoes, WentOn, CommandForms
   DEF UploadSpk, serials, memory, Upload, Go, Stop, Reached, Outcome, Before, Step, TypeOK

(* The prekey about to be uploaded is the newest in the store. *)
LEMMA NewestIs ==
  ASSUME IInv, cmd.pc = "uploadSpk"
  PROVE  Newest = [n |-> prekeys, at |-> clock] /\ Newest \in store.spks
<1> DEFINE fresh == [n |-> prekeys, at |-> clock]
<1>1. TypeOK /\ fresh \in store.spks /\ \A s \in store.spks : s.n = prekeys => s.at = clock
  BY DEF IInv, PrekeysInHand
<1>2. \A s \in store.spks : s \in Spk /\ s.n \in Nat /\ s.n <= prekeys
  BY <1>1, Fields, SpkForms, Bounds DEF IInv, Numbered
<1>3. fresh.n = prekeys /\ fresh.at = clock
  OBVIOUS
<1> HIDE DEF fresh
<1>4. \A t \in store.spks : t.n <= fresh.n
  BY <1>2, <1>3
<1>5. Newest \in store.spks /\ \A t \in store.spks : t.n <= Newest.n
  BY <1>1, <1>4 DEF Newest
<1>6. Newest.n = prekeys
  BY <1>1, <1>2, <1>3, <1>5, Typed
<1>7. Newest.at = clock
  BY <1>1, <1>5, <1>6
<1>8. Newest = fresh
  BY <1>1, <1>2, <1>3, <1>5, <1>6, <1>7, SpkForms
<1> QED BY <1>5, <1>8 DEF fresh

LEMMA UploadSpkSets ==
  ASSUME IInv, NEW o \in Outcome, UploadSpk(o)
  PROVE  /\ server' \in Account /\ server'.key = server.key /\ server'.opks = server.opks
         /\ server'.live = server.live
         /\ \/ server' = server /\ cmd' = Rest
            \/ Standing /\ server'.spk = Newest
<1>1. CASE server' = server /\ cmd' = Rest
  BY <1>1, Typed DEF IInv
<1>2. CASE Standing /\ server' = [server EXCEPT !.spk = Newest]
  <2>1. Newest \in Spk
    BY UploadSpkDoes, NewestIs, Fields DEF IInv
  <2> QED BY <1>2, <2>1, Typed, SpkServed DEF IInv
<1> QED BY <1>1, <1>2, UploadSpkDoes DEF IInv

LEMMA PruneDoes ==
  ASSUME TypeOK, Prune
  PROVE  /\ cmd.pc = "prune"
         /\ store' = [store EXCEPT !.spks = {s \in store.spks : Kept(s)}]
         /\ cmd' \in Command /\ cmd'.pc \in {"drain", "opk"} /\ cmd'.key = cmd.key
         /\ server' = server /\ mail' = mail /\ paper' = paper /\ dek' = dek
         /\ ident' = ident /\ token' = token /\ ws' = ws /\ rx' = rx /\ clock' = clock
         /\ keys' = keys /\ prekeys' = prekeys /\ faults' = faults /\ unseen' = unseen
BY Typed, Bounds, WentOn, CommandForms
   DEF Prune, serials, memory, AfterSpk, Before, Step

LEMMA PruneSets ==
  ASSUME TypeOK, Prune
  PROVE  /\ store' \in Store /\ store'.wrap = store.wrap /\ store'.id = store.id
         /\ store'.opks = store.opks /\ store'.duress = store.duress
         /\ store'.filed = store.filed /\ store'.spks = {s \in store.spks : Kept(s)}
<1> DEFINE kept == {s \in store.spks : Kept(s)}
<1>1. kept \in SUBSET Spk
  BY Fields
<1>2. store' = [store EXCEPT !.spks = kept]
  BY PruneDoes
<1> HIDE DEF kept
<1>3. /\ store' \in Store /\ store'.wrap = store.wrap /\ store'.id = store.id /\ store'.spks = kept
      /\ store'.opks = store.opks /\ store'.duress = store.duress /\ store'.filed = store.filed
  BY SMTT(20), <1>1, <1>2, Typed, SpksSet
<1> QED BY <1>3 DEF kept

LEMMA PersistOpksDoes ==
  ASSUME TypeOK, PersistOpks
  PROVE  /\ cmd.pc = "opk"
         /\ \/ /\ dek /\ cmd' \in Command /\ cmd'.pc = "uploadOpks" /\ cmd'.key = cmd.key
               /\ prekeys' = prekeys + cmd'.opks /\ prekeys' \in Serial
               /\ store' = [store EXCEPT !.opks = store.opks \cup Made(cmd'.opks)]
            \/ cmd' = Rest /\ store' = store /\ prekeys' = prekeys
         /\ server' = server /\ mail' = mail /\ paper' = paper /\ dek' = dek
         /\ ident' = ident /\ token' = token /\ ws' = ws /\ rx' = rx /\ clock' = clock
         /\ keys' = keys /\ faults' = faults /\ unseen' = unseen
<1>1. CASE Ready
  <2>1. BatchSize \in 0..Batch
    BY Typed, CommandForms, Bounds DEF BatchSize
  <2>2. cmd' = [cmd EXCEPT !.pc = "uploadOpks", !.opks = BatchSize] /\ cmd.pc = "opk"
    BY <1>1 DEF PersistOpks
  <2>3. cmd' \in Command /\ cmd'.pc = "uploadOpks" /\ cmd'.key = cmd.key /\ cmd'.opks = BatchSize
    <3>1. cmd.why \in {"enrol", "login", "refill"}
      BY <2>2, Typed, CommandForms DEF Before
    <3> QED BY <2>1, <2>2, <3>1, Typed DEF Command, Step
  <2>4. prekeys + BatchSize \in Serial /\ prekeys' = prekeys + BatchSize
    BY <1>1, <2>1, Typed, Bounds DEF PersistOpks, Serial
  <2> QED BY <1>1, <2>2, <2>3, <2>4 DEF PersistOpks, memory, Ready
<1>2. CASE ~Ready
  BY <1>2 DEF PersistOpks, memory, Stop
<1> QED BY <1>1, <1>2

LEMMA PersistOpksSets ==
  ASSUME TypeOK, PersistOpks
  PROVE  /\ store' \in Store /\ store'.wrap = store.wrap /\ store'.id = store.id
         /\ store'.spks = store.spks /\ store'.duress = store.duress
         /\ store'.filed = store.filed
         /\ \/ store'.opks = store.opks /\ cmd' = Rest
            \/ /\ cmd'.pc = "uploadOpks"
               /\ store'.opks = store.opks \cup Made(cmd'.opks)
<1>1. CASE cmd' = Rest /\ store' = store
  BY <1>1, Typed
<1>2. CASE /\ cmd'.pc = "uploadOpks" /\ cmd' \in Command /\ prekeys' \in Serial /\ prekeys' = prekeys + cmd'.opks
           /\ store' = [store EXCEPT !.opks = store.opks \cup Made(cmd'.opks)]
  <2>1. cmd'.opks \in Nat
    BY <1>2, CommandForms, Bounds
  <2>2. Made(cmd'.opks) \subseteq Serial
    BY <1>2, <2>1, Typed, Bounds DEF Made, Serial
  <2>3. store.opks \cup Made(cmd'.opks) \in SUBSET Serial
    BY <2>2, Fields
  <2> QED BY <1>2, <2>3, Typed, OpksSet
<1> QED BY <1>1, <1>2, PersistOpksDoes

LEMMA UploadOpksDoes ==
  ASSUME TypeOK, NEW o \in Outcome, UploadOpks(o)
  PROVE  /\ cmd.pc = "uploadOpks" /\ faults' \in 0..MaxFaults /\ token' \in BOOLEAN
         /\ token' => token
         /\ \/ server' = server
            \/ Standing /\ server' = [server EXCEPT !.opks = server.opks \cup InHand]
         /\ cmd' = Rest \/ (cmd' \in Command /\ cmd'.pc \in {"drain", "done", "connect"} /\ cmd'.key = cmd.key)
         /\ store' = store /\ mail' = mail /\ paper' = paper /\ dek' = dek
         /\ ident' = ident /\ ws' = ws /\ rx' = rx /\ clock' = clock /\ keys' = keys
         /\ prekeys' = prekeys /\ unseen' = unseen
<1>1. cmd.pc = "uploadOpks" /\ cmd.why \in {"enrol", "login", "refill"}
  BY Typed, CommandForms DEF UploadOpks, Before
<1> DEFINE next == [login |-> "drain", refill |-> "done", enrol |-> "connect"][cmd.why]
           served == [server EXCEPT !.opks = @ \cup InHand]
<1>2. next \in {"drain", "done", "connect"}
  BY <1>1
<1>3. Upload(o, served, next)
  BY DEF UploadOpks
<1> HIDE DEF next
<1>4. Go(next) => cmd' \in Command /\ cmd'.pc \in {"drain", "done", "connect"} /\ cmd'.key = cmd.key
  BY <1>1, <1>2, Typed, WentOn DEF Step
<1>5. faults' \in 0..MaxFaults
  BY <1>3, PricedDoes DEF Upload
<1>6. /\ server' = server \/ (Standing /\ server' = served)
      /\ Go(next) \/ cmd' = Rest
      /\ token' = token \/ token' = (token /\ (server.live \/ o # "answered"))
  BY <1>3 DEF Upload, Stop
<1>7. token' \in BOOLEAN /\ (token' => token)
  BY <1>6, Forgets DEF TypeOK
<1> QED BY <1>1, <1>4, <1>5, <1>6, <1>7 DEF UploadOpks, serials

LEMMA UploadOpksSets ==
  ASSUME IInv, NEW o \in Outcome, UploadOpks(o)
  PROVE  /\ server' \in Account /\ server'.key = server.key /\ server'.spk = server.spk
         /\ server'.live = server.live
         /\ \/ server' = server
            \/ Standing /\ server'.opks = server.opks \cup InHand
<1>1. CASE server' = server
  BY <1>1, Typed DEF IInv
<1>2. CASE Standing /\ server' = [server EXCEPT !.opks = server.opks \cup InHand]
  <2>1. server.opks \cup InHand \in SUBSET Serial
    BY UploadOpksDoes, Fields DEF IInv, PrekeysInHand
  <2> QED BY <1>2, <2>1, Typed, OpksServed DEF IInv
<1> QED BY <1>1, <1>2, UploadOpksDoes DEF IInv

LEMMA DrainedDoes ==
  ASSUME TypeOK, Drained
  PROVE  /\ cmd.pc = "drain"
         /\ cmd' = Rest \/ (cmd' \in Command /\ cmd'.pc = "connect" /\ cmd'.key = cmd.key)
         /\ store' = store /\ server' = server /\ mail' = mail /\ paper' = paper
         /\ dek' = dek /\ ident' = ident /\ token' = token /\ ws' = ws /\ rx' = rx
         /\ clock' = clock /\ keys' = keys /\ prekeys' = prekeys /\ faults' = faults
         /\ unseen' = unseen
<1>1. cmd.pc = "drain" /\ cmd.why \in {"enrol", "login", "refill"}
  BY Typed, CommandForms DEF Drained, Before
<1>2. Go("connect") => cmd' \in Command /\ cmd'.pc = "connect" /\ cmd'.key = cmd.key
  BY <1>1, Typed, WentOn DEF Step
<1> QED BY <1>1, <1>2 DEF Drained, memory, serials, Stop

LEMMA FinishDoes ==
  ASSUME TypeOK, Finish
  PROVE  /\ cmd.pc \in {"connect", "done"} /\ ws' \in BOOLEAN /\ cmd' = Rest
         /\ store' = store /\ server' = server /\ mail' = mail /\ paper' = paper
         /\ dek' = dek /\ ident' = ident /\ token' = token /\ rx' = rx /\ clock' = clock
         /\ keys' = keys /\ prekeys' = prekeys /\ faults' = faults /\ unseen' = unseen
BY Typed, Bounds
   DEF Finish, serials, memory, Stop, TypeOK

LEMMA BeginLoginDoes ==
  ASSUME TypeOK, NEW p \in Pass, BeginLogin(p)
  PROVE  /\ cmd = Rest /\ Exists /\ dek' = TRUE
         /\ ident' = store.id \/ ident' = ident
         /\ cmd' = Rest \/ (cmd' \in Command /\ cmd'.pc = "sign" /\ cmd'.key = NoKey)
         /\ store' = store /\ server' = server /\ mail' = mail /\ paper' = paper
         /\ token' = token /\ ws' = ws /\ rx' = rx /\ clock' = clock /\ keys' = keys
         /\ prekeys' = prekeys /\ faults' = faults /\ unseen' = unseen
<1>1. /\ Flow("login", "sign", NoPass) \in Command /\ Flow("login", "sign", NoPass).pc = "sign"
      /\ Flow("login", "sign", NoPass).key = NoKey
  BY FlowForm DEF Before, Step, MaybePass
<1> QED BY <1>1 DEF BeginLogin, Begin, serials

LEMMA BeginPurgeDoes ==
  ASSUME TypeOK, NEW p \in Pass, BeginPurge(p)
  PROVE  /\ cmd = Rest /\ store' = NoStore /\ token' = FALSE /\ LockLocal
         /\ cmd' \in Command /\ cmd'.pc = "purge" /\ cmd'.key = store.duress.key
         /\ server' = server /\ mail' = mail /\ paper' = paper /\ clock' = clock
         /\ keys' = keys /\ prekeys' = prekeys /\ faults' = faults /\ unseen' = unseen
<1>1. store.duress.key \in Key
  BY Typed, StoreForms DEF Envelope
<1>2. cmd' = [Flow("purge", "purge", NoPass) EXCEPT !.key = store.duress.key] /\ cmd = Rest
  BY DEF BeginPurge, Begin
<1>3. cmd' \in Command /\ cmd'.pc = "purge" /\ cmd'.key = store.duress.key
  BY <1>1, <1>2, PurgeFlow
<1> QED BY <1>2, <1>3 DEF BeginPurge, serials

LEMMA DeleteAccountDoes ==
  ASSUME TypeOK, NEW o \in Outcome, DeleteAccount(o)
  PROVE  /\ cmd.pc = "purge" /\ faults' \in 0..MaxFaults /\ cmd' = Rest
         /\ \/ server' = server /\ mail' = mail
            \/ server' = NoAccount /\ mail' = {}
         /\ store' = store /\ paper' = paper /\ dek' = dek /\ ident' = ident
         /\ token' = token /\ ws' = ws /\ rx' = rx /\ clock' = clock /\ keys' = keys
         /\ prekeys' = prekeys /\ unseen' = unseen
BY Typed, Bounds, PricedDoes
   DEF DeleteAccount, serials, memory, Stop

LEMMA LogoutDoes ==
  ASSUME TypeOK, NEW o \in Outcome, Logout(o)
  PROVE  /\ faults' \in 0..MaxFaults /\ cmd = Rest /\ cmd' = Rest /\ token' = FALSE
         /\ \/ server' = server
            \/ server' = [server EXCEPT !.live = FALSE]
         /\ \/ LockLocal
            \/ dek' = dek /\ ident' = ident /\ ws' = ws /\ rx' = rx
         /\ store' = store /\ mail' = mail /\ paper' = paper /\ clock' = clock
         /\ keys' = keys /\ prekeys' = prekeys /\ unseen' = unseen
<1>1. faults' \in 0..MaxFaults
  BY PricedDoes DEF Logout
<1> QED BY <1>1 DEF Logout, Begin, serials

LEMMA LogoutSets ==
  ASSUME TypeOK, NEW o \in Outcome, Logout(o)
  PROVE  /\ server' \in Account /\ server'.key = server.key /\ server'.spk = server.spk
         /\ server'.opks = server.opks
         /\ server'.live => server.live
<1>1. CASE server' = server
  BY <1>1, Typed
<1>2. CASE server' = [server EXCEPT !.live = FALSE]
  BY <1>2, Typed, SessionEnds
<1> QED BY <1>1, <1>2, LogoutDoes

LEMMA LockDoes ==
  ASSUME TypeOK, Lock
  PROVE  /\ LockLocal /\ store' = store /\ server' = server /\ mail' = mail
         /\ paper' = paper /\ token' = token /\ cmd' = cmd /\ clock' = clock
         /\ keys' = keys /\ prekeys' = prekeys /\ faults' = faults /\ unseen' = unseen
BY Zenon DEF Lock, serials

LEMMA RotatePassphraseDoes ==
  ASSUME TypeOK, NEW p \in Pass, NEW q \in Pass, RotatePassphrase(p, q)
  PROVE  /\ Exists /\ q # store.duress.pass /\ cmd = Rest /\ cmd' = Rest
         /\ store' = [store EXCEPT !.wrap = q] /\ server' = server /\ mail' = mail
         /\ paper' = paper /\ dek' = dek /\ ident' = ident /\ token' = token /\ ws' = ws
         /\ rx' = rx /\ clock' = clock /\ keys' = keys /\ prekeys' = prekeys
         /\ faults' = faults /\ unseen' = unseen
BY Typed, Bounds
   DEF RotatePassphrase, serials, memory, Begin, Destroys, Rewrapped

LEMMA RotatePassphraseSets ==
  ASSUME TypeOK, NEW p \in Pass, NEW q \in Pass, RotatePassphrase(p, q)
  PROVE  /\ store' \in Store /\ store'.id = store.id /\ store'.spks = store.spks
         /\ store'.opks = store.opks /\ store'.duress = store.duress
         /\ store'.filed = store.filed /\ store'.wrap = q
<1>1. q \in MaybePass
  BY DEF MaybePass
<1> QED BY <1>1, RotatePassphraseDoes, Typed, WrapSet

LEMMA WipeDoes ==
  ASSUME TypeOK, Wipe
  PROVE  /\ cmd = Rest /\ store' = NoStore /\ token' = FALSE /\ LockLocal
         /\ server' = server /\ mail' = mail /\ paper' = paper /\ cmd' = cmd
         /\ clock' = clock /\ keys' = keys /\ prekeys' = prekeys /\ faults' = faults
         /\ unseen' = unseen
BY Typed, Bounds
   DEF Wipe, serials, memory

LEMMA ArmDuressDoes ==
  ASSUME TypeOK, NEW p \in Pass, ArmDuress(p)
  PROVE  /\ dek /\ ident # NoKey /\ p # store.wrap /\ cmd = Rest /\ cmd' = Rest
         /\ store' = [store EXCEPT !.duress = Sealed(p, ident)] /\ server' = server
         /\ mail' = mail /\ paper' = paper /\ dek' = dek /\ ident' = ident
         /\ token' = token /\ ws' = ws /\ rx' = rx /\ clock' = clock /\ keys' = keys
         /\ prekeys' = prekeys /\ faults' = faults /\ unseen' = unseen
BY Typed, Bounds
   DEF ArmDuress, serials, memory, Begin, Unlocks

LEMMA ArmDuressSets ==
  ASSUME TypeOK, NEW p \in Pass, ArmDuress(p)
  PROVE  /\ store' \in Store /\ store'.wrap = store.wrap /\ store'.id = store.id
         /\ store'.spks = store.spks /\ store'.opks = store.opks
         /\ store'.filed = store.filed /\ store'.duress.pass = p
         /\ store'.duress.key = ident
<1>1. Sealed(p, ident) \in Envelope /\ Sealed(p, ident).pass = p /\ Sealed(p, ident).key = ident
  BY Typed DEF Sealed, Envelope, MaybePass
<1> QED BY <1>1, ArmDuressDoes, Typed, DuressSet

LEMMA DisarmDuressDoes ==
  ASSUME TypeOK, DisarmDuress
  PROVE  /\ dek /\ cmd = Rest /\ cmd' = Rest /\ store' = [store EXCEPT !.duress = Decoy]
         /\ server' = server /\ mail' = mail /\ paper' = paper /\ dek' = dek
         /\ ident' = ident /\ token' = token /\ ws' = ws /\ rx' = rx /\ clock' = clock
         /\ keys' = keys /\ prekeys' = prekeys /\ faults' = faults /\ unseen' = unseen
BY Typed, Bounds
   DEF DisarmDuress, serials, memory, Begin

LEMMA DisarmDuressSets ==
  ASSUME TypeOK, DisarmDuress
  PROVE  /\ store' \in Store /\ store'.wrap = store.wrap /\ store'.id = store.id
         /\ store'.spks = store.spks /\ store'.opks = store.opks
         /\ store'.filed = store.filed /\ store'.duress = Decoy
BY DisarmDuressDoes, Typed, DecoyForm, DuressSet

LEMMA ReceiveDoes ==
  ASSUME TypeOK, NEW e \in mail, Receive(e)
  PROVE  /\ token /\ server.live /\ rx = Idle /\ rx' \in Answering /\ rx'.env = e
         /\ rx'.stale = FALSE /\ store' = store /\ server' = server /\ mail' = mail
         /\ paper' = paper /\ dek' = dek /\ ident' = ident /\ token' = token /\ ws' = ws
         /\ cmd' = cmd /\ clock' = clock /\ keys' = keys /\ prekeys' = prekeys
         /\ faults' = faults /\ unseen' = unseen
BY Typed, Bounds
   DEF Receive, serials, memory, Listening, Answering

LEMMA RespondDoes ==
  ASSUME TypeOK, Respond
  PROVE  /\ rx \in Answering
         /\ rx' = Idle \/ (rx' \in Answering /\ rx'.env = rx.env /\ rx'.stale = rx.stale)
         /\ mail' = mail \/ mail' = mail \ {rx.env}
         /\ \/ store' = store
            \/ /\ ~rx.stale
               /\ store' = [store EXCEPT !.opks = store.opks \ {rx.env.opk}]
         /\ server' = server /\ paper' = paper /\ dek' = dek /\ ident' = ident
         /\ token' = token /\ ws' = ws /\ cmd' = cmd /\ clock' = clock /\ keys' = keys
         /\ prekeys' = prekeys /\ faults' = faults /\ unseen' = unseen
<1>1. rx \in Answering
  BY Typed, IdleForm DEF Respond
<1>2. rx' = Idle \/ rx' = [rx EXCEPT !.pc = "opened"]
  BY DEF Respond
<1>3. rx' = Idle \/ (rx' \in Answering /\ rx'.env = rx.env /\ rx'.stale = rx.stale)
  BY <1>1, <1>2 DEF Answering
<1>4. rx.stale \in BOOLEAN
  BY <1>1, AnsweringForms
<1> QED BY <1>1, <1>3, <1>4 DEF Respond, serials

LEMMA RespondSets ==
  ASSUME TypeOK, Respond
  PROVE  /\ store' \in Store /\ store'.wrap = store.wrap /\ store'.id = store.id
         /\ store'.spks = store.spks /\ store'.duress = store.duress
         /\ store'.filed = store.filed
         /\ \/ store' = store
            \/ ~rx.stale /\ store'.opks = store.opks \ {rx.env.opk}
<1>1. CASE store' = store
  BY <1>1, Typed
<1>2. CASE ~rx.stale /\ store' = [store EXCEPT !.opks = store.opks \ {rx.env.opk}]
  <2>1. store.opks \ {rx.env.opk} \in SUBSET Serial
    BY Fields
  <2> QED BY SMTT(20), <1>2, <2>1, Typed, OpksSet
<1> QED BY <1>1, <1>2, RespondDoes

LEMMA FileDoes ==
  ASSUME TypeOK, File
  PROVE  /\ rx \in Answering /\ rx' = Idle
         /\ mail' = mail \/ mail' = mail \ {rx.env}
         /\ \/ store' = store
            \/ /\ dek /\ ~rx.stale
               /\ store' = [store EXCEPT !.filed = store.filed \cup {rx.env.key}]
         /\ server' = server /\ paper' = paper /\ dek' = dek /\ ident' = ident
         /\ token' = token /\ ws' = ws /\ cmd' = cmd /\ clock' = clock /\ keys' = keys
         /\ prekeys' = prekeys /\ faults' = faults /\ unseen' = unseen
BY Typed, Bounds, AnsweringForms, IdleForm
   DEF File, serials, memory

LEMMA FileSets ==
  ASSUME TypeOK, File
  PROVE  /\ store' \in Store /\ store'.wrap = store.wrap /\ store'.id = store.id
         /\ store'.spks = store.spks /\ store'.opks = store.opks
         /\ store'.duress = store.duress
         /\ \/ store' = store
            \/ dek /\ ~rx.stale /\ store'.filed = store.filed \cup {rx.env.key}
<1>1. CASE store' = store
  BY <1>1, Typed
<1>2. CASE dek /\ ~rx.stale /\ store' = [store EXCEPT !.filed = store.filed \cup {rx.env.key}]
  <2>1. store.filed \cup {rx.env.key} \in SUBSET Key
    <3>1. rx.env.key \in Key
      BY FileDoes, AnsweringForms
    <3> QED BY <3>1, Fields
  <2> QED BY <1>2, <2>1, Typed, FiledSet
<1> QED BY <1>1, <1>2, FileDoes

LEMMA PeerWritesDoes ==
  ASSUME TypeOK, PeerWrites
  PROVE  /\ server.spk # NoSpk
         /\ \E opk \in server.opks \cup {NoKey} :
              /\ server.opks # {} => opk \in server.opks
              /\ server' = [server EXCEPT !.opks = server.opks \ {opk}]
              /\ mail' = mail \cup {[key |-> server.key, spk |-> server.spk, opk |-> opk, at |-> clock]}
         /\ store' = store /\ paper' = paper /\ dek' = dek /\ ident' = ident
         /\ token' = token /\ ws' = ws /\ rx' = rx /\ cmd' = cmd /\ clock' = clock
         /\ keys' = keys /\ prekeys' = prekeys /\ faults' = faults /\ unseen' = unseen
BY Typed, Bounds
   DEF PeerWrites, serials, memory

LEMMA PeerWritesSets ==
  ASSUME TypeOK, PeerWrites
  PROVE  /\ server' \in Account /\ server'.key = server.key /\ server'.spk = server.spk
         /\ server'.live = server.live /\ server.spk # NoSpk
         /\ \E opk \in server.opks \cup {NoKey} :
              /\ server'.opks = server.opks \ {opk}
              /\ mail' = mail \cup {[key |-> server.key, spk |-> server.spk, opk |-> opk, at |-> clock]}
<1>1. PICK opk \in server.opks \cup {NoKey} :
        /\ server' = [server EXCEPT !.opks = server.opks \ {opk}]
        /\ mail' = mail \cup {[key |-> server.key, spk |-> server.spk, opk |-> opk, at |-> clock]}
  BY PeerWritesDoes
<1>2. server.opks \ {opk} \in SUBSET Serial
  BY Fields
<1>3. server' \in Account /\ server'.key = server.key /\ server'.spk = server.spk
      /\ server'.live = server.live /\ server'.opks = server.opks \ {opk}
  BY <1>1, <1>2, Typed, OpksServed
<1> QED BY <1>1, <1>3, PeerWritesDoes

LEMMA RecoverElsewhereDoes ==
  ASSUME TypeOK, RecoverElsewhere
  PROVE  /\ server.key # NoKey /\ paper = server.key /\ keys' = keys + 1
         /\ keys + 1 \in Key /\ paper' = keys + 1 /\ server' = Enrolled(keys + 1)
         /\ mail' = {} /\ store' = store /\ dek' = dek /\ ident' = ident /\ token' = token
         /\ ws' = ws /\ rx' = rx /\ cmd' = cmd /\ clock' = clock /\ prekeys' = prekeys
         /\ faults' = faults /\ unseen' = unseen
BY Typed, Bounds
   DEF RecoverElsewhere, serials, memory, Key

LEMMA RecoverElsewhereSets ==
  ASSUME TypeOK, RecoverElsewhere
  PROVE  /\ server' \in Account /\ server'.key = keys + 1 /\ server'.spk = NoSpk /\ server'.opks = {} /\ server'.live = FALSE
BY RecoverElsewhereDoes, EnrolledForm

LEMMA SessionExpiresDoes ==
  ASSUME TypeOK, SessionExpires
  PROVE  /\ server.live /\ server' = [server EXCEPT !.live = FALSE] /\ store' = store
         /\ mail' = mail /\ paper' = paper /\ dek' = dek /\ ident' = ident
         /\ token' = token /\ ws' = ws /\ rx' = rx /\ cmd' = cmd /\ clock' = clock
         /\ keys' = keys /\ prekeys' = prekeys /\ faults' = faults /\ unseen' = unseen
BY Typed, Bounds
   DEF SessionExpires, serials, memory

LEMMA SessionExpiresSets ==
  ASSUME TypeOK, SessionExpires
  PROVE  /\ server' \in Account /\ server'.key = server.key /\ server'.spk = server.spk
         /\ server'.opks = server.opks /\ server'.live = FALSE
BY SessionExpiresDoes, Typed, SessionEnds

LEMMA TickDoes ==
  ASSUME TypeOK, Tick
  PROVE  /\ cmd = Rest /\ rx = Idle /\ clock' = clock + 1 /\ clock + 1 \in Instant
         /\ mail' \subseteq mail /\ store' = store /\ server' = server /\ paper' = paper
         /\ dek' = dek /\ ident' = ident /\ token' = token /\ ws' = ws /\ rx' = rx
         /\ cmd' = cmd /\ keys' = keys /\ prekeys' = prekeys /\ faults' = faults
         /\ unseen' = unseen
BY Typed, Bounds
   DEF Tick, serials, memory, Instant

LEMMA CloseDoes ==
  ASSUME TypeOK, Close
  PROVE  /\ faults' \in 0..MaxFaults /\ dek' = FALSE /\ ident' = NoKey /\ token' = FALSE
         /\ ws' = FALSE /\ rx' = Idle /\ cmd' = Rest
         /\ unseen' = (unseen \/ Untold)
         /\ store' = store /\ server' = server /\ mail' = mail /\ paper' = paper
         /\ clock' = clock /\ keys' = keys /\ prekeys' = prekeys
BY Typed, Bounds
   DEF Close, serials, memory, Stop

-----------------------------------------------------------------------------
(* One-time prekeys named by messages are numbers. *)
LEMMA PriorOpks ==
  ASSUME TypeOK
  PROVE  /\ \A e \in mail : e.opk \in Nat
         /\ rx # Idle => rx.env.opk \in Nat
<1>1. \A e \in Mail : e.opk \in Nat
  BY MailForms, Bounds
<1> QED BY <1>1, Typed, Fields

(* What each action keeps. *)

LEMMA BeginRegisterKeeps ==
  ASSUME IInv, NEW p \in Pass, BeginRegister(p)
  PROVE  IInv'
<1>1. TypeOK
  BY DEF IInv
<1>2. TypeOK'
  BY <1>1, BeginRegisterDoes, Typed, Fields, RestForm, IdleForm, Bounds, NoStoreForm
     DEF IInv, TypeOK, Exists
<1>3. Numbered'
  BY <1>1, BeginRegisterDoes, Typed, Fields, RestForm, IdleForm, Bounds
     DEF IInv, Numbered
<1>4. MemoryMatches'
  BY <1>1, BeginRegisterDoes, Typed, Fields, RestForm, IdleForm
     DEF IInv, MemoryMatches
<1>5. EnrolmentClean'
  BY <1>1, BeginRegisterDoes, Typed, Fields, RestForm, IdleForm, Bounds, NoStoreForm
     DEF IInv, EnrolmentClean, Untold, Exists
<1>6. MailMatches'
  BY <1>1, BeginRegisterDoes, Typed, Fields, RestForm, IdleForm
     DEF IInv, MailMatches
<1>7. PrekeysInHand'
  BY <1>1, BeginRegisterDoes, Typed, Fields, RestForm, IdleForm
     DEF IInv, PrekeysInHand, Exists, InHand
<1>8. PublishedOpens'
  BY <1>1, BeginRegisterDoes, Typed, Fields, RestForm, IdleForm, NoStoreForm
     DEF IInv, PublishedOpens, Exists
<1>9. HandshakesResolve'
  BY <1>1, BeginRegisterDoes, Typed, Fields, RestForm, IdleForm
     DEF IInv, HandshakesResolve
<1>10. AccountKept'
  BY <1>1, BeginRegisterDoes, Typed, Fields, RestForm, IdleForm
     DEF IInv, AccountKept, Untold
<1>11. DuressApart'
  BY <1>1, BeginRegisterDoes, Typed, Fields, RestForm, IdleForm
     DEF IInv, DuressApart
<1>12. NoGhosts'
  BY <1>1, BeginRegisterDoes, Typed, Fields, RestForm, IdleForm
     DEF IInv, NoGhosts
<1> QED BY <1>2, <1>3, <1>4, <1>5, <1>6, <1>7, <1>8, <1>9, <1>10, <1>11, <1>12 DEF IInv

LEMMA BeginRecoverKeeps ==
  ASSUME IInv, NEW p \in Pass, BeginRecover(p)
  PROVE  IInv'
<1>1. TypeOK
  BY DEF IInv
<1>2. TypeOK'
  BY <1>1, BeginRecoverDoes, Typed, Fields, RestForm, IdleForm, Bounds, NoStoreForm
     DEF IInv, TypeOK, Exists
<1>3. Numbered'
  BY <1>1, BeginRecoverDoes, Typed, Fields, RestForm, IdleForm, Bounds
     DEF IInv, Numbered
<1>4. MemoryMatches'
  BY <1>1, BeginRecoverDoes, Typed, Fields, RestForm, IdleForm
     DEF IInv, MemoryMatches
<1>5. EnrolmentClean'
  BY <1>1, BeginRecoverDoes, Typed, Fields, RestForm, IdleForm, Bounds, NoStoreForm
     DEF IInv, EnrolmentClean, Untold, Exists
<1>6. MailMatches'
  BY <1>1, BeginRecoverDoes, Typed, Fields, RestForm, IdleForm
     DEF IInv, MailMatches
<1>7. PrekeysInHand'
  BY <1>1, BeginRecoverDoes, Typed, Fields, RestForm, IdleForm
     DEF IInv, PrekeysInHand, Exists, InHand
<1>8. PublishedOpens'
  BY <1>1, BeginRecoverDoes, Typed, Fields, RestForm, IdleForm, NoStoreForm
     DEF IInv, PublishedOpens, Exists
<1>9. HandshakesResolve'
  BY <1>1, BeginRecoverDoes, Typed, Fields, RestForm, IdleForm
     DEF IInv, HandshakesResolve
<1>10. AccountKept'
  BY <1>1, BeginRecoverDoes, Typed, Fields, RestForm, IdleForm
     DEF IInv, AccountKept, Untold
<1>11. DuressApart'
  BY <1>1, BeginRecoverDoes, Typed, Fields, RestForm, IdleForm
     DEF IInv, DuressApart
<1>12. NoGhosts'
  BY <1>1, BeginRecoverDoes, Typed, Fields, RestForm, IdleForm
     DEF IInv, NoGhosts
<1> QED BY <1>2, <1>3, <1>4, <1>5, <1>6, <1>7, <1>8, <1>9, <1>10, <1>11, <1>12 DEF IInv

LEMMA AskRegisterKeeps ==
  ASSUME IInv, NEW o \in Outcome, AskRegister(o)
  PROVE  IInv'
<1>1. TypeOK
  BY DEF IInv
<1>2. TypeOK'
  <2>1. server' \in Account /\ (server'.key = NoKey => server' = NoAccount) /\ mail' \subseteq Mail
    <3>1. keys + 1 # NoKey
      BY <1>1, Typed, Bounds
    <3>2. CASE server' = server
      BY <1>1, <3>2, AskRegisterDoes, Typed
    <3>3. CASE server' \in Account /\ server'.key = keys + 1
      BY <1>1, <3>1, <3>3, AskRegisterDoes, Typed
    <3> QED BY <1>1, <3>2, <3>3, AskRegisterSets
  <2>2. cmd' \in Command /\ unseen' \in BOOLEAN /\ keys' \in Key
    BY <1>1, AskRegisterDoes, RestForm DEF TypeOK
  <2> QED BY <1>1, <2>1, <2>2, AskRegisterDoes DEF TypeOK, Exists
<1>3. Numbered'
  <2>0. /\ keys \in Nat /\ keys' = keys + 1 /\ NoKey = 0 /\ store.id \in Nat /\ server.key \in Nat
        /\ paper \in Nat /\ store.id <= keys /\ server.key <= keys /\ paper <= keys
        /\ server.opks \subseteq 1..prekeys
    BY <1>1, AskRegisterDoes, Typed, Fields, Bounds DEF IInv, Numbered
  <2>1. server'.key <= keys' /\ cmd'.key <= keys' /\ server'.opks \subseteq 1..prekeys
    <3>1. cmd'.key \in {NoKey, keys + 1}
      BY <1>1, AskRegisterDoes, RestForm
    <3>2. server'.key \in {server.key, keys + 1} /\ server'.opks \subseteq server.opks
      BY <1>1, AskRegisterSets
    <3> QED BY <2>0, <3>1, <3>2
  <2>3. store.id <= keys' /\ paper <= keys'
    BY <2>0
  <2>2. mail' \subseteq mail
    BY <1>1, AskRegisterDoes
  <2> QED BY <1>1, <2>1, <2>2, <2>3, AskRegisterDoes DEF IInv, Numbered
<1>4. MemoryMatches'
  BY <1>1, AskRegisterDoes, Typed, Fields, AskRegisterSets, RestForm, IdleForm
     DEF IInv, MemoryMatches
<1>5. EnrolmentClean'
  <2>1. store = NoStore /\ store.id = NoKey /\ ~token /\ ident = NoKey /\ cmd.pass \in Pass
    BY <1>1, AskRegisterDoes, NoStoreForm DEF IInv, EnrolmentClean, MemoryMatches
  <2>2. paper # keys + 1 /\ keys + 1 # NoKey
    BY <1>1, Typed, Fields, Bounds DEF IInv, Numbered
  <2>3. CASE cmd' = Rest
    BY <2>3, RestForm DEF EnrolmentClean, Untold
  <2>4. CASE server' = Enrolled(keys + 1) /\ mail' = {} /\ cmd'.pc = "create"
             /\ cmd'.pass = cmd.pass /\ cmd'.key = keys + 1
    BY <1>1, <2>1, <2>2, <2>4, AskRegisterDoes DEF EnrolmentClean, Untold
  <2> QED BY <1>1, <2>3, <2>4, AskRegisterDoes
<1>6. MailMatches'
  BY <1>1, AskRegisterDoes, Typed, Fields, AskRegisterSets, RestForm, IdleForm
     DEF IInv, MailMatches
<1>7. PrekeysInHand'
  BY <1>1, AskRegisterDoes, Typed, Fields, AskRegisterSets, RestForm, IdleForm
     DEF IInv, PrekeysInHand, Exists, InHand
<1>8. PublishedOpens'
  BY <1>1, AskRegisterDoes, Typed, Fields, AskRegisterSets, RestForm, IdleForm, NoStoreForm
     DEF IInv, PublishedOpens, Exists
<1>9. HandshakesResolve'
  BY <1>1, AskRegisterDoes, Typed, Fields, AskRegisterSets, RestForm, IdleForm
     DEF IInv, HandshakesResolve
<1>10. AccountKept'
  BY <1>1, AskRegisterDoes, Typed, Fields, AskRegisterSets, RestForm, IdleForm
     DEF IInv, AccountKept, Untold
<1>11. DuressApart'
  BY <1>1, AskRegisterDoes, Typed, Fields, AskRegisterSets, RestForm, IdleForm
     DEF IInv, DuressApart
<1>12. NoGhosts'
  BY <1>1, AskRegisterDoes, Typed, Fields, AskRegisterSets, RestForm, IdleForm
     DEF IInv, NoGhosts
<1> QED BY <1>2, <1>3, <1>4, <1>5, <1>6, <1>7, <1>8, <1>9, <1>10, <1>11, <1>12 DEF IInv

LEMMA AskRecoverKeeps ==
  ASSUME IInv, NEW o \in Outcome, AskRecover(o)
  PROVE  IInv'
<1>1. TypeOK
  BY DEF IInv
<1>2. TypeOK'
  <2>1. server' \in Account /\ (server'.key = NoKey => server' = NoAccount) /\ mail' \subseteq Mail
    <3>1. keys + 1 # NoKey
      BY <1>1, Typed, Bounds
    <3>2. CASE server' = server
      BY <1>1, <3>2, AskRecoverDoes, Typed
    <3>3. CASE server' \in Account /\ server'.key = keys + 1
      BY <1>1, <3>1, <3>3, AskRecoverDoes, Typed
    <3> QED BY <1>1, <3>2, <3>3, AskRecoverSets
  <2>2. cmd' \in Command /\ unseen' \in BOOLEAN /\ keys' \in Key /\ token' \in BOOLEAN
    BY <1>1, AskRecoverDoes, RestForm DEF TypeOK
  <2>3. /\ dek' \in BOOLEAN /\ ident' \in Key /\ ws' \in BOOLEAN /\ (dek' => Exists)
        /\ rx' = Idle \/ rx' \in Answering
    BY <1>1, AskRecoverDoes, LockLocalDoes, Bounds DEF TypeOK
  <2> QED BY <1>1, <2>1, <2>2, <2>3, AskRecoverDoes DEF TypeOK, Exists
<1>3. Numbered'
  <2>0. /\ keys \in Nat /\ keys' = keys + 1 /\ NoKey = 0 /\ store.id \in Nat /\ server.key \in Nat
        /\ paper \in Nat /\ store.id <= keys /\ server.key <= keys /\ paper <= keys
        /\ server.opks \subseteq 1..prekeys
    BY <1>1, AskRecoverDoes, Typed, Fields, Bounds DEF IInv, Numbered
  <2>1. server'.key <= keys' /\ cmd'.key <= keys' /\ server'.opks \subseteq 1..prekeys
    <3>1. cmd'.key \in {NoKey, keys + 1}
      BY <1>1, AskRecoverDoes, RestForm
    <3>2. server'.key \in {server.key, keys + 1} /\ server'.opks \subseteq server.opks
      BY <1>1, AskRecoverSets
    <3> QED BY <2>0, <3>1, <3>2
  <2>4. store.id <= keys' /\ paper <= keys'
    BY <2>0
  <2>2. mail' \subseteq mail
    BY <1>1, AskRecoverDoes
  <2>3. rx' # Idle => rx # Idle /\ rx'.env = rx.env
    BY <1>1, AskRecoverDoes, LockLocalDoes
  <2> QED BY <1>1, <2>1, <2>2, <2>3, <2>4, AskRecoverDoes DEF IInv, Numbered
<1>4. MemoryMatches'
  BY <1>1, AskRecoverDoes, Typed, Fields, AskRecoverSets, RestForm, IdleForm, LockLocalDoes
     DEF IInv, MemoryMatches
<1>5. EnrolmentClean'
  <2>1. paper # keys + 1 /\ keys + 1 # NoKey /\ cmd.pass \in Pass
    <3>1. paper # keys + 1 /\ keys + 1 # NoKey
      BY <1>1, Typed, Fields, Bounds DEF IInv, Numbered
    <3>2. cmd.pass \in Pass
      BY <1>1, AskRecoverDoes DEF IInv, EnrolmentClean
    <3> QED BY <3>1, <3>2
  <2>2. CASE cmd' = Rest
    BY <2>2, RestForm DEF EnrolmentClean, Untold
  <2>3. CASE /\ server' = Enrolled(keys + 1) /\ mail' = {}
             /\ cmd'.pc = (IF Exists THEN "wipe" ELSE "create") /\ cmd'.pass = cmd.pass
             /\ cmd'.key = keys + 1 /\ token' = FALSE /\ LockLocal
    <3>1. ident' = NoKey /\ (rx' = Idle \/ rx'.stale)
      BY <1>1, <2>3, LockLocalDoes
    <3>2. cmd'.pc = "create" => store' = NoStore
      BY <1>1, <2>3, AskRecoverDoes, Typed
    <3>3. cmd'.pc \in {"wipe", "create"}
      BY <2>3
    <3> QED BY <1>1, <2>1, <2>3, <3>1, <3>2, <3>3, AskRecoverDoes DEF EnrolmentClean, Untold
  <2> QED BY <1>1, <2>2, <2>3, AskRecoverDoes
<1>6. MailMatches'
  BY <1>1, AskRecoverDoes, Typed, Fields, AskRecoverSets, RestForm, IdleForm, LockLocalDoes
     DEF IInv, MailMatches
<1>7. PrekeysInHand'
  BY <1>1, AskRecoverDoes, Typed, Fields, AskRecoverSets, RestForm, IdleForm, LockLocalDoes
     DEF IInv, PrekeysInHand, Exists, InHand
<1>8. PublishedOpens'
  BY <1>1, AskRecoverDoes, Typed, Fields, AskRecoverSets, RestForm, IdleForm,
     LockLocalDoes, NoStoreForm
     DEF IInv, PublishedOpens, Exists
<1>9. HandshakesResolve'
  BY <1>1, AskRecoverDoes, Typed, Fields, AskRecoverSets, RestForm, IdleForm, LockLocalDoes
     DEF IInv, HandshakesResolve
<1>10. AccountKept'
  BY <1>1, AskRecoverDoes, Typed, Fields, AskRecoverSets, RestForm, IdleForm, LockLocalDoes
     DEF IInv, AccountKept, Untold
<1>11. DuressApart'
  BY <1>1, AskRecoverDoes, Typed, Fields, AskRecoverSets, RestForm, IdleForm, LockLocalDoes
     DEF IInv, DuressApart
<1>12. NoGhosts'
  BY <1>1, AskRecoverDoes, Typed, Fields, AskRecoverSets, RestForm, IdleForm, LockLocalDoes
     DEF IInv, NoGhosts
<1> QED BY <1>2, <1>3, <1>4, <1>5, <1>6, <1>7, <1>8, <1>9, <1>10, <1>11, <1>12 DEF IInv

LEMMA CodeRefusedKeeps ==
  ASSUME IInv, CodeRefused
  PROVE  IInv'
<1>1. TypeOK
  BY DEF IInv
<1>2. TypeOK'
  BY <1>1, CodeRefusedDoes, Typed, Fields, RestForm, IdleForm, Bounds, NoStoreForm
     DEF IInv, TypeOK, Exists
<1>3. Numbered'
  BY <1>1, CodeRefusedDoes, Typed, Fields, RestForm, IdleForm, Bounds
     DEF IInv, Numbered
<1>4. MemoryMatches'
  BY <1>1, CodeRefusedDoes, Typed, Fields, RestForm, IdleForm
     DEF IInv, MemoryMatches
<1>5. EnrolmentClean'
  BY <1>1, CodeRefusedDoes, Typed, Fields, RestForm, IdleForm, Bounds, NoStoreForm
     DEF IInv, EnrolmentClean, Untold, Exists
<1>6. MailMatches'
  BY <1>1, CodeRefusedDoes, Typed, Fields, RestForm, IdleForm
     DEF IInv, MailMatches
<1>7. PrekeysInHand'
  BY <1>1, CodeRefusedDoes, Typed, Fields, RestForm, IdleForm
     DEF IInv, PrekeysInHand, Exists, InHand
<1>8. PublishedOpens'
  BY <1>1, CodeRefusedDoes, Typed, Fields, RestForm, IdleForm, NoStoreForm
     DEF IInv, PublishedOpens, Exists
<1>9. HandshakesResolve'
  BY <1>1, CodeRefusedDoes, Typed, Fields, RestForm, IdleForm
     DEF IInv, HandshakesResolve
<1>10. AccountKept'
  BY <1>1, CodeRefusedDoes, Typed, Fields, RestForm, IdleForm
     DEF IInv, AccountKept, Untold
<1>11. DuressApart'
  BY <1>1, CodeRefusedDoes, Typed, Fields, RestForm, IdleForm
     DEF IInv, DuressApart
<1>12. NoGhosts'
  BY <1>1, CodeRefusedDoes, Typed, Fields, RestForm, IdleForm
     DEF IInv, NoGhosts
<1> QED BY <1>2, <1>3, <1>4, <1>5, <1>6, <1>7, <1>8, <1>9, <1>10, <1>11, <1>12 DEF IInv

LEMMA WipeForRecoverKeeps ==
  ASSUME IInv, WipeForRecover
  PROVE  IInv'
<1>1. TypeOK
  BY DEF IInv
<1>2. TypeOK'
  BY <1>1, WipeForRecoverDoes, Typed, Fields, RestForm, IdleForm, NoStoreForm, Bounds
     DEF IInv, TypeOK, Exists
<1>3. Numbered'
  BY <1>1, WipeForRecoverDoes, Typed, Fields, RestForm, IdleForm, NoStoreForm, Bounds
     DEF IInv, Numbered
<1>4. MemoryMatches'
  BY <1>1, WipeForRecoverDoes, Typed, Fields, RestForm, IdleForm, NoStoreForm
     DEF IInv, MemoryMatches, EnrolmentClean, Untold
<1>5. EnrolmentClean'
  BY <1>1, WipeForRecoverDoes, Typed, Fields, RestForm, IdleForm, NoStoreForm, Bounds
     DEF IInv, EnrolmentClean, Untold, Exists
<1>6. MailMatches'
  BY <1>1, WipeForRecoverDoes, Typed, Fields, RestForm, IdleForm, NoStoreForm
     DEF IInv, MailMatches, EnrolmentClean, Untold
<1>7. PrekeysInHand'
  BY <1>1, WipeForRecoverDoes, Typed, Fields, RestForm, IdleForm, NoStoreForm
     DEF IInv, PrekeysInHand, Exists, InHand
<1>8. PublishedOpens'
  BY <1>1, WipeForRecoverDoes, Typed, Fields, RestForm, IdleForm, NoStoreForm
     DEF IInv, PublishedOpens, Exists
<1>9. HandshakesResolve'
  BY <1>1, WipeForRecoverDoes, Typed, Fields, RestForm, IdleForm, NoStoreForm
     DEF IInv, HandshakesResolve, EnrolmentClean, Untold
<1>10. AccountKept'
  BY <1>1, WipeForRecoverDoes, Typed, Fields, RestForm, IdleForm, NoStoreForm
     DEF IInv, AccountKept, Untold
<1>11. DuressApart'
  BY <1>1, WipeForRecoverDoes, Typed, Fields, RestForm, IdleForm, NoStoreForm
     DEF IInv, DuressApart
<1>12. NoGhosts'
  BY <1>1, WipeForRecoverDoes, Typed, Fields, RestForm, IdleForm, NoStoreForm
     DEF IInv, NoGhosts
<1> QED BY <1>2, <1>3, <1>4, <1>5, <1>6, <1>7, <1>8, <1>9, <1>10, <1>11, <1>12 DEF IInv

LEMMA CreateStoreKeeps ==
  ASSUME IInv, CreateStore
  PROVE  IInv'
<1>1. TypeOK
  BY DEF IInv
<1>2. TypeOK'
  BY <1>1, CreateStoreDoes, Typed, Fields, CreateStoreSets, RestForm, IdleForm, Bounds,
     NoStoreForm
     DEF IInv, TypeOK, Exists, EnrolmentClean
<1>3. Numbered'
  BY <1>1, CreateStoreDoes, Typed, Fields, CreateStoreSets, RestForm, IdleForm, Bounds
     DEF IInv, Numbered
<1>4. MemoryMatches'
  BY <1>1, CreateStoreDoes, Typed, Fields, CreateStoreSets, RestForm, IdleForm
     DEF IInv, MemoryMatches, EnrolmentClean, Untold
<1>5. EnrolmentClean'
  BY <1>1, CreateStoreDoes, Typed, Fields, CreateStoreSets, RestForm, IdleForm, Bounds,
     NoStoreForm
     DEF IInv, EnrolmentClean, Untold, Exists
<1>6. MailMatches'
  BY <1>1, CreateStoreDoes, Typed, Fields, CreateStoreSets, RestForm, IdleForm, NoStoreForm
     DEF IInv, MailMatches, EnrolmentClean, Untold
<1>7. PrekeysInHand'
  BY <1>1, CreateStoreDoes, Typed, Fields, CreateStoreSets, RestForm, IdleForm
     DEF IInv, PrekeysInHand, Exists, InHand
<1>8. PublishedOpens'
  BY <1>1, CreateStoreDoes, Typed, Fields, CreateStoreSets, RestForm, IdleForm, NoStoreForm
     DEF IInv, PublishedOpens, Exists
<1>9. HandshakesResolve'
  BY <1>1, CreateStoreDoes, Typed, Fields, CreateStoreSets, RestForm, IdleForm
     DEF IInv, HandshakesResolve, EnrolmentClean, Untold
<1>10. AccountKept'
  BY <1>1, CreateStoreDoes, Typed, Fields, CreateStoreSets, RestForm, IdleForm
     DEF IInv, AccountKept, Untold
<1>11. DuressApart'
  BY <1>1, CreateStoreDoes, Typed, Fields, CreateStoreSets, RestForm, IdleForm
     DEF IInv, DuressApart
<1>12. NoGhosts'
  BY <1>1, CreateStoreDoes, Typed, Fields, CreateStoreSets, RestForm, IdleForm
     DEF IInv, NoGhosts
<1> QED BY <1>2, <1>3, <1>4, <1>5, <1>6, <1>7, <1>8, <1>9, <1>10, <1>11, <1>12 DEF IInv

LEMMA PutIdentityKeeps ==
  ASSUME IInv, PutIdentity
  PROVE  IInv'
<1>1. TypeOK
  BY DEF IInv
<1>2. /\ store.wrap # NoPass /\ store.id = NoKey /\ store.spks = {} /\ store.opks = {}
      /\ store.duress = Decoy /\ store.filed = {} /\ mail = {} /\ server = Enrolled(cmd.key)
      /\ cmd.key # NoKey /\ paper # cmd.key /\ token = FALSE /\ ident = NoKey
      /\ rx # Idle => rx.stale
  <2>1. /\ Exists /\ store = NewStore(store.wrap) /\ ident = NoKey /\ server = Enrolled(cmd.key)
        /\ mail = {} /\ cmd.key # NoKey /\ paper # cmd.key /\ ~token
    BY PutIdentityDoes, <1>1 DEF IInv, EnrolmentClean, Untold
  <2>2. /\ store.wrap # NoPass /\ store.id = NoKey /\ store.spks = {} /\ store.opks = {}
        /\ store.duress = Decoy /\ store.filed = {}
    BY <1>1, <2>1, Typed, Fields, NewStoreForm
  <2>3. rx # Idle => rx.stale
    BY <2>2 DEF IInv, MailMatches
  <2>4. token = FALSE
    BY <2>1 DEF IInv, TypeOK
  <2> QED BY <2>1, <2>2, <2>3, <2>4
<1>3. /\ server.key = cmd.key /\ server.spk = NoSpk /\ server.opks = {} /\ server.live = FALSE
  BY <1>1, <1>2, Fields, EnrolledForm
<1>4. cmd' = Rest \/ (cmd' \in Command /\ cmd'.pc = "defaults" /\ cmd'.key = cmd.key)
  BY <1>1, PutIdentityDoes
<1>5. TypeOK'
  <2>1. store' \in Store /\ (store'.wrap = NoPass => store' = NoStore) /\ store' # NoStore
    BY <1>1, <1>2, PutIdentitySets, NoStoreForm
  <2>2. cmd' \in Command /\ unseen' \in BOOLEAN
    BY <1>1, <1>4, PutIdentityDoes, RestForm DEF TypeOK
  <2> QED BY <1>1, <2>1, <2>2, PutIdentityDoes DEF TypeOK, Exists
<1>6. Numbered'
  <2>1. cmd'.key <= keys /\ store'.id <= keys
    BY <1>1, <1>4, PutIdentitySets, RestForm, Typed, Bounds DEF IInv, Numbered
  <2> QED BY <1>1, <2>1, PutIdentityDoes, PutIdentitySets DEF IInv, Numbered
<1>7. MemoryMatches'
  BY <1>1, <1>2, <1>4, PutIdentityDoes, RestForm DEF MemoryMatches
<1>8. EnrolmentClean'
  <2>1. CASE cmd' = Rest
    BY <2>1, RestForm DEF EnrolmentClean, Untold
  <2>2. CASE cmd'.pc = "defaults" /\ cmd'.key = cmd.key
    BY <1>1, <1>2, <2>2, PutIdentityDoes, PutIdentitySets DEF EnrolmentClean, Untold
  <2> QED BY <1>4, <2>1, <2>2
<1>9. MailMatches'
  BY <1>1, <1>2, <1>3, PutIdentityDoes DEF IInv, MailMatches
<1>10. PrekeysInHand'
  BY <1>1, PutIdentityDoes, Typed, Fields, PutIdentitySets, RestForm, IdleForm
     DEF IInv, PrekeysInHand, Exists, InHand
<1>11. PublishedOpens'
  BY <1>1, <1>3, PutIdentityDoes DEF PublishedOpens
<1>12. HandshakesResolve'
  BY <1>1, <1>2, PutIdentityDoes DEF HandshakesResolve
<1>13. AccountKept'
  BY <1>1, PutIdentityDoes, Typed, Fields, PutIdentitySets, RestForm, IdleForm
     DEF IInv, AccountKept, Untold
<1>14. DuressApart'
  BY <1>1, <1>2, PutIdentitySets DEF DuressApart
<1>15. NoGhosts'
  BY <1>1, <1>2, PutIdentitySets DEF NoGhosts
<1> QED BY <1>5, <1>6, <1>7, <1>8, <1>9, <1>10, <1>11, <1>12, <1>13, <1>14, <1>15 DEF IInv

LEMMA PutDefaultsKeeps ==
  ASSUME IInv, PutDefaults
  PROVE  IInv'
<1>1. /\ TypeOK /\ cmd \in Command /\ cmd.key \in Key /\ store.id = cmd.key
      /\ server' = server /\ store' = store
  BY PutDefaultsDoes, Typed, CommandForms DEF IInv, EnrolmentClean
<1> DEFINE Shown == /\ ident' = cmd.key /\ paper' = cmd.key /\ unseen' = unseen
                    /\ cmd' \in Command /\ cmd'.pc = "sign" /\ cmd'.key = cmd.key
           CutOff == ident' = ident /\ paper' = paper /\ unseen' = TRUE /\ cmd' = Rest
<1>13. Shown \/ CutOff
  BY <1>1, PutDefaultsDoes
<1>2. TypeOK'
  <2>1. /\ ident' \in Key /\ paper' \in Key /\ unseen' \in BOOLEAN /\ cmd' \in Command
    BY <1>1, <1>13, RestForm DEF TypeOK
  <2>2. UNCHANGED <<store, server, mail, dek, token, ws, rx, clock, keys, prekeys, faults>>
    BY <1>1, PutDefaultsDoes
  <2> HIDE DEF Shown, CutOff
  <2> QED BY <1>1, <2>1, <2>2 DEF TypeOK, Exists
<1>3. Numbered'
  <2>1. paper' <= keys /\ cmd'.key <= keys
    BY <1>1, <1>13, RestForm, Typed, Bounds DEF IInv, Numbered
  <2> QED BY <1>1, <2>1, PutDefaultsDoes DEF IInv, Numbered
<1>4. MemoryMatches'
  <2>1. /\ ident' # NoKey => ident' = store.id
        /\ cmd'.pc # "verify"
    BY <1>1, <1>13, RestForm DEF IInv, MemoryMatches
  <2> QED BY <1>1, <2>1, PutDefaultsDoes DEF IInv, MemoryMatches
<1>5. EnrolmentClean'
  BY <1>1, PutDefaultsDoes, Typed, Fields, RestForm, IdleForm, Bounds, NoStoreForm
     DEF IInv, EnrolmentClean, Untold, Exists
<1>6. MailMatches'
  BY <1>1, PutDefaultsDoes, Typed, Fields, RestForm, IdleForm
     DEF IInv, MailMatches
<1>7. PrekeysInHand'
  BY <1>1, PutDefaultsDoes, Typed, Fields, RestForm, IdleForm
     DEF IInv, PrekeysInHand, Exists, InHand
<1>8. PublishedOpens'
  BY <1>1, PutDefaultsDoes, Typed, Fields, RestForm, IdleForm, NoStoreForm
     DEF IInv, PublishedOpens, Exists
<1>9. HandshakesResolve'
  BY <1>1, PutDefaultsDoes, Typed, Fields, RestForm, IdleForm
     DEF IInv, HandshakesResolve
<1>10. AccountKept'
  <2>1. server = Enrolled(cmd.key)
    BY <1>1, PutDefaultsDoes DEF IInv, EnrolmentClean, Untold
  <2>2. server.key = cmd.key
    BY <1>1, <2>1, Fields, EnrolledForm
  <2>3. CASE paper' = cmd.key \/ unseen'
    BY <1>1, <2>2, <2>3, PutDefaultsDoes DEF AccountKept
  <2> QED BY <1>1, <2>3, PutDefaultsDoes
<1>11. DuressApart'
  BY <1>1, PutDefaultsDoes, Typed, Fields, RestForm, IdleForm
     DEF IInv, DuressApart
<1>12. NoGhosts'
  BY <1>1, PutDefaultsDoes, Typed, Fields, RestForm, IdleForm
     DEF IInv, NoGhosts
<1> QED BY <1>2, <1>3, <1>4, <1>5, <1>6, <1>7, <1>8, <1>9, <1>10, <1>11, <1>12 DEF IInv

LEMMA SignKeeps ==
  ASSUME IInv, NEW o \in Outcome, Sign(o)
  PROVE  IInv'
<1>1. TypeOK
  BY DEF IInv
<1>2. TypeOK'
  BY <1>1, SignDoes, Typed, Fields, RestForm, IdleForm, Bounds, NoStoreForm
     DEF IInv, TypeOK, Exists
<1>3. Numbered'
  BY <1>1, SignDoes, Typed, Fields, RestForm, IdleForm, Bounds
     DEF IInv, Numbered, MemoryMatches
<1>4. MemoryMatches'
  BY <1>1, SignDoes, Typed, Fields, RestForm, IdleForm
     DEF IInv, MemoryMatches
<1>5. EnrolmentClean'
  BY <1>1, SignDoes, Typed, Fields, RestForm, IdleForm, Bounds, NoStoreForm
     DEF IInv, EnrolmentClean, Untold, Exists
<1>6. MailMatches'
  BY <1>1, SignDoes, Typed, Fields, RestForm, IdleForm
     DEF IInv, MailMatches
<1>7. PrekeysInHand'
  BY <1>1, SignDoes, Typed, Fields, RestForm, IdleForm
     DEF IInv, PrekeysInHand, Exists, InHand
<1>8. PublishedOpens'
  BY <1>1, SignDoes, Typed, Fields, RestForm, IdleForm, NoStoreForm
     DEF IInv, PublishedOpens, Exists
<1>9. HandshakesResolve'
  BY <1>1, SignDoes, Typed, Fields, RestForm, IdleForm
     DEF IInv, HandshakesResolve
<1>10. AccountKept'
  BY <1>1, SignDoes, Typed, Fields, RestForm, IdleForm
     DEF IInv, AccountKept, Untold
<1>11. DuressApart'
  BY <1>1, SignDoes, Typed, Fields, RestForm, IdleForm
     DEF IInv, DuressApart
<1>12. NoGhosts'
  BY <1>1, SignDoes, Typed, Fields, RestForm, IdleForm
     DEF IInv, NoGhosts
<1> QED BY <1>2, <1>3, <1>4, <1>5, <1>6, <1>7, <1>8, <1>9, <1>10, <1>11, <1>12 DEF IInv

LEMMA VerifyKeeps ==
  ASSUME IInv, NEW o \in Outcome, Verify(o)
  PROVE  IInv'
<1>1. TypeOK
  BY DEF IInv
<1>2. TypeOK'
  BY <1>1, VerifyDoes, Typed, Fields, VerifySets, RestForm, IdleForm, Bounds, NoStoreForm
     DEF IInv, TypeOK, Exists, Honoured
<1>3. Numbered'
  <2>1. cmd'.key = NoKey
    BY <1>1, VerifyDoes, RestForm
  <2>2. cmd'.key <= keys
    BY <1>1, <2>1, Typed, Bounds
  <2> QED BY <1>1, <2>2, VerifyDoes, VerifySets DEF IInv, Numbered
<1>4. MemoryMatches'
  BY ZenonT(40), <1>1, VerifyDoes, Typed, Fields, VerifySets, RestForm, IdleForm
     DEF IInv, MemoryMatches, Honoured
<1>5. EnrolmentClean'
  BY <1>1, VerifyDoes, Typed, Fields, VerifySets, RestForm, IdleForm, Bounds, NoStoreForm
     DEF IInv, EnrolmentClean, Untold, Exists
<1>6. MailMatches'
  BY <1>1, VerifyDoes, Typed, Fields, VerifySets, RestForm, IdleForm
     DEF IInv, MailMatches
<1>7. PrekeysInHand'
  BY <1>1, VerifyDoes, Typed, Fields, VerifySets, RestForm, IdleForm
     DEF IInv, PrekeysInHand, Exists, InHand
<1>8. PublishedOpens'
  BY <1>1, VerifyDoes, Typed, Fields, VerifySets, RestForm, IdleForm, NoStoreForm
     DEF IInv, PublishedOpens, Exists
<1>9. HandshakesResolve'
  BY <1>1, VerifyDoes, Typed, Fields, VerifySets, RestForm, IdleForm
     DEF IInv, HandshakesResolve
<1>10. AccountKept'
  BY <1>1, VerifyDoes, Typed, Fields, VerifySets, RestForm, IdleForm
     DEF IInv, AccountKept, Untold
<1>11. DuressApart'
  BY <1>1, VerifyDoes, Typed, Fields, VerifySets, RestForm, IdleForm
     DEF IInv, DuressApart
<1>12. NoGhosts'
  BY <1>1, VerifyDoes, Typed, Fields, VerifySets, RestForm, IdleForm
     DEF IInv, NoGhosts
<1> QED BY <1>2, <1>3, <1>4, <1>5, <1>6, <1>7, <1>8, <1>9, <1>10, <1>11, <1>12 DEF IInv

LEMMA KeysStatusKeeps ==
  ASSUME IInv, NEW o \in Outcome, KeysStatus(o)
  PROVE  IInv'
<1>1. TypeOK
  BY DEF IInv
<1>2. TypeOK'
  BY <1>1, KeysStatusDoes, Typed, Fields, RestForm, IdleForm, Bounds, NoStoreForm
     DEF IInv, TypeOK, Exists
<1>3. Numbered'
  <2>1. cmd'.key <= keys
    BY <1>1, KeysStatusDoes, RestForm, Typed, Bounds DEF IInv, Numbered
  <2> QED BY <1>1, <2>1, KeysStatusDoes DEF IInv, Numbered
<1>4. MemoryMatches'
  BY <1>1, KeysStatusDoes, Typed, Fields, RestForm, IdleForm
     DEF IInv, MemoryMatches
<1>5. EnrolmentClean'
  BY <1>1, KeysStatusDoes, Typed, Fields, RestForm, IdleForm, Bounds, NoStoreForm
     DEF IInv, EnrolmentClean, Untold, Exists
<1>6. MailMatches'
  BY <1>1, KeysStatusDoes, Typed, Fields, RestForm, IdleForm
     DEF IInv, MailMatches
<1>7. PrekeysInHand'
  BY <1>1, KeysStatusDoes, Typed, Fields, RestForm, IdleForm
     DEF IInv, PrekeysInHand, Exists, InHand
<1>8. PublishedOpens'
  BY <1>1, KeysStatusDoes, Typed, Fields, RestForm, IdleForm, NoStoreForm
     DEF IInv, PublishedOpens, Exists
<1>9. HandshakesResolve'
  BY <1>1, KeysStatusDoes, Typed, Fields, RestForm, IdleForm
     DEF IInv, HandshakesResolve
<1>10. AccountKept'
  BY <1>1, KeysStatusDoes, Typed, Fields, RestForm, IdleForm
     DEF IInv, AccountKept, Untold
<1>11. DuressApart'
  BY <1>1, KeysStatusDoes, Typed, Fields, RestForm, IdleForm
     DEF IInv, DuressApart
<1>12. NoGhosts'
  BY <1>1, KeysStatusDoes, Typed, Fields, RestForm, IdleForm
     DEF IInv, NoGhosts
<1> QED BY <1>2, <1>3, <1>4, <1>5, <1>6, <1>7, <1>8, <1>9, <1>10, <1>11, <1>12 DEF IInv

LEMMA BeginRefillKeeps ==
  ASSUME IInv, BeginRefill
  PROVE  IInv'
<1>1. TypeOK
  BY DEF IInv
<1>2. TypeOK'
  BY <1>1, BeginRefillDoes, Typed, Fields, RestForm, IdleForm, Bounds, NoStoreForm
     DEF IInv, TypeOK, Exists
<1>3. Numbered'
  BY <1>1, BeginRefillDoes, Typed, Fields, RestForm, IdleForm, Bounds
     DEF IInv, Numbered
<1>4. MemoryMatches'
  BY <1>1, BeginRefillDoes, Typed, Fields, RestForm, IdleForm
     DEF IInv, MemoryMatches
<1>5. EnrolmentClean'
  BY <1>1, BeginRefillDoes, Typed, Fields, RestForm, IdleForm, Bounds, NoStoreForm
     DEF IInv, EnrolmentClean, Untold, Exists
<1>6. MailMatches'
  BY <1>1, BeginRefillDoes, Typed, Fields, RestForm, IdleForm
     DEF IInv, MailMatches
<1>7. PrekeysInHand'
  BY <1>1, BeginRefillDoes, Typed, Fields, RestForm, IdleForm
     DEF IInv, PrekeysInHand, Exists, InHand
<1>8. PublishedOpens'
  BY <1>1, BeginRefillDoes, Typed, Fields, RestForm, IdleForm, NoStoreForm
     DEF IInv, PublishedOpens, Exists
<1>9. HandshakesResolve'
  BY <1>1, BeginRefillDoes, Typed, Fields, RestForm, IdleForm
     DEF IInv, HandshakesResolve
<1>10. AccountKept'
  BY <1>1, BeginRefillDoes, Typed, Fields, RestForm, IdleForm
     DEF IInv, AccountKept, Untold
<1>11. DuressApart'
  BY <1>1, BeginRefillDoes, Typed, Fields, RestForm, IdleForm
     DEF IInv, DuressApart
<1>12. NoGhosts'
  BY <1>1, BeginRefillDoes, Typed, Fields, RestForm, IdleForm
     DEF IInv, NoGhosts
<1> QED BY <1>2, <1>3, <1>4, <1>5, <1>6, <1>7, <1>8, <1>9, <1>10, <1>11, <1>12 DEF IInv

LEMMA PersistSpkKeeps ==
  ASSUME IInv, PersistSpk
  PROVE  IInv'
<1>1. TypeOK
  BY DEF IInv
<1>2. TypeOK'
  BY <1>1, PersistSpkDoes, Typed, Fields, PersistSpkSets, RestForm, IdleForm, Bounds,
     NoStoreForm
     DEF IInv, TypeOK, Exists
<1>3. Numbered'
  <2>1. cmd'.key <= keys /\ prekeys <= prekeys' /\ prekeys' \in Nat
    BY <1>1, PersistSpkDoes, RestForm, Typed, Bounds DEF IInv, Numbered
  <2>2. \A s \in store'.spks : s.n <= prekeys'
    BY <1>1, PersistSpkDoes, PersistSpkSets, Typed, Fields, SpkForms, Bounds DEF IInv, Numbered
  <2>3. store'.opks \subseteq 1..prekeys' /\ server'.opks \subseteq 1..prekeys'
    BY <1>1, <2>1, PersistSpkDoes, PersistSpkSets, Typed DEF IInv, Numbered
  <2>4. /\ \A e \in mail : e.opk <= prekeys'
        /\ rx # Idle => rx.env.opk <= prekeys'
    BY <1>1, <2>1, PriorOpks, Typed DEF IInv, Numbered
  <2> QED BY <1>1, <2>1, <2>2, <2>3, <2>4, PersistSpkDoes, PersistSpkSets DEF IInv, Numbered
<1>4. MemoryMatches'
  BY <1>1, PersistSpkDoes, Typed, Fields, PersistSpkSets, RestForm, IdleForm
     DEF IInv, MemoryMatches
<1>5. EnrolmentClean'
  BY <1>1, PersistSpkDoes, Typed, Fields, PersistSpkSets, RestForm, IdleForm, Bounds,
     NoStoreForm
     DEF IInv, EnrolmentClean, Untold, Exists
<1>6. MailMatches'
  BY <1>1, PersistSpkDoes, Typed, Fields, PersistSpkSets, RestForm, IdleForm
     DEF IInv, MailMatches
<1>7. PrekeysInHand'
  <2>1. CASE cmd' = Rest
    BY <2>1, RestForm DEF PrekeysInHand
  <2>2. CASE cmd' # Rest
    <3>1. dek /\ cmd'.pc = "uploadSpk" /\ prekeys' = prekeys + 1 /\ clock' = clock
      BY <1>1, <2>2, PersistSpkDoes
    <3>2. store'.spks = store.spks \cup {[n |-> prekeys + 1, at |-> clock]}
      BY <1>1, <2>2, PersistSpkSets
    <3>3. store'.wrap # NoPass
      BY <1>1, <3>1, PersistSpkSets, Typed
    <3>4. \A s \in store.spks : s.n # prekeys + 1
      BY <1>1, Typed, Fields, SpkForms, Bounds DEF IInv, Numbered
    <3> QED BY <3>1, <3>2, <3>3, <3>4, NoStoreForm DEF PrekeysInHand, Exists
  <2> QED BY <2>1, <2>2
<1>8. PublishedOpens'
  BY <1>1, PersistSpkDoes, Typed, Fields, PersistSpkSets, RestForm, IdleForm, NoStoreForm
     DEF IInv, PublishedOpens, Exists
<1>9. HandshakesResolve'
  BY <1>1, PersistSpkDoes, Typed, Fields, PersistSpkSets, RestForm, IdleForm
     DEF IInv, HandshakesResolve
<1>10. AccountKept'
  BY <1>1, PersistSpkDoes, Typed, Fields, PersistSpkSets, RestForm, IdleForm
     DEF IInv, AccountKept, Untold
<1>11. DuressApart'
  BY <1>1, PersistSpkDoes, Typed, Fields, PersistSpkSets, RestForm, IdleForm
     DEF IInv, DuressApart
<1>12. NoGhosts'
  BY <1>1, PersistSpkDoes, Typed, Fields, PersistSpkSets, RestForm, IdleForm
     DEF IInv, NoGhosts
<1> QED BY <1>2, <1>3, <1>4, <1>5, <1>6, <1>7, <1>8, <1>9, <1>10, <1>11, <1>12 DEF IInv

LEMMA UploadSpkKeeps ==
  ASSUME IInv, NEW o \in Outcome, UploadSpk(o)
  PROVE  IInv'
<1>1. TypeOK
  BY DEF IInv
<1>2. TypeOK'
  BY <1>1, UploadSpkDoes, Typed, Fields, UploadSpkSets, RestForm, IdleForm, Bounds,
     NoStoreForm, NoAccountForm
     DEF IInv, TypeOK, Exists, Standing
<1>3. Numbered'
  BY <1>1, UploadSpkDoes, Typed, Fields, UploadSpkSets, RestForm, IdleForm, Bounds
     DEF IInv, Numbered
<1>4. MemoryMatches'
  BY <1>1, UploadSpkDoes, Typed, Fields, UploadSpkSets, RestForm, IdleForm
     DEF IInv, MemoryMatches
<1>5. EnrolmentClean'
  BY <1>1, UploadSpkDoes, Typed, Fields, UploadSpkSets, RestForm, IdleForm, Bounds,
     NoStoreForm
     DEF IInv, EnrolmentClean, Untold, Exists
<1>6. MailMatches'
  BY <1>1, UploadSpkDoes, Typed, Fields, UploadSpkSets, RestForm, IdleForm
     DEF IInv, MailMatches
<1>7. PrekeysInHand'
  <2>1. CASE cmd' = Rest
    BY <2>1, RestForm DEF PrekeysInHand
  <2>2. CASE cmd' # Rest
    <3>1. cmd'.pc = "prune" /\ clock' = clock /\ store' = store
      BY <1>1, <2>2, UploadSpkDoes
    <3>2. server'.spk = Newest
      BY <2>2, UploadSpkSets
    <3>3. server'.spk.at = clock
      BY <1>1, <3>2, NewestIs, UploadSpkDoes
    <3>4. Exists
      BY <1>1, UploadSpkDoes DEF IInv, PrekeysInHand
    <3> QED BY <3>1, <3>3, <3>4 DEF PrekeysInHand, Exists
  <2> QED BY <2>1, <2>2
<1>8. PublishedOpens'
  <2>1. server'.spk = server.spk \/ server'.spk \in store.spks
    BY <1>1, UploadSpkDoes, UploadSpkSets, NewestIs
  <2> QED BY <1>1, <2>1, UploadSpkDoes, UploadSpkSets DEF IInv, PublishedOpens, Exists
<1>9. HandshakesResolve'
  BY <1>1, UploadSpkDoes, Typed, Fields, UploadSpkSets, RestForm, IdleForm
     DEF IInv, HandshakesResolve
<1>10. AccountKept'
  BY <1>1, UploadSpkDoes, Typed, Fields, UploadSpkSets, RestForm, IdleForm
     DEF IInv, AccountKept, Untold
<1>11. DuressApart'
  BY <1>1, UploadSpkDoes, Typed, Fields, UploadSpkSets, RestForm, IdleForm
     DEF IInv, DuressApart
<1>12. NoGhosts'
  BY <1>1, UploadSpkDoes, Typed, Fields, UploadSpkSets, RestForm, IdleForm
     DEF IInv, NoGhosts
<1> QED BY <1>2, <1>3, <1>4, <1>5, <1>6, <1>7, <1>8, <1>9, <1>10, <1>11, <1>12 DEF IInv

LEMMA PruneKeeps ==
  ASSUME IInv, Prune
  PROVE  IInv'
<1>1. TypeOK
  BY DEF IInv
<1>2. TypeOK'
  <2>1. Exists
    BY <1>1, PruneDoes DEF IInv, PrekeysInHand
  <2> QED BY <1>1, <2>1, PruneDoes, PruneSets, Typed, NoStoreForm DEF TypeOK, Exists
<1>3. Numbered'
  BY <1>1, PruneDoes, Typed, Fields, PruneSets, RestForm, IdleForm, Bounds
     DEF IInv, Numbered
<1>4. MemoryMatches'
  BY <1>1, PruneDoes, Typed, Fields, PruneSets, RestForm, IdleForm
     DEF IInv, MemoryMatches
<1>5. EnrolmentClean'
  BY <1>1, PruneDoes, Typed, Fields, PruneSets, RestForm, IdleForm, Bounds, NoStoreForm
     DEF IInv, EnrolmentClean, Untold, Exists
<1>6. MailMatches'
  BY <1>1, PruneDoes, Typed, Fields, PruneSets, RestForm, IdleForm
     DEF IInv, MailMatches
<1>7. PrekeysInHand'
  BY <1>1, PruneDoes, Typed, Fields, PruneSets, RestForm, IdleForm
     DEF IInv, PrekeysInHand, Exists, InHand
<1>8. PublishedOpens'
  <2>1. server.key = store.id /\ server.spk \in store.spks => Kept(server.spk)
    <3>1. server.key = store.id => server.spk.at = clock
      BY <1>1, PruneDoes DEF IInv, PrekeysInHand
    <3> QED BY <1>1, <3>1, Typed, Bounds DEF Kept
  <2> QED BY <1>1, <2>1, PruneDoes, PruneSets, Typed DEF IInv, PublishedOpens
<1>9. HandshakesResolve'
  BY <1>1, PruneDoes, PruneSets DEF IInv, HandshakesResolve, Kept
<1>10. AccountKept'
  BY <1>1, PruneDoes, Typed, Fields, PruneSets, RestForm, IdleForm
     DEF IInv, AccountKept, Untold
<1>11. DuressApart'
  BY <1>1, PruneDoes, Typed, Fields, PruneSets, RestForm, IdleForm
     DEF IInv, DuressApart
<1>12. NoGhosts'
  BY <1>1, PruneDoes, Typed, Fields, PruneSets, RestForm, IdleForm
     DEF IInv, NoGhosts
<1> QED BY <1>2, <1>3, <1>4, <1>5, <1>6, <1>7, <1>8, <1>9, <1>10, <1>11, <1>12 DEF IInv

LEMMA PersistOpksKeeps ==
  ASSUME IInv, PersistOpks
  PROVE  IInv'
<1>1. TypeOK
  BY DEF IInv
<1>2. TypeOK'
  BY <1>1, PersistOpksDoes, Typed, Fields, PersistOpksSets, RestForm, IdleForm, Bounds,
     NoStoreForm
     DEF IInv, TypeOK, Exists
<1>3. Numbered'
  <2>1. CASE cmd' = Rest /\ prekeys' = prekeys
    BY <1>1, <2>1, PersistOpksDoes, PersistOpksSets, RestForm, Typed, Bounds DEF IInv, Numbered
  <2>2. CASE cmd' # Rest
    <3>1. cmd'.key = cmd.key /\ cmd'.opks \in Nat /\ prekeys' = prekeys + cmd'.opks
      BY <1>1, <2>2, PersistOpksDoes, CommandForms, Bounds
    <3>2. prekeys <= prekeys' /\ prekeys' \in Nat
      BY <1>1, <3>1, Typed
    <3>3. Made(cmd'.opks) \subseteq 1..prekeys'
      BY <1>1, <3>1, Typed DEF Made
    <3>4. store'.opks \subseteq 1..prekeys' /\ server'.opks \subseteq 1..prekeys'
      <4>1. store.opks \subseteq 1..prekeys' /\ server.opks \subseteq 1..prekeys'
        BY <1>1, <3>2, Typed DEF IInv, Numbered
      <4> QED BY <1>1, <2>2, <3>3, <4>1, PersistOpksDoes, PersistOpksSets
    <3>5. \A s \in store'.spks : s.n <= prekeys'
      <4>1. \A s \in store.spks : s.n \in Nat /\ s.n <= prekeys
        BY <1>1, Fields, SpkForms, Bounds DEF IInv, Numbered
      <4> QED BY <1>1, <3>2, <4>1, PersistOpksSets, Typed
    <3>6. /\ \A e \in mail : e.opk <= prekeys'
          /\ rx # Idle => rx.env.opk <= prekeys'
      BY <1>1, <3>2, PriorOpks, Typed DEF IInv, Numbered
    <3>7. /\ store'.id = store.id /\ server' = server /\ paper' = paper /\ keys' = keys
          /\ mail' = mail /\ rx' = rx
      BY <1>1, PersistOpksDoes, PersistOpksSets
    <3>8. store'.id <= keys' /\ server'.key <= keys' /\ paper' <= keys' /\ cmd'.key <= keys'
      BY <3>1, <3>7 DEF IInv, Numbered
    <3>9. /\ \A e \in mail' : e.opk <= prekeys'
          /\ rx' # Idle => rx'.env.opk <= prekeys'
      BY <3>6, <3>7
    <3> QED BY <3>4, <3>5, <3>8, <3>9 DEF Numbered
  <2> QED BY <1>1, <2>1, <2>2, PersistOpksDoes, RestForm, CommandForms
<1>4. MemoryMatches'
  BY <1>1, PersistOpksDoes, Typed, Fields, PersistOpksSets, RestForm, IdleForm
     DEF IInv, MemoryMatches
<1>5. EnrolmentClean'
  BY <1>1, PersistOpksDoes, Typed, Fields, PersistOpksSets, RestForm, IdleForm, Bounds,
     NoStoreForm
     DEF IInv, EnrolmentClean, Untold, Exists
<1>6. MailMatches'
  BY <1>1, PersistOpksDoes, Typed, Fields, PersistOpksSets, RestForm, IdleForm
     DEF IInv, MailMatches
<1>7. PrekeysInHand'
  <2>1. CASE cmd' = Rest
    BY <2>1, RestForm DEF PrekeysInHand
  <2>2. CASE cmd' # Rest
    <3>1. /\ cmd'.pc = "uploadOpks" /\ cmd'.opks \in Nat /\ prekeys' = prekeys + cmd'.opks
          /\ server' = server /\ mail' = mail /\ rx' = rx
      BY <1>1, <2>2, PersistOpksDoes, CommandForms, Bounds
    <3>2. store'.opks = store.opks \cup Made(cmd'.opks)
      BY <1>1, <2>2, PersistOpksSets
    <3>3. InHand' = Made(cmd'.opks)
      BY <1>1, <3>1, Typed DEF InHand, Made
    <3>4. \A n \in Made(cmd'.opks) : n > prekeys
      BY <1>1, <3>1, Typed DEF Made
    <3>5. server.opks \cap Made(cmd'.opks) = {}
      BY <1>1, <3>4, Typed DEF IInv, Numbered
    <3>6. /\ \A e \in mail : e.opk \notin Made(cmd'.opks)
          /\ rx # Idle => rx.env.opk \notin Made(cmd'.opks)
      BY <1>1, <3>4, PriorOpks, Typed DEF IInv, Numbered
    <3>7. cmd'.opks <= prekeys'
      BY <1>1, <3>1, Typed
    <3> QED BY <3>1, <3>2, <3>3, <3>5, <3>6, <3>7 DEF PrekeysInHand
  <2> QED BY <2>1, <2>2
<1>8. PublishedOpens'
  BY <1>1, PersistOpksDoes, Typed, Fields, PersistOpksSets, RestForm, IdleForm, NoStoreForm
     DEF IInv, PublishedOpens, Exists
<1>9. HandshakesResolve'
  BY <1>1, PersistOpksDoes, Typed, Fields, PersistOpksSets, RestForm, IdleForm
     DEF IInv, HandshakesResolve
<1>10. AccountKept'
  BY <1>1, PersistOpksDoes, Typed, Fields, PersistOpksSets, RestForm, IdleForm
     DEF IInv, AccountKept, Untold
<1>11. DuressApart'
  BY <1>1, PersistOpksDoes, Typed, Fields, PersistOpksSets, RestForm, IdleForm
     DEF IInv, DuressApart
<1>12. NoGhosts'
  BY <1>1, PersistOpksDoes, Typed, Fields, PersistOpksSets, RestForm, IdleForm
     DEF IInv, NoGhosts
<1> QED BY <1>2, <1>3, <1>4, <1>5, <1>6, <1>7, <1>8, <1>9, <1>10, <1>11, <1>12 DEF IInv

LEMMA UploadOpksKeeps ==
  ASSUME IInv, NEW o \in Outcome, UploadOpks(o)
  PROVE  IInv'
<1>1. TypeOK
  BY DEF IInv
<1>2. TypeOK'
  BY <1>1, UploadOpksDoes, Typed, Fields, UploadOpksSets, RestForm, IdleForm, Bounds,
     NoStoreForm, NoAccountForm
     DEF IInv, TypeOK, Exists, Standing
<1>3. Numbered'
  <2>1. cmd'.key <= keys
    BY <1>1, UploadOpksDoes, RestForm, Typed, Bounds DEF IInv, Numbered
  <2>2. server'.opks \subseteq 1..prekeys
    BY <1>1, UploadOpksDoes, UploadOpksSets DEF IInv, Numbered, PrekeysInHand
  <2> QED BY <1>1, <2>1, <2>2, UploadOpksDoes, UploadOpksSets DEF IInv, Numbered
<1>4. MemoryMatches'
  BY <1>1, UploadOpksDoes, Typed, Fields, UploadOpksSets, RestForm, IdleForm
     DEF IInv, MemoryMatches
<1>5. EnrolmentClean'
  BY <1>1, UploadOpksDoes, Typed, Fields, UploadOpksSets, RestForm, IdleForm, Bounds,
     NoStoreForm
     DEF IInv, EnrolmentClean, Untold, Exists
<1>6. MailMatches'
  <2>1. /\ \A e \in mail : e.opk \notin InHand
        /\ rx # Idle => rx.env.opk \notin InHand
    BY <1>1, UploadOpksDoes DEF IInv, PrekeysInHand
  <2> QED BY <1>1, <2>1, UploadOpksDoes, UploadOpksSets DEF IInv, MailMatches
<1>7. PrekeysInHand'
  BY <1>1, UploadOpksDoes, Typed, Fields, UploadOpksSets, RestForm, IdleForm
     DEF IInv, PrekeysInHand, Exists, InHand
<1>8. PublishedOpens'
  <2>1. InHand \subseteq store.opks
    BY <1>1, UploadOpksDoes DEF IInv, PrekeysInHand
  <2> QED BY <1>1, <2>1, UploadOpksDoes, UploadOpksSets DEF IInv, PublishedOpens, Exists
<1>9. HandshakesResolve'
  BY <1>1, UploadOpksDoes, Typed, Fields, UploadOpksSets, RestForm, IdleForm
     DEF IInv, HandshakesResolve
<1>10. AccountKept'
  BY <1>1, UploadOpksDoes, Typed, Fields, UploadOpksSets, RestForm, IdleForm
     DEF IInv, AccountKept, Untold
<1>11. DuressApart'
  BY <1>1, UploadOpksDoes, Typed, Fields, UploadOpksSets, RestForm, IdleForm
     DEF IInv, DuressApart
<1>12. NoGhosts'
  BY <1>1, UploadOpksDoes, Typed, Fields, UploadOpksSets, RestForm, IdleForm
     DEF IInv, NoGhosts
<1> QED BY <1>2, <1>3, <1>4, <1>5, <1>6, <1>7, <1>8, <1>9, <1>10, <1>11, <1>12 DEF IInv

LEMMA DrainedKeeps ==
  ASSUME IInv, Drained
  PROVE  IInv'
<1>1. TypeOK
  BY DEF IInv
<1>2. TypeOK'
  BY <1>1, DrainedDoes, Typed, Fields, RestForm, IdleForm, Bounds, NoStoreForm
     DEF IInv, TypeOK, Exists
<1>3. Numbered'
  <2>1. cmd'.key <= keys
    BY <1>1, DrainedDoes, RestForm, Typed, Bounds DEF IInv, Numbered
  <2> QED BY <1>1, <2>1, DrainedDoes DEF IInv, Numbered
<1>4. MemoryMatches'
  BY <1>1, DrainedDoes, Typed, Fields, RestForm, IdleForm
     DEF IInv, MemoryMatches
<1>5. EnrolmentClean'
  BY <1>1, DrainedDoes, Typed, Fields, RestForm, IdleForm, Bounds, NoStoreForm
     DEF IInv, EnrolmentClean, Untold, Exists
<1>6. MailMatches'
  BY <1>1, DrainedDoes, Typed, Fields, RestForm, IdleForm
     DEF IInv, MailMatches
<1>7. PrekeysInHand'
  BY <1>1, DrainedDoes, Typed, Fields, RestForm, IdleForm
     DEF IInv, PrekeysInHand, Exists, InHand
<1>8. PublishedOpens'
  BY <1>1, DrainedDoes, Typed, Fields, RestForm, IdleForm, NoStoreForm
     DEF IInv, PublishedOpens, Exists
<1>9. HandshakesResolve'
  BY <1>1, DrainedDoes, Typed, Fields, RestForm, IdleForm
     DEF IInv, HandshakesResolve
<1>10. AccountKept'
  BY <1>1, DrainedDoes, Typed, Fields, RestForm, IdleForm
     DEF IInv, AccountKept, Untold
<1>11. DuressApart'
  BY <1>1, DrainedDoes, Typed, Fields, RestForm, IdleForm
     DEF IInv, DuressApart
<1>12. NoGhosts'
  BY <1>1, DrainedDoes, Typed, Fields, RestForm, IdleForm
     DEF IInv, NoGhosts
<1> QED BY <1>2, <1>3, <1>4, <1>5, <1>6, <1>7, <1>8, <1>9, <1>10, <1>11, <1>12 DEF IInv

LEMMA FinishKeeps ==
  ASSUME IInv, Finish
  PROVE  IInv'
<1>1. TypeOK
  BY DEF IInv
<1>2. TypeOK'
  BY <1>1, FinishDoes, Typed, Fields, RestForm, IdleForm, Bounds, NoStoreForm
     DEF IInv, TypeOK, Exists
<1>3. Numbered'
  BY <1>1, FinishDoes, Typed, Fields, RestForm, IdleForm, Bounds
     DEF IInv, Numbered
<1>4. MemoryMatches'
  BY <1>1, FinishDoes, Typed, Fields, RestForm, IdleForm
     DEF IInv, MemoryMatches
<1>5. EnrolmentClean'
  BY <1>1, FinishDoes, Typed, Fields, RestForm, IdleForm, Bounds, NoStoreForm
     DEF IInv, EnrolmentClean, Untold, Exists
<1>6. MailMatches'
  BY <1>1, FinishDoes, Typed, Fields, RestForm, IdleForm
     DEF IInv, MailMatches
<1>7. PrekeysInHand'
  BY <1>1, FinishDoes, Typed, Fields, RestForm, IdleForm
     DEF IInv, PrekeysInHand, Exists, InHand
<1>8. PublishedOpens'
  BY <1>1, FinishDoes, Typed, Fields, RestForm, IdleForm, NoStoreForm
     DEF IInv, PublishedOpens, Exists
<1>9. HandshakesResolve'
  BY <1>1, FinishDoes, Typed, Fields, RestForm, IdleForm
     DEF IInv, HandshakesResolve
<1>10. AccountKept'
  BY <1>1, FinishDoes, Typed, Fields, RestForm, IdleForm
     DEF IInv, AccountKept, Untold
<1>11. DuressApart'
  BY <1>1, FinishDoes, Typed, Fields, RestForm, IdleForm
     DEF IInv, DuressApart
<1>12. NoGhosts'
  BY <1>1, FinishDoes, Typed, Fields, RestForm, IdleForm
     DEF IInv, NoGhosts
<1> QED BY <1>2, <1>3, <1>4, <1>5, <1>6, <1>7, <1>8, <1>9, <1>10, <1>11, <1>12 DEF IInv

LEMMA BeginLoginKeeps ==
  ASSUME IInv, NEW p \in Pass, BeginLogin(p)
  PROVE  IInv'
<1>1. TypeOK
  BY DEF IInv
<1>2. TypeOK'
  BY <1>1, BeginLoginDoes, Typed, Fields, RestForm, IdleForm, Bounds, NoStoreForm
     DEF IInv, TypeOK, Exists
<1>3. Numbered'
  <2>1. cmd'.key <= keys
    BY <1>1, BeginLoginDoes, RestForm, Typed, Bounds DEF IInv, Numbered
  <2> QED BY <1>1, <2>1, BeginLoginDoes DEF IInv, Numbered
<1>4. MemoryMatches'
  BY <1>1, BeginLoginDoes, Typed, Fields, RestForm, IdleForm
     DEF IInv, MemoryMatches
<1>5. EnrolmentClean'
  BY <1>1, BeginLoginDoes, Typed, Fields, RestForm, IdleForm, Bounds, NoStoreForm
     DEF IInv, EnrolmentClean, Untold, Exists
<1>6. MailMatches'
  BY <1>1, BeginLoginDoes, Typed, Fields, RestForm, IdleForm
     DEF IInv, MailMatches
<1>7. PrekeysInHand'
  BY <1>1, BeginLoginDoes, Typed, Fields, RestForm, IdleForm
     DEF IInv, PrekeysInHand, Exists, InHand
<1>8. PublishedOpens'
  BY <1>1, BeginLoginDoes, Typed, Fields, RestForm, IdleForm, NoStoreForm
     DEF IInv, PublishedOpens, Exists
<1>9. HandshakesResolve'
  BY <1>1, BeginLoginDoes, Typed, Fields, RestForm, IdleForm
     DEF IInv, HandshakesResolve
<1>10. AccountKept'
  BY <1>1, BeginLoginDoes, Typed, Fields, RestForm, IdleForm
     DEF IInv, AccountKept, Untold
<1>11. DuressApart'
  BY <1>1, BeginLoginDoes, Typed, Fields, RestForm, IdleForm
     DEF IInv, DuressApart
<1>12. NoGhosts'
  BY <1>1, BeginLoginDoes, Typed, Fields, RestForm, IdleForm
     DEF IInv, NoGhosts
<1> QED BY <1>2, <1>3, <1>4, <1>5, <1>6, <1>7, <1>8, <1>9, <1>10, <1>11, <1>12 DEF IInv

LEMMA BeginPurgeKeeps ==
  ASSUME IInv, NEW p \in Pass, BeginPurge(p)
  PROVE  IInv'
<1>1. TypeOK
  BY DEF IInv
<1>2. TypeOK'
  BY <1>1, BeginPurgeDoes, Typed, Fields, RestForm, IdleForm, NoStoreForm, LockLocalDoes,
     Bounds
     DEF IInv, TypeOK, Exists
<1>3. Numbered'
  BY <1>1, BeginPurgeDoes, Typed, Fields, RestForm, IdleForm, NoStoreForm, LockLocalDoes,
     Bounds, DecoyForm
     DEF IInv, Numbered, DuressApart
<1>4. MemoryMatches'
  BY <1>1, BeginPurgeDoes, Typed, Fields, RestForm, IdleForm, NoStoreForm, LockLocalDoes
     DEF IInv, MemoryMatches
<1>5. EnrolmentClean'
  BY <1>1, BeginPurgeDoes, Typed, Fields, RestForm, IdleForm, NoStoreForm, LockLocalDoes,
     Bounds
     DEF IInv, EnrolmentClean, Untold, Exists
<1>6. MailMatches'
  BY <1>1, BeginPurgeDoes, Typed, Fields, RestForm, IdleForm, NoStoreForm, LockLocalDoes
     DEF IInv, MailMatches
<1>7. PrekeysInHand'
  BY <1>1, BeginPurgeDoes, Typed, Fields, RestForm, IdleForm, NoStoreForm, LockLocalDoes
     DEF IInv, PrekeysInHand, Exists, InHand
<1>8. PublishedOpens'
  BY <1>1, BeginPurgeDoes, Typed, Fields, RestForm, IdleForm, NoStoreForm, LockLocalDoes
     DEF IInv, PublishedOpens, Exists
<1>9. HandshakesResolve'
  BY <1>1, BeginPurgeDoes, Typed, Fields, RestForm, IdleForm, NoStoreForm, LockLocalDoes
     DEF IInv, HandshakesResolve, MailMatches
<1>10. AccountKept'
  BY <1>1, BeginPurgeDoes, Typed, Fields, RestForm, IdleForm, NoStoreForm, LockLocalDoes
     DEF IInv, AccountKept, Untold
<1>11. DuressApart'
  BY <1>1, BeginPurgeDoes, Typed, Fields, RestForm, IdleForm, NoStoreForm, LockLocalDoes
     DEF IInv, DuressApart
<1>12. NoGhosts'
  BY <1>1, BeginPurgeDoes, Typed, Fields, RestForm, IdleForm, NoStoreForm, LockLocalDoes
     DEF IInv, NoGhosts
<1> QED BY <1>2, <1>3, <1>4, <1>5, <1>6, <1>7, <1>8, <1>9, <1>10, <1>11, <1>12 DEF IInv

LEMMA DeleteAccountKeeps ==
  ASSUME IInv, NEW o \in Outcome, DeleteAccount(o)
  PROVE  IInv'
<1>1. TypeOK
  BY DEF IInv
<1>2. TypeOK'
  BY <1>1, DeleteAccountDoes, Typed, Fields, RestForm, IdleForm, NoAccountForm, Bounds,
     NoStoreForm
     DEF IInv, TypeOK, Exists
<1>3. Numbered'
  BY <1>1, DeleteAccountDoes, Typed, Fields, RestForm, IdleForm, NoAccountForm, Bounds
     DEF IInv, Numbered
<1>4. MemoryMatches'
  BY <1>1, DeleteAccountDoes, Typed, Fields, RestForm, IdleForm, NoAccountForm
     DEF IInv, MemoryMatches
<1>5. EnrolmentClean'
  BY <1>1, DeleteAccountDoes, Typed, Fields, RestForm, IdleForm, NoAccountForm, Bounds,
     NoStoreForm
     DEF IInv, EnrolmentClean, Untold, Exists
<1>6. MailMatches'
  BY <1>1, DeleteAccountDoes, Typed, Fields, RestForm, IdleForm, NoAccountForm
     DEF IInv, MailMatches
<1>7. PrekeysInHand'
  BY <1>1, DeleteAccountDoes, Typed, Fields, RestForm, IdleForm, NoAccountForm
     DEF IInv, PrekeysInHand, Exists, InHand
<1>8. PublishedOpens'
  BY <1>1, DeleteAccountDoes, Typed, Fields, RestForm, IdleForm, NoAccountForm, NoStoreForm
     DEF IInv, PublishedOpens, Exists
<1>9. HandshakesResolve'
  BY <1>1, DeleteAccountDoes, Typed, Fields, RestForm, IdleForm, NoAccountForm
     DEF IInv, HandshakesResolve
<1>10. AccountKept'
  BY <1>1, DeleteAccountDoes, Typed, Fields, RestForm, IdleForm, NoAccountForm
     DEF IInv, AccountKept, Untold
<1>11. DuressApart'
  BY <1>1, DeleteAccountDoes, Typed, Fields, RestForm, IdleForm, NoAccountForm
     DEF IInv, DuressApart
<1>12. NoGhosts'
  BY <1>1, DeleteAccountDoes, Typed, Fields, RestForm, IdleForm, NoAccountForm
     DEF IInv, NoGhosts
<1> QED BY <1>2, <1>3, <1>4, <1>5, <1>6, <1>7, <1>8, <1>9, <1>10, <1>11, <1>12 DEF IInv

LEMMA LogoutKeeps ==
  ASSUME IInv, NEW o \in Outcome, Logout(o)
  PROVE  IInv'
<1>1. TypeOK
  BY DEF IInv
<1>2. TypeOK'
  <2>1. /\ dek' \in BOOLEAN /\ ident' \in Key /\ ws' \in BOOLEAN /\ (dek' => Exists)
        /\ rx' = Idle \/ rx' \in Answering
    BY <1>1, LogoutDoes, LockLocalDoes, Bounds DEF TypeOK
  <2>2. server'.key = NoKey => server' = NoAccount
    BY <1>1, LogoutDoes, LogoutSets, Typed, NoAccountForm DEF NoAccount, Enrolled
  <2> QED BY <1>1, <2>1, <2>2, LogoutDoes, LogoutSets DEF TypeOK, Exists
<1>3. Numbered'
  BY <1>1, LogoutDoes, Typed, Fields, LogoutSets, RestForm, IdleForm, LockLocalDoes, Bounds
     DEF IInv, Numbered
<1>4. MemoryMatches'
  BY <1>1, LogoutDoes, Typed, Fields, LogoutSets, RestForm, IdleForm, LockLocalDoes
     DEF IInv, MemoryMatches
<1>5. EnrolmentClean'
  BY <1>1, LogoutDoes, Typed, Fields, LogoutSets, RestForm, IdleForm, LockLocalDoes,
     Bounds, NoStoreForm
     DEF IInv, EnrolmentClean, Untold, Exists
<1>6. MailMatches'
  BY <1>1, LogoutDoes, Typed, Fields, LogoutSets, RestForm, IdleForm, LockLocalDoes
     DEF IInv, MailMatches
<1>7. PrekeysInHand'
  BY <1>1, LogoutDoes, Typed, Fields, LogoutSets, RestForm, IdleForm, LockLocalDoes
     DEF IInv, PrekeysInHand, Exists, InHand
<1>8. PublishedOpens'
  BY <1>1, LogoutDoes, Typed, Fields, LogoutSets, RestForm, IdleForm, LockLocalDoes,
     NoStoreForm
     DEF IInv, PublishedOpens, Exists
<1>9. HandshakesResolve'
  BY <1>1, LogoutDoes, Typed, Fields, LogoutSets, RestForm, IdleForm, LockLocalDoes
     DEF IInv, HandshakesResolve
<1>10. AccountKept'
  BY <1>1, LogoutDoes, Typed, Fields, LogoutSets, RestForm, IdleForm, LockLocalDoes
     DEF IInv, AccountKept, Untold
<1>11. DuressApart'
  BY <1>1, LogoutDoes, Typed, Fields, LogoutSets, RestForm, IdleForm, LockLocalDoes
     DEF IInv, DuressApart
<1>12. NoGhosts'
  BY <1>1, LogoutDoes, Typed, Fields, LogoutSets, RestForm, IdleForm, LockLocalDoes
     DEF IInv, NoGhosts
<1> QED BY <1>2, <1>3, <1>4, <1>5, <1>6, <1>7, <1>8, <1>9, <1>10, <1>11, <1>12 DEF IInv

LEMMA LockKeeps ==
  ASSUME IInv, Lock
  PROVE  IInv'
<1>1. TypeOK
  BY DEF IInv
<1>2. TypeOK'
  BY <1>1, LockDoes, Typed, Fields, RestForm, IdleForm, LockLocalDoes, Bounds, NoStoreForm
     DEF IInv, TypeOK, Exists
<1>3. Numbered'
  BY <1>1, LockDoes, Typed, Fields, RestForm, IdleForm, LockLocalDoes, Bounds
     DEF IInv, Numbered
<1>4. MemoryMatches'
  BY <1>1, LockDoes, Typed, Fields, RestForm, IdleForm, LockLocalDoes
     DEF IInv, MemoryMatches
<1>5. EnrolmentClean'
  <2>1. ident' = NoKey /\ (rx' = Idle \/ rx'.stale)
    BY <1>1, LockDoes, LockLocalDoes
  <2> QED BY <1>1, <2>1, LockDoes DEF IInv, EnrolmentClean, Untold, Exists
<1>6. MailMatches'
  BY <1>1, LockDoes, Typed, Fields, RestForm, IdleForm, LockLocalDoes
     DEF IInv, MailMatches
<1>7. PrekeysInHand'
  BY <1>1, LockDoes, Typed, Fields, RestForm, IdleForm, LockLocalDoes
     DEF IInv, PrekeysInHand, Exists, InHand
<1>8. PublishedOpens'
  BY <1>1, LockDoes, Typed, Fields, RestForm, IdleForm, LockLocalDoes, NoStoreForm
     DEF IInv, PublishedOpens, Exists
<1>9. HandshakesResolve'
  BY <1>1, LockDoes, Typed, Fields, RestForm, IdleForm, LockLocalDoes
     DEF IInv, HandshakesResolve
<1>10. AccountKept'
  BY <1>1, LockDoes, Typed, Fields, RestForm, IdleForm, LockLocalDoes
     DEF IInv, AccountKept, Untold
<1>11. DuressApart'
  BY <1>1, LockDoes, Typed, Fields, RestForm, IdleForm, LockLocalDoes
     DEF IInv, DuressApart
<1>12. NoGhosts'
  BY <1>1, LockDoes, Typed, Fields, RestForm, IdleForm, LockLocalDoes
     DEF IInv, NoGhosts
<1> QED BY <1>2, <1>3, <1>4, <1>5, <1>6, <1>7, <1>8, <1>9, <1>10, <1>11, <1>12 DEF IInv

LEMMA RotatePassphraseKeeps ==
  ASSUME IInv, NEW p \in Pass, NEW q \in Pass, RotatePassphrase(p, q)
  PROVE  IInv'
<1>1. TypeOK
  BY DEF IInv
<1>2. TypeOK'
  BY <1>1, RotatePassphraseDoes, Typed, Fields, RotatePassphraseSets, RestForm, IdleForm,
     Bounds, NoStoreForm
     DEF IInv, TypeOK, Exists
<1>3. Numbered'
  BY <1>1, RotatePassphraseDoes, Typed, Fields, RotatePassphraseSets, RestForm, IdleForm,
     Bounds
     DEF IInv, Numbered
<1>4. MemoryMatches'
  BY <1>1, RotatePassphraseDoes, Typed, Fields, RotatePassphraseSets, RestForm, IdleForm
     DEF IInv, MemoryMatches
<1>5. EnrolmentClean'
  BY <1>1, RotatePassphraseDoes, Typed, Fields, RotatePassphraseSets, RestForm, IdleForm,
     Bounds, NoStoreForm
     DEF IInv, EnrolmentClean, Untold, Exists
<1>6. MailMatches'
  BY <1>1, RotatePassphraseDoes, Typed, Fields, RotatePassphraseSets, RestForm, IdleForm
     DEF IInv, MailMatches
<1>7. PrekeysInHand'
  BY <1>1, RotatePassphraseDoes, Typed, Fields, RotatePassphraseSets, RestForm, IdleForm
     DEF IInv, PrekeysInHand, Exists, InHand
<1>8. PublishedOpens'
  BY <1>1, RotatePassphraseDoes, Typed, Fields, RotatePassphraseSets, RestForm, IdleForm,
     NoStoreForm
     DEF IInv, PublishedOpens, Exists
<1>9. HandshakesResolve'
  BY <1>1, RotatePassphraseDoes, Typed, Fields, RotatePassphraseSets, RestForm, IdleForm
     DEF IInv, HandshakesResolve
<1>10. AccountKept'
  BY <1>1, RotatePassphraseDoes, Typed, Fields, RotatePassphraseSets, RestForm, IdleForm
     DEF IInv, AccountKept, Untold
<1>11. DuressApart'
  BY <1>1, RotatePassphraseDoes, Typed, Fields, RotatePassphraseSets, RestForm, IdleForm
     DEF IInv, DuressApart
<1>12. NoGhosts'
  BY <1>1, RotatePassphraseDoes, Typed, Fields, RotatePassphraseSets, RestForm, IdleForm
     DEF IInv, NoGhosts
<1> QED BY <1>2, <1>3, <1>4, <1>5, <1>6, <1>7, <1>8, <1>9, <1>10, <1>11, <1>12 DEF IInv

LEMMA WipeKeeps ==
  ASSUME IInv, Wipe
  PROVE  IInv'
<1>1. TypeOK
  BY DEF IInv
<1>2. TypeOK'
  BY <1>1, WipeDoes, Typed, Fields, RestForm, IdleForm, NoStoreForm, LockLocalDoes, Bounds
     DEF IInv, TypeOK, Exists
<1>3. Numbered'
  BY <1>1, WipeDoes, Typed, Fields, RestForm, IdleForm, NoStoreForm, LockLocalDoes, Bounds
     DEF IInv, Numbered
<1>4. MemoryMatches'
  BY <1>1, WipeDoes, Typed, Fields, RestForm, IdleForm, NoStoreForm, LockLocalDoes
     DEF IInv, MemoryMatches
<1>5. EnrolmentClean'
  BY <1>1, WipeDoes, Typed, Fields, RestForm, IdleForm, NoStoreForm, LockLocalDoes, Bounds
     DEF IInv, EnrolmentClean, Untold, Exists
<1>6. MailMatches'
  BY <1>1, WipeDoes, Typed, Fields, RestForm, IdleForm, NoStoreForm, LockLocalDoes
     DEF IInv, MailMatches
<1>7. PrekeysInHand'
  BY <1>1, WipeDoes, Typed, Fields, RestForm, IdleForm, NoStoreForm, LockLocalDoes
     DEF IInv, PrekeysInHand, Exists, InHand
<1>8. PublishedOpens'
  BY <1>1, WipeDoes, Typed, Fields, RestForm, IdleForm, NoStoreForm, LockLocalDoes
     DEF IInv, PublishedOpens, Exists
<1>9. HandshakesResolve'
  BY <1>1, WipeDoes, Typed, Fields, RestForm, IdleForm, NoStoreForm, LockLocalDoes
     DEF IInv, HandshakesResolve, MailMatches
<1>10. AccountKept'
  BY <1>1, WipeDoes, Typed, Fields, RestForm, IdleForm, NoStoreForm, LockLocalDoes
     DEF IInv, AccountKept, Untold
<1>11. DuressApart'
  BY <1>1, WipeDoes, Typed, Fields, RestForm, IdleForm, NoStoreForm, LockLocalDoes
     DEF IInv, DuressApart
<1>12. NoGhosts'
  BY <1>1, WipeDoes, Typed, Fields, RestForm, IdleForm, NoStoreForm, LockLocalDoes
     DEF IInv, NoGhosts
<1> QED BY <1>2, <1>3, <1>4, <1>5, <1>6, <1>7, <1>8, <1>9, <1>10, <1>11, <1>12 DEF IInv

LEMMA ArmDuressKeeps ==
  ASSUME IInv, NEW p \in Pass, ArmDuress(p)
  PROVE  IInv'
<1>1. TypeOK
  BY DEF IInv
<1>2. TypeOK'
  BY <1>1, ArmDuressDoes, Typed, Fields, ArmDuressSets, RestForm, IdleForm, Bounds,
     NoStoreForm
     DEF IInv, TypeOK, Exists
<1>3. Numbered'
  BY <1>1, ArmDuressDoes, Typed, Fields, ArmDuressSets, RestForm, IdleForm, Bounds
     DEF IInv, Numbered
<1>4. MemoryMatches'
  BY <1>1, ArmDuressDoes, Typed, Fields, ArmDuressSets, RestForm, IdleForm
     DEF IInv, MemoryMatches
<1>5. EnrolmentClean'
  BY <1>1, ArmDuressDoes, Typed, Fields, ArmDuressSets, RestForm, IdleForm, Bounds,
     NoStoreForm
     DEF IInv, EnrolmentClean, Untold, Exists
<1>6. MailMatches'
  BY <1>1, ArmDuressDoes, Typed, Fields, ArmDuressSets, RestForm, IdleForm
     DEF IInv, MailMatches
<1>7. PrekeysInHand'
  BY <1>1, ArmDuressDoes, Typed, Fields, ArmDuressSets, RestForm, IdleForm
     DEF IInv, PrekeysInHand, Exists, InHand
<1>8. PublishedOpens'
  BY <1>1, ArmDuressDoes, Typed, Fields, ArmDuressSets, RestForm, IdleForm, NoStoreForm
     DEF IInv, PublishedOpens, Exists
<1>9. HandshakesResolve'
  BY <1>1, ArmDuressDoes, Typed, Fields, ArmDuressSets, RestForm, IdleForm
     DEF IInv, HandshakesResolve
<1>10. AccountKept'
  BY <1>1, ArmDuressDoes, Typed, Fields, ArmDuressSets, RestForm, IdleForm
     DEF IInv, AccountKept, Untold
<1>11. DuressApart'
  BY <1>1, ArmDuressDoes, Typed, Fields, ArmDuressSets, RestForm, IdleForm
     DEF IInv, DuressApart, MemoryMatches
<1>12. NoGhosts'
  BY <1>1, ArmDuressDoes, Typed, Fields, ArmDuressSets, RestForm, IdleForm
     DEF IInv, NoGhosts
<1> QED BY <1>2, <1>3, <1>4, <1>5, <1>6, <1>7, <1>8, <1>9, <1>10, <1>11, <1>12 DEF IInv

LEMMA DisarmDuressKeeps ==
  ASSUME IInv, DisarmDuress
  PROVE  IInv'
<1>1. TypeOK
  BY DEF IInv
<1>2. TypeOK'
  BY <1>1, DisarmDuressDoes, Typed, Fields, DisarmDuressSets, RestForm, IdleForm, Bounds,
     NoStoreForm
     DEF IInv, TypeOK, Exists
<1>3. Numbered'
  BY <1>1, DisarmDuressDoes, Typed, Fields, DisarmDuressSets, RestForm, IdleForm, Bounds
     DEF IInv, Numbered
<1>4. MemoryMatches'
  BY <1>1, DisarmDuressDoes, Typed, Fields, DisarmDuressSets, RestForm, IdleForm
     DEF IInv, MemoryMatches
<1>5. EnrolmentClean'
  BY <1>1, DisarmDuressDoes, Typed, Fields, DisarmDuressSets, RestForm, IdleForm, Bounds,
     NoStoreForm
     DEF IInv, EnrolmentClean, Untold, Exists
<1>6. MailMatches'
  BY <1>1, DisarmDuressDoes, Typed, Fields, DisarmDuressSets, RestForm, IdleForm
     DEF IInv, MailMatches
<1>7. PrekeysInHand'
  BY <1>1, DisarmDuressDoes, Typed, Fields, DisarmDuressSets, RestForm, IdleForm
     DEF IInv, PrekeysInHand, Exists, InHand
<1>8. PublishedOpens'
  BY <1>1, DisarmDuressDoes, Typed, Fields, DisarmDuressSets, RestForm, IdleForm,
     NoStoreForm
     DEF IInv, PublishedOpens, Exists
<1>9. HandshakesResolve'
  BY <1>1, DisarmDuressDoes, Typed, Fields, DisarmDuressSets, RestForm, IdleForm
     DEF IInv, HandshakesResolve
<1>10. AccountKept'
  BY <1>1, DisarmDuressDoes, Typed, Fields, DisarmDuressSets, RestForm, IdleForm
     DEF IInv, AccountKept, Untold
<1>11. DuressApart'
  BY <1>1, DisarmDuressDoes, Typed, Fields, DisarmDuressSets, RestForm, IdleForm
     DEF IInv, DuressApart
<1>12. NoGhosts'
  BY <1>1, DisarmDuressDoes, Typed, Fields, DisarmDuressSets, RestForm, IdleForm
     DEF IInv, NoGhosts
<1> QED BY <1>2, <1>3, <1>4, <1>5, <1>6, <1>7, <1>8, <1>9, <1>10, <1>11, <1>12 DEF IInv

LEMMA ReceiveKeeps ==
  ASSUME IInv, NEW e \in mail, Receive(e)
  PROVE  IInv'
<1>1. TypeOK
  BY DEF IInv
<1>2. TypeOK'
  BY <1>1, ReceiveDoes, Typed, Fields, RestForm, IdleForm, Bounds, NoStoreForm
     DEF IInv, TypeOK, Exists
<1>3. Numbered'
  BY <1>1, ReceiveDoes, Typed, Fields, RestForm, IdleForm, Bounds
     DEF IInv, Numbered
<1>4. MemoryMatches'
  BY <1>1, ReceiveDoes, Typed, Fields, RestForm, IdleForm
     DEF IInv, MemoryMatches
<1>5. EnrolmentClean'
  BY <1>1, ReceiveDoes, Typed, Fields, RestForm, IdleForm, Bounds, NoStoreForm
     DEF IInv, EnrolmentClean, Untold, Exists
<1>6. MailMatches'
  <2>1. e.key = server.key /\ e.key # NoKey /\ e.opk \notin server.opks /\ store.id = server.key
    BY <1>1, ReceiveDoes DEF IInv, MailMatches, MemoryMatches
  <2> QED BY <1>1, <2>1, ReceiveDoes DEF IInv, MailMatches
<1>7. PrekeysInHand'
  BY <1>1, ReceiveDoes, Typed, Fields, RestForm, IdleForm
     DEF IInv, PrekeysInHand, Exists, InHand
<1>8. PublishedOpens'
  BY <1>1, ReceiveDoes, Typed, Fields, RestForm, IdleForm, NoStoreForm
     DEF IInv, PublishedOpens, Exists
<1>9. HandshakesResolve'
  BY <1>1, ReceiveDoes, Typed, Fields, RestForm, IdleForm
     DEF IInv, HandshakesResolve
<1>10. AccountKept'
  BY <1>1, ReceiveDoes, Typed, Fields, RestForm, IdleForm
     DEF IInv, AccountKept, Untold
<1>11. DuressApart'
  BY <1>1, ReceiveDoes, Typed, Fields, RestForm, IdleForm
     DEF IInv, DuressApart
<1>12. NoGhosts'
  BY <1>1, ReceiveDoes, Typed, Fields, RestForm, IdleForm
     DEF IInv, NoGhosts
<1> QED BY <1>2, <1>3, <1>4, <1>5, <1>6, <1>7, <1>8, <1>9, <1>10, <1>11, <1>12 DEF IInv

LEMMA RespondKeeps ==
  ASSUME IInv, Respond
  PROVE  IInv'
<1>1. TypeOK
  BY DEF IInv
<1>2. /\ rx # Idle /\ mail' \subseteq mail
      /\ rx' # Idle => rx'.env = rx.env /\ rx'.stale = rx.stale
      /\ store'.opks \subseteq store.opks
  BY <1>1, RespondDoes, RespondSets, AnsweringForms
<1>3. store' # store => ~rx.stale /\ Exists /\ store.id # NoKey
  BY <1>1, <1>2, RespondSets, Typed DEF IInv, MailMatches
<1>4. store' # store => store' # NoStore
  BY <1>1, <1>3, RespondSets, Typed, NoStoreForm
<1>5. /\ store'.wrap = store.wrap /\ store'.id = store.id /\ store'.spks = store.spks
      /\ server' = server /\ cmd' = cmd /\ keys' = keys /\ prekeys' = prekeys /\ paper' = paper
      /\ clock' = clock /\ ident' = ident /\ token' = token
  BY <1>1, RespondDoes, RespondSets
<1>6. TypeOK'
  <2>1. store' \in Store /\ (store'.wrap = NoPass => store' = NoStore) /\ (dek => store' # NoStore)
    BY <1>1, <1>3, <1>4, RespondSets, Typed, Fields DEF Exists
  <2> QED BY <1>1, <1>2, <2>1, RespondDoes DEF TypeOK, Exists
<1>7. Numbered'
  BY <1>1, <1>2, <1>5 DEF IInv, Numbered
<1>8. MemoryMatches'
  BY <1>1, RespondDoes, Typed, Fields, RespondSets, RestForm, IdleForm
     DEF IInv, MemoryMatches
<1>9. EnrolmentClean'
  <2>1. cmd.pc = "create" \/ (cmd.pc = "ask" /\ cmd.why = "register") \/ cmd.pc = "identity" =>
          store' = store
    BY <1>1, <1>3, NewStoreForm, NoStoreForm, Fields DEF IInv, EnrolmentClean
  <2>2. Untold => mail' = {}
    BY <1>2 DEF IInv, EnrolmentClean
  <2>3. cmd.pc = "wipe" => rx' = Idle \/ rx'.stale
    BY <1>2 DEF IInv, EnrolmentClean
  <2> QED BY <1>1, <1>5, <2>1, <2>2, <2>3 DEF IInv, EnrolmentClean, Untold, Exists
<1>10. MailMatches'
  BY <1>1, <1>2, <1>5 DEF IInv, MailMatches
<1>11. PrekeysInHand'
  <2>1. cmd.pc = "uploadOpks" => InHand \subseteq store'.opks
    BY <1>1, <1>2, RespondSets DEF IInv, PrekeysInHand
  <2>2. Exists => store' # NoStore
    BY <1>4 DEF Exists
  <2>3. InHand' = InHand
    BY <1>5 DEF InHand
  <2> QED BY <1>1, <1>2, <1>5, <2>1, <2>2, <2>3 DEF IInv, PrekeysInHand, Exists
<1>12. PublishedOpens'
  <2>1. store' # NoStore => Exists
    BY <1>3 DEF Exists
  <2>2. rx.env.opk \notin server.opks
    BY <1>2 DEF IInv, MailMatches
  <2> QED BY <1>1, <1>5, <2>1, <2>2, RespondSets DEF IInv, PublishedOpens, Exists
<1>13. HandshakesResolve'
  BY <1>1, RespondDoes, Typed, Fields, RespondSets, RestForm, IdleForm
     DEF IInv, HandshakesResolve
<1>14. AccountKept'
  BY <1>1, RespondDoes, Typed, Fields, RespondSets, RestForm, IdleForm
     DEF IInv, AccountKept, Untold
<1>15. DuressApart'
  BY <1>1, RespondDoes, Typed, Fields, RespondSets, RestForm, IdleForm
     DEF IInv, DuressApart
<1>16. NoGhosts'
  BY <1>1, RespondDoes, Typed, Fields, RespondSets, RestForm, IdleForm
     DEF IInv, NoGhosts
<1> QED BY <1>6, <1>7, <1>8, <1>9, <1>10, <1>11, <1>12, <1>13, <1>14, <1>15, <1>16 DEF IInv

LEMMA FileKeeps ==
  ASSUME IInv, File
  PROVE  IInv'
<1>1. TypeOK
  BY DEF IInv
<1>2. rx # Idle /\ mail' \subseteq mail
  BY <1>1, FileDoes, AnsweringForms
<1>3. store' # store => Exists /\ store.id # NoKey /\ rx.env.key = store.id
  BY <1>1, <1>2, FileSets, Typed DEF IInv, MailMatches
<1>4. store' # store => store' # NoStore
  BY <1>1, <1>3, FileSets, Typed, NoStoreForm
<1>5. TypeOK'
  BY <1>1, FileDoes, Typed, Fields, FileSets, RestForm, IdleForm, Bounds, NoStoreForm
     DEF IInv, TypeOK, Exists
<1>6. Numbered'
  BY <1>1, FileDoes, Typed, Fields, FileSets, RestForm, IdleForm, Bounds
     DEF IInv, Numbered
<1>7. MemoryMatches'
  BY <1>1, FileDoes, Typed, Fields, FileSets, RestForm, IdleForm
     DEF IInv, MemoryMatches
<1>8. EnrolmentClean'
  <2>1. cmd.pc = "create" \/ (cmd.pc = "ask" /\ cmd.why = "register") \/ cmd.pc = "identity" =>
          store' = store
    BY <1>1, <1>3, NewStoreForm, NoStoreForm, Fields DEF IInv, EnrolmentClean
  <2>2. Untold => mail' = {}
    BY <1>2 DEF IInv, EnrolmentClean
  <2> QED BY <1>1, <2>1, <2>2, FileDoes, FileSets DEF IInv, EnrolmentClean, Untold, Exists
<1>9. MailMatches'
  BY <1>1, FileDoes, Typed, Fields, FileSets, RestForm, IdleForm
     DEF IInv, MailMatches
<1>10. PrekeysInHand'
  <2>1. Exists => store' # NoStore
    BY <1>4 DEF Exists
  <2>2. InHand' = InHand
    BY <1>1, FileDoes DEF InHand
  <2> QED BY <1>1, <1>2, <2>1, <2>2, FileDoes, FileSets DEF IInv, PrekeysInHand, Exists
<1>11. PublishedOpens'
  BY <1>1, FileDoes, Typed, Fields, FileSets, RestForm, IdleForm, NoStoreForm
     DEF IInv, PublishedOpens, Exists
<1>12. HandshakesResolve'
  BY <1>1, FileDoes, Typed, Fields, FileSets, RestForm, IdleForm
     DEF IInv, HandshakesResolve
<1>13. AccountKept'
  BY <1>1, FileDoes, Typed, Fields, FileSets, RestForm, IdleForm
     DEF IInv, AccountKept, Untold
<1>14. DuressApart'
  BY <1>1, FileDoes, Typed, Fields, FileSets, RestForm, IdleForm
     DEF IInv, DuressApart
<1>15. NoGhosts'
  BY <1>1, <1>3, FileSets DEF IInv, NoGhosts
<1> QED BY <1>5, <1>6, <1>7, <1>8, <1>9, <1>10, <1>11, <1>12, <1>13, <1>14, <1>15 DEF IInv

LEMMA PeerWritesKeeps ==
  ASSUME IInv, PeerWrites
  PROVE  IInv'
<1>1. TypeOK
  BY DEF IInv
<1>2. PICK opk \in server.opks \cup {NoKey} :
        /\ server'.opks = server.opks \ {opk}
        /\ mail' = mail \cup {[key |-> server.key, spk |-> server.spk, opk |-> opk, at |-> clock]}
  BY <1>1, PeerWritesSets
<1> DEFINE new == [key |-> server.key, spk |-> server.spk, opk |-> opk, at |-> clock]
<1>3. /\ new \in Mail /\ new.key = server.key /\ new.spk = server.spk /\ new.opk = opk
      /\ mail' = mail \cup {new}
  <2>1. NoKey \in Serial /\ clock \in Instant
    BY <1>1, Typed, Bounds DEF Serial, TypeOK
  <2> QED BY <1>1, <1>2, <2>1, Fields DEF Mail
<1> HIDE DEF new
<1>4. opk \notin server'.opks /\ server'.opks \subseteq server.opks
  BY <1>2
<1>5. server.key # NoKey /\ ~Untold
  <2>1. server.spk # NoSpk
    BY <1>1, PeerWritesDoes
  <2>2. server.key # NoKey
    BY <1>1, <2>1, Typed, NoAccountForm
  <2>3. Untold => server.spk = NoSpk
    BY <1>1, Fields, EnrolledForm DEF IInv, EnrolmentClean
  <2> QED BY <2>1, <2>2, <2>3
<1>6. TypeOK'
  BY <1>1, <1>3, <1>5, PeerWritesDoes, PeerWritesSets, Typed DEF TypeOK, Exists
<1>7. Numbered'
  <2>1. new.opk <= prekeys
    BY <1>1, <1>2, <1>3, Typed, Bounds DEF IInv, Numbered
  <2> QED BY <1>1, <1>3, <1>4, <2>1, PeerWritesDoes, PeerWritesSets DEF IInv, Numbered
<1>8. MemoryMatches'
  BY <1>1, PeerWritesDoes, Typed, Fields, PeerWritesSets, RestForm, IdleForm
     DEF IInv, MemoryMatches
<1>9. EnrolmentClean'
  BY <1>1, <1>5, PeerWritesDoes DEF IInv, EnrolmentClean, Untold, Exists
<1>10. MailMatches'
  BY <1>1, <1>3, <1>4, <1>5, PeerWritesDoes, PeerWritesSets DEF IInv, MailMatches
<1>11. PrekeysInHand'
  <2>1. cmd.pc = "uploadOpks" => opk \notin InHand
    <3>1. ASSUME cmd.pc = "uploadOpks" PROVE opk \notin InHand
      <4>1. cmd.opks <= prekeys /\ InHand \cap server.opks = {}
        BY <3>1 DEF IInv, PrekeysInHand
      <4>2. NoKey \notin InHand
        BY <1>1, <4>1, Typed, Fields, Bounds DEF InHand
      <4> QED BY <1>2, <4>1, <4>2
    <3> QED BY <3>1
  <2>2. InHand' = InHand
    BY <1>1, PeerWritesDoes DEF InHand
  <2> QED BY <1>1, <1>3, <1>4, <2>1, <2>2, PeerWritesDoes, PeerWritesSets
          DEF IInv, PrekeysInHand, Exists
<1>12. PublishedOpens'
  BY <1>1, PeerWritesDoes, Typed, Fields, PeerWritesSets, RestForm, IdleForm, NoStoreForm
     DEF IInv, PublishedOpens, Exists
<1>13. HandshakesResolve'
  <2>1. new.key = store.id => new.spk \in store.spks
    BY <1>1, <1>3, <1>5, PeerWritesDoes, Typed DEF IInv, PublishedOpens
  <2> QED BY <1>1, <1>3, <2>1, PeerWritesDoes DEF IInv, HandshakesResolve
<1>14. AccountKept'
  BY <1>1, PeerWritesDoes, Typed, Fields, PeerWritesSets, RestForm, IdleForm
     DEF IInv, AccountKept, Untold
<1>15. DuressApart'
  BY <1>1, PeerWritesDoes, Typed, Fields, PeerWritesSets, RestForm, IdleForm
     DEF IInv, DuressApart
<1>16. NoGhosts'
  BY <1>1, PeerWritesDoes, Typed, Fields, PeerWritesSets, RestForm, IdleForm
     DEF IInv, NoGhosts
<1> QED BY <1>6, <1>7, <1>8, <1>9, <1>10, <1>11, <1>12, <1>13, <1>14, <1>15, <1>16 DEF IInv

LEMMA RecoverElsewhereKeeps ==
  ASSUME IInv, RecoverElsewhere
  PROVE  IInv'
<1>1. TypeOK
  BY DEF IInv
<1>2. ~Untold
  <2>1. Untold => server.key = cmd.key /\ paper # cmd.key
    BY <1>1, Fields, EnrolledForm DEF IInv, EnrolmentClean
  <2> QED BY <1>1, <2>1, RecoverElsewhereDoes
<1>3. TypeOK'
  <2>1. server' \in Account /\ (server'.key = NoKey => server' = NoAccount)
    BY <1>1, RecoverElsewhereDoes, RecoverElsewhereSets, Typed, Bounds
  <2> QED BY <1>1, <2>1, RecoverElsewhereDoes DEF TypeOK, Exists
<1>4. Numbered'
  BY <1>1, RecoverElsewhereDoes, Typed, Fields, RecoverElsewhereSets, RestForm, IdleForm,
     Bounds
     DEF IInv, Numbered
<1>5. MemoryMatches'
  <2>1. server'.live = FALSE
    BY <1>1, RecoverElsewhereSets
  <2> QED BY <1>1, <2>1, RecoverElsewhereDoes DEF IInv, MemoryMatches
<1>6. EnrolmentClean'
  BY <1>1, <1>2, RecoverElsewhereDoes DEF IInv, EnrolmentClean, Untold, Exists
<1>7. MailMatches'
  BY <1>1, RecoverElsewhereDoes, Typed, Fields, RecoverElsewhereSets, RestForm, IdleForm
     DEF IInv, MailMatches
<1>8. PrekeysInHand'
  BY <1>1, RecoverElsewhereDoes, Typed, Fields, RecoverElsewhereSets, RestForm, IdleForm
     DEF IInv, PrekeysInHand, Exists, InHand, Numbered
<1>9. PublishedOpens'
  BY <1>1, RecoverElsewhereDoes, Typed, Fields, RecoverElsewhereSets, RestForm, IdleForm,
     NoStoreForm
     DEF IInv, PublishedOpens, Exists
<1>10. HandshakesResolve'
  BY <1>1, RecoverElsewhereDoes, Typed, Fields, RecoverElsewhereSets, RestForm, IdleForm
     DEF IInv, HandshakesResolve
<1>11. AccountKept'
  BY <1>1, RecoverElsewhereDoes, Typed, Fields, RecoverElsewhereSets, RestForm, IdleForm
     DEF IInv, AccountKept, Untold
<1>12. DuressApart'
  BY <1>1, RecoverElsewhereDoes, Typed, Fields, RecoverElsewhereSets, RestForm, IdleForm
     DEF IInv, DuressApart
<1>13. NoGhosts'
  BY <1>1, RecoverElsewhereDoes, Typed, Fields, RecoverElsewhereSets, RestForm, IdleForm
     DEF IInv, NoGhosts
<1> QED BY <1>3, <1>4, <1>5, <1>6, <1>7, <1>8, <1>9, <1>10, <1>11, <1>12, <1>13 DEF IInv

LEMMA SessionExpiresKeeps ==
  ASSUME IInv, SessionExpires
  PROVE  IInv'
<1>1. TypeOK
  BY DEF IInv
<1>2. TypeOK'
  <2>1. server.key # NoKey
    BY <1>1, SessionExpiresDoes, Typed, NoAccountForm
  <2> QED BY <1>1, <2>1, SessionExpiresDoes, SessionExpiresSets DEF TypeOK, Exists
<1>3. Numbered'
  BY <1>1, SessionExpiresDoes, Typed, Fields, SessionExpiresSets, RestForm, IdleForm, Bounds
     DEF IInv, Numbered
<1>4. MemoryMatches'
  BY <1>1, SessionExpiresDoes, Typed, Fields, SessionExpiresSets, RestForm, IdleForm
     DEF IInv, MemoryMatches
<1>5. EnrolmentClean'
  BY <1>1, SessionExpiresDoes, Typed, Fields, SessionExpiresSets, RestForm, IdleForm,
     Bounds, NoStoreForm, EnrolledForm
     DEF IInv, EnrolmentClean, Untold, Exists
<1>6. MailMatches'
  BY <1>1, SessionExpiresDoes, Typed, Fields, SessionExpiresSets, RestForm, IdleForm
     DEF IInv, MailMatches
<1>7. PrekeysInHand'
  BY <1>1, SessionExpiresDoes, Typed, Fields, SessionExpiresSets, RestForm, IdleForm
     DEF IInv, PrekeysInHand, Exists, InHand
<1>8. PublishedOpens'
  BY <1>1, SessionExpiresDoes, Typed, Fields, SessionExpiresSets, RestForm, IdleForm,
     NoStoreForm
     DEF IInv, PublishedOpens, Exists
<1>9. HandshakesResolve'
  BY <1>1, SessionExpiresDoes, Typed, Fields, SessionExpiresSets, RestForm, IdleForm
     DEF IInv, HandshakesResolve
<1>10. AccountKept'
  BY <1>1, SessionExpiresDoes, Typed, Fields, SessionExpiresSets, RestForm, IdleForm
     DEF IInv, AccountKept, Untold
<1>11. DuressApart'
  BY <1>1, SessionExpiresDoes, Typed, Fields, SessionExpiresSets, RestForm, IdleForm
     DEF IInv, DuressApart
<1>12. NoGhosts'
  BY <1>1, SessionExpiresDoes, Typed, Fields, SessionExpiresSets, RestForm, IdleForm
     DEF IInv, NoGhosts
<1> QED BY <1>2, <1>3, <1>4, <1>5, <1>6, <1>7, <1>8, <1>9, <1>10, <1>11, <1>12 DEF IInv

LEMMA TickKeeps ==
  ASSUME IInv, Tick
  PROVE  IInv'
<1>1. TypeOK
  BY DEF IInv
<1>2. TypeOK'
  BY <1>1, TickDoes, Typed, Fields, RestForm, IdleForm, Bounds, NoStoreForm
     DEF IInv, TypeOK, Exists
<1>3. Numbered'
  BY <1>1, TickDoes, Typed, Fields, RestForm, IdleForm, Bounds
     DEF IInv, Numbered
<1>4. MemoryMatches'
  BY <1>1, TickDoes, Typed, Fields, RestForm, IdleForm
     DEF IInv, MemoryMatches
<1>5. EnrolmentClean'
  BY <1>1, TickDoes, Typed, Fields, RestForm, IdleForm, Bounds, NoStoreForm
     DEF IInv, EnrolmentClean, Untold, Exists
<1>6. MailMatches'
  BY <1>1, TickDoes, Typed, Fields, RestForm, IdleForm
     DEF IInv, MailMatches
<1>7. PrekeysInHand'
  BY <1>1, TickDoes, Typed, Fields, RestForm, IdleForm
     DEF IInv, PrekeysInHand, Exists, InHand
<1>8. PublishedOpens'
  BY <1>1, TickDoes, Typed, Fields, RestForm, IdleForm, NoStoreForm
     DEF IInv, PublishedOpens, Exists
<1>9. HandshakesResolve'
  <2>1. \A e \in mail : e.spk.at \in Nat
    BY <1>1, Typed, MailForms, SpkForms, Bounds
  <2>2. \A e \in mail' : e.spk.at + Rotation + Retention >= clock' =>
          e \in mail /\ e.spk.at + Rotation + Retention >= clock
    BY <1>1, <2>1, TickDoes, Typed, Bounds
  <2> QED BY <1>1, <2>2, TickDoes DEF IInv, HandshakesResolve
<1>10. AccountKept'
  BY <1>1, TickDoes, Typed, Fields, RestForm, IdleForm
     DEF IInv, AccountKept, Untold
<1>11. DuressApart'
  BY <1>1, TickDoes, Typed, Fields, RestForm, IdleForm
     DEF IInv, DuressApart
<1>12. NoGhosts'
  BY <1>1, TickDoes, Typed, Fields, RestForm, IdleForm
     DEF IInv, NoGhosts
<1> QED BY <1>2, <1>3, <1>4, <1>5, <1>6, <1>7, <1>8, <1>9, <1>10, <1>11, <1>12 DEF IInv

LEMMA CloseKeeps ==
  ASSUME IInv, Close
  PROVE  IInv'
<1>1. TypeOK
  BY DEF IInv
<1>2. TypeOK'
  BY <1>1, CloseDoes, Typed, Fields, RestForm, IdleForm, Bounds, NoStoreForm
     DEF IInv, TypeOK, Exists
<1>3. Numbered'
  BY <1>1, CloseDoes, Typed, Fields, RestForm, IdleForm, Bounds
     DEF IInv, Numbered
<1>4. MemoryMatches'
  BY <1>1, CloseDoes, Typed, Fields, RestForm, IdleForm
     DEF IInv, MemoryMatches
<1>5. EnrolmentClean'
  BY <1>1, CloseDoes, Typed, Fields, RestForm, IdleForm, Bounds, NoStoreForm
     DEF IInv, EnrolmentClean, Untold, Exists
<1>6. MailMatches'
  BY <1>1, CloseDoes, Typed, Fields, RestForm, IdleForm
     DEF IInv, MailMatches
<1>7. PrekeysInHand'
  BY <1>1, CloseDoes, Typed, Fields, RestForm, IdleForm
     DEF IInv, PrekeysInHand, Exists, InHand
<1>8. PublishedOpens'
  BY <1>1, CloseDoes, Typed, Fields, RestForm, IdleForm, NoStoreForm
     DEF IInv, PublishedOpens, Exists
<1>9. HandshakesResolve'
  BY <1>1, CloseDoes, Typed, Fields, RestForm, IdleForm
     DEF IInv, HandshakesResolve
<1>10. AccountKept'
  BY <1>1, CloseDoes, Typed, Fields, RestForm, IdleForm
     DEF IInv, AccountKept, Untold
<1>11. DuressApart'
  BY <1>1, CloseDoes, Typed, Fields, RestForm, IdleForm
     DEF IInv, DuressApart
<1>12. NoGhosts'
  BY <1>1, CloseDoes, Typed, Fields, RestForm, IdleForm
     DEF IInv, NoGhosts
<1> QED BY <1>2, <1>3, <1>4, <1>5, <1>6, <1>7, <1>8, <1>9, <1>10, <1>11, <1>12 DEF IInv

-----------------------------------------------------------------------------
(* All of it together. *)

LEMMA InitHolds == Init => IInv
<1> SUFFICES ASSUME Init PROVE IInv
  OBVIOUS
<1>1. /\ store = NoStore /\ server = NoAccount /\ mail = {} /\ paper = NoKey
      /\ dek = FALSE /\ ident = NoKey /\ token = FALSE /\ ws = FALSE
      /\ cmd = Rest /\ rx = Idle
      /\ clock = 0 /\ keys = 0 /\ prekeys = 0 /\ faults = 0 /\ unseen = FALSE
  BY DEF Init
<1>2. TypeOK
  <2>1. 0 \in Instant /\ 0 \in Key /\ 0 \in Serial /\ 0 \in 0..MaxFaults
    BY Bounds DEF Instant, Key, Serial
  <2> QED BY <1>1, <2>1, NoStoreForm, NoAccountForm, RestForm, Bounds DEF TypeOK
<1>3. Numbered /\ MemoryMatches /\ MailMatches /\ HandshakesResolve
  BY <1>1, NoStoreForm, NoAccountForm, RestForm, Bounds
     DEF Numbered, MemoryMatches, MailMatches, HandshakesResolve
<1>4. EnrolmentClean /\ PrekeysInHand /\ AccountKept
  BY <1>1, RestForm, NoAccountForm DEF EnrolmentClean, Untold, PrekeysInHand, AccountKept
<1>5. PublishedOpens /\ DuressApart /\ NoGhosts
  BY <1>1, NoStoreForm, DecoyForm DEF PublishedOpens, DuressApart, NoGhosts
<1> QED BY <1>2, <1>3, <1>4, <1>5 DEF IInv

LEMMA StutterKeeps ==
  ASSUME IInv, UNCHANGED vars
  PROVE  IInv'
<1>1. /\ store' = store /\ server' = server /\ mail' = mail /\ paper' = paper /\ dek' = dek
      /\ ident' = ident /\ token' = token /\ ws' = ws /\ rx' = rx /\ cmd' = cmd
      /\ clock' = clock /\ keys' = keys /\ prekeys' = prekeys /\ faults' = faults
      /\ unseen' = unseen
  BY DEF vars, memory, serials
<1>2. TypeOK' /\ Numbered' /\ MemoryMatches' /\ MailMatches' /\ HandshakesResolve'
  BY <1>1 DEF IInv, TypeOK, Exists, Numbered, MemoryMatches, MailMatches, HandshakesResolve
<1>3. EnrolmentClean' /\ PrekeysInHand' /\ AccountKept'
  BY <1>1 DEF IInv, EnrolmentClean, Untold, Exists, PrekeysInHand, InHand, AccountKept
<1>4. PublishedOpens' /\ DuressApart' /\ NoGhosts'
  BY <1>1 DEF IInv, PublishedOpens, Exists, DuressApart, NoGhosts
<1> QED BY <1>2, <1>3, <1>4 DEF IInv

LEMMA NextKeeps ==
  ASSUME IInv, [Next]_vars
  PROVE  IInv'
<1>1. CASE Enrol
  BY <1>1, BeginRegisterKeeps, BeginRecoverKeeps, AskRegisterKeeps, AskRecoverKeeps,
     CodeRefusedKeeps, WipeForRecoverKeeps, CreateStoreKeeps, PutIdentityKeeps, PutDefaultsKeeps
     DEF Enrol
<1>2. CASE Prekeys
  BY <1>2, BeginRefillKeeps, PersistSpkKeeps, PruneKeeps, PersistOpksKeeps, DrainedKeeps,
     FinishKeeps, KeysStatusKeeps, UploadSpkKeeps, UploadOpksKeeps
     DEF Prekeys
<1>3. CASE Access
  BY <1>3, BeginLoginKeeps, BeginPurgeKeeps, SignKeeps, VerifyKeeps, LogoutKeeps,
     DeleteAccountKeeps, RotatePassphraseKeeps, LockKeeps, WipeKeeps
     DEF Access
<1>4. CASE Duress
  BY <1>4, ArmDuressKeeps, DisarmDuressKeeps DEF Duress
<1>5. CASE Receiving
  BY <1>5, ReceiveKeeps, RespondKeeps, FileKeeps DEF Receiving
<1>6. CASE Around
  BY <1>6, PeerWritesKeeps, RecoverElsewhereKeeps, SessionExpiresKeeps, TickKeeps, CloseKeeps
     DEF Around
<1>7. CASE UNCHANGED vars
  BY <1>7, StutterKeeps
<1> QED BY <1>1, <1>2, <1>3, <1>4, <1>5, <1>6, <1>7 DEF Next

(* Whatever a device was doing when a request failed, an answer was lost, the
   tab was closed or the store was locked: types, numbers, what is in memory,
   how far an enrolment has come, what waits, and the properties below
   (identity.ts, store.ts, duress.ts, messaging.ts). *)
THEOREM DeviceHolds == Spec => []IInv
<1>1. Init => IInv
  BY InitHolds
<1>2. IInv /\ [Next]_vars => IInv'
  BY NextKeeps
<1> QED BY <1>1, <1>2, PTL DEF Spec

(* Every variable has its type, and the store goes as a whole. *)
THEOREM DeviceTyped == Spec => []TypeOK
<1>1. IInv => TypeOK
  BY DEF IInv
<1> QED BY <1>1, DeviceHolds, PTL

(* Whatever the server serves in this device's name, the device can open:
   secrets are persisted before they are published and pruned after
   (identity.ts), and a one-time secret goes only once a message that names it
   was opened (messaging.ts). *)
THEOREM PublishedHasSecret == Spec => []PublishedOpens
<1>1. IInv => PublishedOpens
  BY DEF IInv
<1> QED BY <1>1, DeviceHolds, PTL

(* A first message that waits names a signed prekey that is still here, for as
   long as rotation and retention together say (identity.ts:331). *)
THEOREM WaitingHasSecret == Spec => []HandshakesResolve
<1>1. IInv => HandshakesResolve
  BY DEF IInv
<1> QED BY <1>1, DeviceHolds, PTL

(* The codes the user wrote down are the ones in force, but for a command that
   has yet to show them or was cut off before it could (identity.ts). *)
THEOREM CodesInForce == Spec => []AccountKept
<1>1. IInv => AccountKept
  BY DEF IInv
<1> QED BY <1>1, DeviceHolds, PTL

(* The passphrase that unlocks is never the one that destroys, and the key
   sealed for the purge is the account's (duress.ts, store.ts). *)
THEOREM DuressStaysApart == Spec => []DuressApart
<1>1. IInv => DuressApart
  BY DEF IInv
<1> QED BY <1>1, DeviceHolds, PTL

(* Nothing sent to one identity is filed in the store of another (the epoch
   checks of messaging.ts). *)
THEOREM NothingMisfiled == Spec => []NoGhosts
<1>1. IInv => NoGhosts
  BY DEF IInv
<1> QED BY <1>1, DeviceHolds, PTL

===============================================================================
