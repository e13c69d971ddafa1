-------------------------------- MODULE Device --------------------------------
(***************************************************************************)
(* One device and its account: /register, /recover, /login and its         *)
(* maintenance, /keys refill, /logout, /lock, /rotate passphrase, /wipe    *)
(* (identity.ts), the duress passphrase (duress.ts), the store they live   *)
(* in (store.ts), and the receive lane that meanwhile answers handshakes   *)
(* with the prekeys the store holds (messaging.ts).                        *)
(*                                                                         *)
(* One command runs at a time; /lock does not wait for it.  A step ends    *)
(* where the code awaits the network or a write to the disk.  The server   *)
(* answers in one step (Accounts has its requests in detail); an answer    *)
(* may be lost, and the tab may be closed anywhere.                        *)
(*                                                                         *)
(* Identity keys are numbered in the order they are made.  The server      *)
(* issues a code set with each, which bears the key's number.  Time passes *)
(* between commands only.                                                  *)
(***************************************************************************)
EXTENDS Naturals, FiniteSets

CONSTANTS
  Pass,        \* passphrases
  NoPass,      \* none
  Batch,       \* OPK_BATCH_MAX
  Watermark,   \* OPK_LOW_WATERMARK
  Rotation, Retention,  \* SPK_ROTATION_DAYS, SPK_RETENTION_DAYS
  TTL,         \* how long the server keeps an envelope
  MaxKeys,     \* bound: identity keys made
  MaxPrekeys,  \* bound: prekeys made
  MaxClock,    \* bound: the clock
  MaxMail,     \* bound: first messages waiting
  MaxFaults    \* bound: failed requests, lost answers, closed tabs

ASSUME DeviceBounds ==
  /\ NoPass \notin Pass
  /\ {Batch, Watermark, Rotation, Retention, TTL, MaxKeys, MaxPrekeys, MaxClock,
      MaxMail, MaxFaults} \subseteq Nat
  /\ Watermark <= Batch /\ Batch > 0

VARIABLES
  \* on disk: the wrapped key, the identity, prekey secrets, the duress
  \* envelope, and whose messages were filed
  store,
  \* on the server: the key it honours, the prekeys it serves, whether the
  \* token it gave this device still stands
  server,
  mail,        \* first messages waiting at the server
  paper,       \* the code set the user has written down
  \* in memory
  dek, ident, token, ws, cmd, rx,
  \* history and bounds
  clock, keys, prekeys, faults,
  unseen       \* a command was cut off before it could show the codes

memory == <<dek, ident, token, ws, rx>>
serials == <<keys, prekeys>>
vars == <<store, server, mail, paper, memory, cmd, clock, serials, faults, unseen>>

NoKey == 0
NoSpk == [n |-> 0, at |-> 0]
Decoy == [pass |-> NoPass, key |-> NoKey]
NewStore(p) == [wrap |-> p, id |-> NoKey, spks |-> {}, opks |-> {},
                duress |-> Decoy, filed |-> {}]
NoStore == NewStore(NoPass)
Exists == store # NoStore

Enrolled(k) == [key |-> k, spk |-> NoSpk, opks |-> {}, live |-> FALSE]
NoAccount == Enrolled(NoKey)

Flow(why, pc, p) == [why |-> why, pc |-> pc, pass |-> p, key |-> NoKey, opks |-> 0]
Rest == Flow("none", "rest", NoPass)
NoMail == [key |-> NoKey, spk |-> NoSpk, opk |-> NoKey, at |-> 0]
Idle == [pc |-> "idle", env |-> NoMail, stale |-> FALSE]

Init ==
  /\ store = NoStore /\ server = NoAccount /\ mail = {} /\ paper = NoKey
  /\ dek = FALSE /\ ident = NoKey /\ token = FALSE /\ ws = FALSE
  /\ cmd = Rest /\ rx = Idle
  /\ clock = 0 /\ keys = 0 /\ prekeys = 0 /\ faults = 0 /\ unseen = FALSE

(* A request is answered, carried out but not answered, or neither. *)
Outcome == {"answered", "unanswered", "refused"}
Priced(o) == IF o = "answered" THEN UNCHANGED faults
             ELSE faults < MaxFaults /\ faults' = faults + 1
Reached(o) == o # "refused"

Go(pc) == cmd' = [cmd EXCEPT !.pc = pc]
Stop == cmd' = Rest

(* lockLocal: the epoch moves, so whatever the receive lane is at is stale. *)
LockLocal ==
  /\ dek' = FALSE /\ ident' = NoKey /\ ws' = FALSE
  /\ rx' = [rx EXCEPT !.stale = (rx.pc # "idle")]

Begin(flow) == cmd = Rest /\ cmd' = flow

-----------------------------------------------------------------------------
(* /register and /recover. *)

BeginRegister(p) ==
  /\ ~Exists
  /\ Begin(Flow("register", "ask", p))
  /\ UNCHANGED <<store, server, mail, paper, memory, clock, serials, faults, unseen>>

BeginRecover(p) ==
  /\ Begin(Flow("recover", "ask", p))
  /\ UNCHANGED <<store, server, mail, paper, memory, clock, serials, faults, unseen>>

(* A new account; if no answer comes nobody will ever know its UID. *)
AskRegister(o) ==
  /\ cmd.pc = "ask" /\ cmd.why = "register" /\ keys < MaxKeys
  /\ Priced(o)
  /\ keys' = keys + 1
  /\ IF o = "answered"
     THEN /\ server' = Enrolled(keys + 1) /\ mail' = {} /\ unseen' = FALSE
          /\ cmd' = [cmd EXCEPT !.pc = "create", !.key = keys + 1]
     ELSE Stop /\ UNCHANGED <<server, mail, unseen>>
  /\ UNCHANGED <<store, paper, memory, clock, prekeys>>

(* The server puts the new key in the old one's place and drops what hung on
   it; only then is the device torn down. *)
AskRecover(o) ==
  /\ cmd.pc = "ask" /\ cmd.why = "recover" /\ keys < MaxKeys
  /\ server.key # NoKey /\ paper = server.key
  /\ Priced(o)
  /\ keys' = keys + 1
  /\ IF Reached(o) THEN server' = Enrolled(keys + 1) /\ mail' = {}
                   ELSE UNCHANGED <<server, mail>>
  /\ unseen' = (unseen \/ o = "unanswered")
  /\ IF o = "answered"
     THEN /\ cmd' = [cmd EXCEPT !.pc = IF Exists THEN "wipe" ELSE "create", !.key = keys + 1]
          /\ token' = FALSE /\ LockLocal
     ELSE Stop /\ UNCHANGED memory
  /\ UNCHANGED <<store, paper, clock, prekeys>>

(* E205: the code is spent, or the UID unknown. *)
CodeRefused ==
  /\ cmd.pc = "ask" /\ cmd.why = "recover"
  /\ server.key = NoKey \/ paper # server.key
  /\ Stop
  /\ UNCHANGED <<store, server, mail, paper, memory, clock, serials, faults, unseen>>

WipeForRecover ==
  /\ cmd.pc = "wipe"
  /\ store' = NoStore /\ dek' = FALSE
  /\ Go("create")
  /\ UNCHANGED <<server, mail, paper, ident, token, ws, rx, clock, serials,
                 faults, unseen>>

CreateStore ==
  /\ cmd.pc = "create"
  /\ store' = NewStore(cmd.pass) /\ dek' = TRUE
  /\ cmd' = [cmd EXCEPT !.pc = "identity", !.why = "enrol", !.pass = NoPass]
  /\ UNCHANGED <<server, mail, paper, ident, token, ws, rx, clock, serials,
                 faults, unseen>>

(* The record was sealed when the store was made; the next write needs the
   store unlocked still. *)
PutIdentity ==
  /\ cmd.pc = "identity"
  /\ store' = [store EXCEPT !.id = cmd.key]
  /\ IF dek THEN Go("defaults") ELSE Stop
  /\ unseen' = (unseen \/ ~dek)
  /\ UNCHANGED <<server, mail, paper, memory, clock, serials, faults>>

\* Mutant: the codes are shown last of all, after the login and the upload.
MutPutDefaults ==
  /\ cmd.pc = "defaults"
  /\ ident' = cmd.key
  /\ Go("sign")
  /\ UNCHANGED <<store, server, mail, paper, dek, token, ws, rx, clock, serials, faults, unseen>>

(* The default settings, the duress record last of all, and the codes are
   shown, before the network is needed again.  A lock before the last record
   is sealed ends the command; a lock while it is written does not. *)
PutDefaults ==
  /\ cmd.pc = "defaults"
  /\ \/ ident' = cmd.key /\ paper' = cmd.key /\ Go("sign") /\ UNCHANGED unseen
     \/ ~dek /\ Stop /\ unseen' = TRUE /\ UNCHANGED <<ident, paper>>
  /\ UNCHANGED <<store, server, mail, dek, token, ws, rx, clock, serials, faults>>

-----------------------------------------------------------------------------
(* The challenge and its answer. *)

(* The challenge is fetched and signed, if the key is still in memory. *)
Sign(o) ==
  /\ cmd.pc = "sign"
  /\ Priced(o)
  /\ IF o = "answered" /\ ident # NoKey
     THEN cmd' = [cmd EXCEPT !.pc = "verify", !.key = ident] ELSE Stop
  /\ UNCHANGED <<store, server, mail, paper, memory, clock, serials, unseen>>

Honoured == server.key # NoKey /\ cmd.key = server.key

(* The token is adopted even if the device was locked meanwhile.  A key the
   server does not honour ends the command (E210, E202). *)
Verify(o) ==
  /\ cmd.pc = "verify"
  /\ Priced(o)
  /\ server' = IF Reached(o) /\ Honoured THEN [server EXCEPT !.live = TRUE] ELSE server
  /\ IF o = "answered" /\ Honoured
     THEN /\ token' = TRUE
          /\ cmd' = Flow(cmd.why, IF cmd.why = "login" THEN "status" ELSE "spk", NoPass)
     ELSE UNCHANGED token /\ Stop
  /\ UNCHANGED <<store, mail, paper, dek, ident, ws, rx, clock, serials, unseen>>

-----------------------------------------------------------------------------
(* Prekeys: rotateSpkInternal, refillOpksInternal, postLoginMaintenance. *)

(* What an authenticated request needs; without it, E202 and the token is
   forgotten. *)
Standing == token /\ server.live

Newest == CHOOSE s \in store.spks : \A t \in store.spks : t.n <= s.n
SpkDue == server.spk = NoSpk \/ store.spks = {} \/ clock - Newest.at > Rotation
Kept(s) == s.at + Rotation + Retention >= clock
Missing(least) == IF Cardinality(server.opks) < least
                  THEN Batch - Cardinality(server.opks) ELSE 0

(* /keys refill asks first, as the login does. *)
KeysStatus(o) ==
  /\ cmd.pc = "status"
  /\ Priced(o)
  /\ IF o = "answered" /\ Standing
     THEN LET n == Missing(IF cmd.why = "login" THEN Watermark ELSE Batch) IN
          /\ cmd' = CASE cmd.why = "login" /\ SpkDue -> [cmd EXCEPT !.pc = "spk", !.opks = n]
                      [] n > 0 -> [cmd EXCEPT !.pc = "opk", !.opks = n]
                      [] cmd.why = "login" -> [cmd EXCEPT !.pc = "drain"]
                      [] OTHER -> Rest
          /\ UNCHANGED token
     ELSE Stop /\ token' = (token /\ (server.live \/ o # "answered"))
  /\ UNCHANGED <<store, server, mail, paper, dek, ident, ws, rx, clock,
                 serials, unseen>>

(* Each secret is on disk before its public half leaves. *)
Ready == ident # NoKey /\ token /\ dek

\* Mutant: the new prekey takes the old one's place before it is served.
MutPersistSpk ==
  /\ cmd.pc = "spk" /\ prekeys < MaxPrekeys
  /\ IF Ready
     THEN /\ store' = [store EXCEPT !.spks = {[n |-> prekeys + 1, at |-> clock]}]
          /\ prekeys' = prekeys + 1
          /\ Go("uploadSpk")
     ELSE Stop /\ UNCHANGED <<store, prekeys>>
  /\ UNCHANGED <<server, mail, paper, memory, clock, keys, faults, unseen>>

PersistSpk ==
  /\ cmd.pc = "spk" /\ prekeys < MaxPrekeys
  /\ IF Ready
     THEN /\ store' = [store EXCEPT !.spks = @ \cup {[n |-> prekeys + 1, at |-> clock]}]
          /\ prekeys' = prekeys + 1
          /\ Go("uploadSpk")
     ELSE Stop /\ UNCHANGED <<store, prekeys>>
  /\ UNCHANGED <<server, mail, paper, memory, clock, keys, faults, unseen>>

AfterSpk == IF cmd.why = "login" /\ cmd.opks = 0 THEN "drain" ELSE "opk"

Upload(o, served, pc) ==
  /\ Priced(o)
  /\ server' = IF Reached(o) /\ Standing THEN served ELSE server
  /\ IF o = "answered" /\ Standing
     THEN Go(pc) /\ UNCHANGED token
     ELSE Stop /\ token' = (token /\ (server.live \/ o # "answered"))

UploadSpk(o) ==
  /\ cmd.pc = "uploadSpk"
  /\ Upload(o, [server EXCEPT !.spk = Newest], "prune")
  /\ UNCHANGED <<store, mail, paper, dek, ident, ws, rx, clock, serials, unseen>>

\* Mutant: only the prekey that is published is kept.
MutPrune ==
  /\ cmd.pc = "prune"
  /\ store' = [store EXCEPT !.spks = {server.spk}]
  /\ Go(AfterSpk)
  /\ UNCHANGED <<server, mail, paper, memory, clock, serials, faults, unseen>>

(* Secrets older than rotation and retention together are deleted. *)
Prune ==
  /\ cmd.pc = "prune"
  /\ store' = [store EXCEPT !.spks = {s \in @ : Kept(s)}]
  /\ Go(AfterSpk)
  /\ UNCHANGED <<server, mail, paper, memory, clock, serials, faults, unseen>>

Made(n) == (prekeys + 1)..(prekeys + n)
BatchSize == IF cmd.why = "enrol" THEN Batch ELSE cmd.opks

PersistOpks ==
  /\ cmd.pc = "opk" /\ prekeys + BatchSize <= MaxPrekeys
  /\ IF Ready
     THEN /\ store' = [store EXCEPT !.opks = @ \cup Made(BatchSize)]
          /\ prekeys' = prekeys + BatchSize
          /\ cmd' = [cmd EXCEPT !.pc = "uploadOpks", !.opks = BatchSize]
     ELSE Stop /\ UNCHANGED <<store, prekeys>>
  /\ UNCHANGED <<server, mail, paper, memory, clock, keys, faults, unseen>>

(* The batch last made. *)
InHand == (prekeys - cmd.opks + 1)..prekeys
UploadOpks(o) ==
  /\ cmd.pc = "uploadOpks"
  /\ Upload(o, [server EXCEPT !.opks = @ \cup InHand],
            [login |-> "drain", refill |-> "done", enrol |-> "connect"][cmd.why])
  /\ UNCHANGED <<store, mail, paper, dek, ident, ws, rx, clock, serials, unseen>>

(* A drain ends with the inbox empty, or with a request that failed. *)
Drained ==
  /\ cmd.pc = "drain" /\ rx = Idle
  /\ IF dek THEN Go("connect") ELSE Stop
  /\ UNCHANGED <<store, server, mail, paper, memory, clock, serials, faults, unseen>>

Finish ==
  /\ cmd.pc \in {"connect", "done"}
  /\ ws' = (ws \/ (cmd.pc = "connect" /\ server.live))
  /\ Stop
  /\ UNCHANGED <<store, server, mail, paper, dek, ident, token, rx, clock,
                 serials, faults, unseen>>

BeginRefill ==
  /\ token /\ ident # NoKey
  /\ Begin(Flow("refill", "status", NoPass))
  /\ UNCHANGED <<store, server, mail, paper, memory, clock, serials, faults, unseen>>

-----------------------------------------------------------------------------
(* /login, /logout, /lock, /rotate passphrase, /wipe. *)

Unlocks(p) == p = store.wrap
Destroys(p) == p = store.duress.pass

(* Opening the store restores the identity it holds (or E402). *)
BeginLogin(p) ==
  /\ Exists
  /\ dek \/ Unlocks(p)
  /\ dek' = TRUE /\ ident' = IF store.id = NoKey THEN ident ELSE store.id
  /\ Begin(IF store.id = NoKey THEN Rest ELSE Flow("login", "sign", NoPass))
  /\ UNCHANGED <<store, server, mail, paper, token, ws, rx, clock, serials, faults, unseen>>

(* A passphrase that opens nothing may be the duress one: the device is torn
   down first, the account after. *)
BeginPurge(p) ==
  /\ Exists /\ ~dek /\ ~Unlocks(p) /\ Destroys(p)
  /\ Begin([Flow("purge", "purge", NoPass) EXCEPT !.key = store.duress.key])
  /\ LockLocal /\ token' = FALSE
  /\ store' = NoStore
  /\ UNCHANGED <<server, mail, paper, clock, serials, faults, unseen>>

(* Whatever becomes of the request, nothing is said. *)
DeleteAccount(o) ==
  /\ cmd.pc = "purge"
  /\ Priced(o)
  /\ IF Reached(o) /\ Honoured THEN server' = NoAccount /\ mail' = {}
                               ELSE UNCHANGED <<server, mail>>
  /\ Stop
  /\ UNCHANGED <<store, paper, memory, clock, serials, unseen>>

(* A request that fails, or that a lapsed session sends, forgets the token
   and leaves the store open. *)
Logout(o) ==
  /\ Begin(Rest)
  /\ Priced(o)
  /\ server' = IF Reached(o) /\ token THEN [server EXCEPT !.live = FALSE] ELSE server
  /\ token' = FALSE
  /\ IF ~token \/ (o = "answered" /\ server.live)
     THEN LockLocal
     ELSE UNCHANGED <<dek, ident, ws, rx>>
  /\ UNCHANGED <<store, mail, paper, clock, serials, unseen>>

(* Typed, or after ten idle minutes; it does not wait for a command. *)
Lock ==
  /\ dek \/ ident # NoKey
  /\ LockLocal
  /\ UNCHANGED <<store, server, mail, paper, token, cmd, clock, serials, faults, unseen>>

Rewrapped(q) == [store EXCEPT !.wrap = q]

\* Mutant: the new passphrase is not tried on the duress envelope.
MutRotatePassphrase(p, q) ==
  /\ Exists /\ Unlocks(p)
  /\ Begin(Rest)
  /\ store' = Rewrapped(q)
  /\ UNCHANGED <<server, mail, paper, memory, clock, serials, faults, unseen>>

RotatePassphrase(p, q) ==
  /\ Exists /\ Unlocks(p) /\ ~Destroys(q)
  /\ Begin(Rest)
  /\ store' = Rewrapped(q)
  /\ UNCHANGED <<server, mail, paper, memory, clock, serials, faults, unseen>>

(* Typed twice within half a minute, with no other command in between. *)
Wipe ==
  /\ cmd = Rest
  /\ LockLocal /\ token' = FALSE
  /\ store' = NoStore
  /\ UNCHANGED <<server, mail, paper, cmd, clock, serials, faults, unseen>>

-----------------------------------------------------------------------------
(* /duress set and /duress off.  The flag that /duress status reads is left
   out: nothing else depends on it. *)

Sealed(p, k) == [pass |-> p, key |-> k]

ArmDuress(p) ==
  /\ dek /\ ident # NoKey /\ ~Unlocks(p)
  /\ Begin(Rest)
  /\ store' = [store EXCEPT !.duress = Sealed(p, ident)]
  /\ UNCHANGED <<server, mail, paper, memory, clock, serials, faults, unseen>>

DisarmDuress ==
  /\ dek
  /\ Begin(Rest)
  /\ store' = [store EXCEPT !.duress = Decoy]
  /\ UNCHANGED <<server, mail, paper, memory, clock, serials, faults, unseen>>

-----------------------------------------------------------------------------
(* The receive lane: a first message is answered with the prekeys it names. *)

Listening == token /\ server.live /\ (ws \/ cmd.pc = "drain")

Receive(e) ==
  /\ Listening /\ ident # NoKey /\ dek /\ rx = Idle
  /\ rx' = [pc |-> "lookup", env |-> e, stale |-> FALSE]
  /\ UNCHANGED <<store, server, mail, paper, dek, ident, token, ws, cmd, clock,
                 serials, faults, unseen>>

Opens(e) == e.spk \in store.spks /\ (e.opk = NoKey \/ e.opk \in store.opks)

(* The secrets are looked up.  A prekey that is gone: E511, and the message
   is acknowledged.  A one-time secret that is used goes at once. *)
Respond ==
  /\ rx.pc = "lookup"
  /\ IF rx.stale THEN rx' = Idle /\ UNCHANGED <<store, mail>>
     ELSE IF ~Opens(rx.env) THEN rx' = Idle /\ mail' = mail \ {rx.env} /\ UNCHANGED store
     ELSE /\ store' = [store EXCEPT !.opks = @ \ {rx.env.opk}]
          /\ rx' = [rx EXCEPT !.pc = "opened"]
          /\ UNCHANGED mail
  /\ UNCHANGED <<server, paper, dek, ident, token, ws, cmd, clock, serials, faults, unseen>>

\* Mutant: no epoch check after the sender was looked up.
MutFile ==
  /\ rx.pc = "opened"
  /\ rx' = Idle
  /\ IF dek
     THEN store' = [store EXCEPT !.filed = @ \cup {rx.env.key}] /\ mail' = mail \ {rx.env}
     ELSE UNCHANGED <<store, mail>>
  /\ UNCHANGED <<server, paper, dek, ident, token, ws, cmd, clock, serials, faults, unseen>>

(* The session, or the contact request, is stored and the message
   acknowledged; not if the device was locked meanwhile. *)
File ==
  /\ rx.pc = "opened"
  /\ rx' = Idle
  /\ IF dek /\ ~rx.stale
     THEN store' = [store EXCEPT !.filed = @ \cup {rx.env.key}] /\ mail' = mail \ {rx.env}
     ELSE UNCHANGED <<store, mail>>
  /\ UNCHANGED <<server, paper, dek, ident, token, ws, cmd, clock, serials, faults, unseen>>

-----------------------------------------------------------------------------
(* What happens around the device. *)

(* A peer takes a bundle, with a one-time prekey while there are any, and
   writes. *)
PeerWrites ==
  /\ server.spk # NoSpk /\ Cardinality(mail) < MaxMail
  /\ \E opk \in IF server.opks = {} THEN {NoKey} ELSE server.opks :
       /\ server' = [server EXCEPT !.opks = @ \ {opk}]
       /\ mail' = mail \cup {[key |-> server.key, spk |-> server.spk, opk |-> opk, at |-> clock]}
  /\ UNCHANGED <<store, paper, memory, cmd, clock, serials, faults, unseen>>

(* The codes are used on another device, and the new ones written down. *)
RecoverElsewhere ==
  /\ server.key # NoKey /\ paper = server.key /\ keys < MaxKeys
  /\ server' = Enrolled(keys + 1) /\ mail' = {}
  /\ paper' = keys + 1 /\ keys' = keys + 1
  /\ UNCHANGED <<store, memory, cmd, clock, prekeys, faults, unseen>>

SessionExpires ==
  /\ server.live
  /\ server' = [server EXCEPT !.live = FALSE]
  /\ UNCHANGED <<store, mail, paper, memory, cmd, clock, serials, faults, unseen>>

(* No command, and no message, is under way for days. *)
Tick ==
  /\ clock < MaxClock /\ cmd = Rest /\ rx = Idle
  /\ clock' = clock + 1
  /\ mail' = {e \in mail : e.at + TTL >= clock + 1}
  /\ UNCHANGED <<store, server, paper, memory, cmd, serials, faults, unseen>>

Untold == cmd.pc \in {"wipe", "create", "identity", "defaults"}

(* The tab is closed, with whatever was under way. *)
Close ==
  /\ faults < MaxFaults /\ faults' = faults + 1
  /\ dek' = FALSE /\ ident' = NoKey /\ token' = FALSE /\ ws' = FALSE
  /\ rx' = Idle /\ Stop
  /\ unseen' = (unseen \/ Untold)
  /\ UNCHANGED <<store, server, mail, paper, clock, serials>>

-----------------------------------------------------------------------------
Enrol ==
  \/ \E p \in Pass : BeginRegister(p) \/ BeginRecover(p)
  \/ \E o \in Outcome : AskRegister(o) \/ AskRecover(o)
  \/ CodeRefused \/ WipeForRecover \/ CreateStore \/ PutIdentity \/ PutDefaults
Prekeys ==
  \/ BeginRefill \/ PersistSpk \/ Prune \/ PersistOpks \/ Drained \/ Finish
  \/ \E o \in Outcome : KeysStatus(o) \/ UploadSpk(o) \/ UploadOpks(o)
Access ==
  \/ \E p \in Pass : BeginLogin(p) \/ BeginPurge(p)
  \/ \E o \in Outcome : Sign(o) \/ Verify(o) \/ Logout(o) \/ DeleteAccount(o)
  \/ \E p, q \in Pass : RotatePassphrase(p, q)
  \/ Lock \/ Wipe
Duress == (\E p \in Pass : ArmDuress(p)) \/ DisarmDuress
Receiving == (\E e \in mail : Receive(e)) \/ Respond \/ File
Around == PeerWrites \/ RecoverElsewhere \/ SessionExpires \/ Tick \/ Close

Next == Enrol \/ Prekeys \/ Access \/ Duress \/ Receiving \/ Around
Spec == Init /\ [][Next]_vars

-----------------------------------------------------------------------------
Key == 0..MaxKeys
Serial == 0..MaxPrekeys
Instant == 0..MaxClock
MaybePass == Pass \cup {NoPass}
Spk == [n : Serial, at : Instant]
Mail == [key : Key, spk : Spk, opk : Serial, at : Instant]
Envelope == [pass : MaybePass, key : Key]
Store == [wrap : MaybePass, id : Key, spks : SUBSET Spk, opks : SUBSET Serial,
          duress : Envelope, filed : SUBSET Key]
Account == [key : Key, spk : Spk, opks : SUBSET Serial, live : BOOLEAN]
Before == {"rest", "ask", "wipe", "create", "purge"}
Step == Before \cup {"identity", "defaults", "sign", "verify", "status", "spk", "uploadSpk",
                    "prune", "opk", "uploadOpks", "drain", "connect", "done"}
Command ==
  {c \in [why : {"none", "register", "recover", "enrol", "login", "refill", "purge"},
          pc : Step, pass : MaybePass, key : Key, opks : 0..Batch] :
     c.pc \in Before \/ c.why \in {"enrol", "login", "refill"}}
Answering == [pc : {"lookup", "opened"}, env : Mail, stale : BOOLEAN]

(* Every variable has its type, and what there is of the store goes as a whole. *)
TypeOK ==
  /\ store \in Store /\ (store.wrap = NoPass => store = NoStore)
  /\ server \in Account /\ (server.key = NoKey => server = NoAccount)
  /\ mail \subseteq Mail /\ paper \in Key
  /\ dek \in BOOLEAN /\ ident \in Key /\ token \in BOOLEAN /\ ws \in BOOLEAN
  /\ dek => Exists
  /\ rx = Idle \/ rx \in Answering
  /\ cmd \in Command
  /\ unseen \in BOOLEAN
  /\ clock \in Instant /\ keys \in Key /\ prekeys \in Serial /\ faults \in 0..MaxFaults

(* Whatever the server serves in this device's name, the device can open: the
   signed prekey and every one-time prekey on offer have their secret in the
   store (identity.ts persists before it uploads and prunes after), whatever
   fails in between. *)
PublishedOpens ==
  Exists /\ store.id # NoKey /\ store.id = server.key =>
    /\ server.spk # NoSpk => server.spk \in store.spks
    /\ server.opks \subseteq store.opks

(* The user can always get back into the account: the codes written down are
   the ones in force.  Not so only while a command has yet to show new ones,
   and after one that was cut off before it could (identity.ts:246). *)
AccountKept == server.key # NoKey => server.key = paper \/ Untold \/ unseen

(* The passphrase that unlocks is never the one that destroys, and the sealed
   key is the account's as this device knows it (duress.ts, E211). *)
DuressApart ==
  store.duress # Decoy => /\ store.duress.pass # store.wrap
                          /\ store.duress.key = store.id

(* Nothing that was sent to an identity is filed in the store of another,
   however the receive lane and /recover or /wipe interleave (the epoch
   checks of messaging.ts). *)
NoGhosts == store.filed \subseteq {store.id}

(* A first message that waits at the server names a signed prekey whose
   secret is still here, until that prekey is older than rotation and
   retention together (identity.ts:331).  The server keeps the message for
   longer than that. *)
HandshakesResolve ==
  \A e \in mail :
    e.key = store.id /\ e.spk.at + Rotation + Retention >= clock => e.spk \in store.spks

-----------------------------------------------------------------------------
(* What makes them inductive. *)

(* Keys and prekeys are numbered in the order they are made. *)
Numbered ==
  /\ store.id <= keys /\ server.key <= keys /\ paper <= keys /\ cmd.key <= keys
  /\ \A s \in store.spks : s.n <= prekeys
  /\ store.opks \subseteq 1..prekeys /\ server.opks \subseteq 1..prekeys
  /\ \A e \in mail : e.opk <= prekeys
  /\ rx # Idle => rx.env.opk <= prekeys

(* The key in memory is the store's; a token is held by a device that has one,
   and a token that stands was given to that key. *)
MemoryMatches ==
  /\ ident # NoKey => ident = store.id
  /\ token => store.id # NoKey
  /\ token /\ server.live => store.id = server.key
  /\ cmd.pc = "verify" => cmd.key = store.id

(* How far /register or /recover has come.  Until the codes are shown nobody
   else can move the account. *)
EnrolmentClean ==
  /\ cmd.pc = "create" \/ (cmd.pc = "ask" /\ cmd.why = "register") => store = NoStore
  /\ cmd.pc \in {"ask", "wipe", "create"} => cmd.pass \in Pass
  /\ Untold => /\ server = Enrolled(cmd.key) /\ mail = {}
               /\ cmd.key # NoKey /\ paper # cmd.key /\ ~token
  /\ cmd.pc \in {"wipe", "create", "identity"} => ident = NoKey
  /\ cmd.pc = "wipe" => rx = Idle \/ rx.stale
  /\ cmd.pc = "identity" => Exists /\ store = NewStore(store.wrap)
  /\ cmd.pc = "defaults" => store.id = cmd.key

(* A message waits for the key the server honours, and one that is being
   answered, with the epoch it came in still on, for the store's.  A one-time
   prekey a message names is on offer no more. *)
MailMatches ==
  /\ \A e \in mail : e.key = server.key /\ e.key # NoKey /\ e.opk \notin server.opks
  /\ rx # Idle => /\ rx.env.key # NoKey /\ rx.env.opk \notin server.opks
                  /\ ~rx.stale => rx.env.key = store.id

(* The prekeys a command is at are the last made, and in the store. *)
PrekeysInHand ==
  /\ cmd.pc \in {"uploadSpk", "prune"} => Exists
  /\ cmd.pc = "uploadSpk" =>
       /\ [n |-> prekeys, at |-> clock] \in store.spks
       /\ \A s \in store.spks : s.n = prekeys => s.at = clock
  /\ cmd.pc = "prune" => server.spk.at = clock \/ server.key # store.id
  /\ cmd.pc = "uploadOpks" =>
       /\ cmd.opks <= prekeys /\ InHand \subseteq store.opks
       /\ InHand \cap server.opks = {}
       /\ \A e \in mail : e.opk \notin InHand
       /\ rx # Idle => rx.env.opk \notin InHand

IInv ==
  /\ TypeOK /\ Numbered /\ MemoryMatches /\ EnrolmentClean /\ MailMatches
  /\ PrekeysInHand /\ PublishedOpens /\ HandshakesResolve
  /\ AccountKept /\ DuressApart /\ NoGhosts
===============================================================================
