# Verification of Meridian Edge

TLA+ models of Meridian Edge, a post-quantum end-to-end encrypted terminal
messenger (`src/`), the TLC runs that check them on small instances, and
theorems that TLAPS proves for every value of the constants.

    tlc -workers 2 -config MCRatchet.cfg MCRatchet.tla      # a run
    tlapm RatchetProofs.tla                                 # a proof module

`PROJECT.json` lists the components, the runs with their properties, one
plausible bug ("mutant") per property that the run catches, the source lines
behind every definition, the findings, the hazards and the theorems.

Contents: 1 the system; 2 hazards; 3 modules and their correspondence with the
code; 4 runs, bounds, fairness; 5 proofs; 6 findings and observations; 7 what is
not modelled; 8 plan.

## 1. The system

A browser client (`src/client/src`) and a store-and-forward server
(`src/server/app`, FastAPI, **one process**). The server never holds a key that
opens a message. All message security lives in the clients; the server decides
only what is delivered, in what order, how often and to whom.

### Server

State on disk (`models.py`): `users`, `recovery_codes`, `login_nonces`,
`session_tokens`, `signed_prekeys`, `opk_batches`, `one_time_prekeys`,
`message_queue`. State in memory: the `WsHub` of live connections, the token
buckets of the rate limiters.

| component | state | operations | interacts with | hard behaviours | correct when |
|---|---|---|---|---|---|
| **Message queue** `routes/messages.py` | `message_queue` rows, by recipient | send (sweep, cap, insert, commit, push), fetch, ack (at most `ACK_MAX_IDS` ids) | hub, client drain | a send commits while a connection attaches; rows expire after 14 days | nothing unread leaves the queue; cap holds |
| **Live delivery** `ws.py` | hub, one endpoint task per connection | authenticate on the first frame, rotate the token, register, push the backlog, push live, take acks, idle out | queue, client `WsClient` | awaits between the backlog's frames, broken sockets, repeats | backlog and live push leave no gap |
| **Accounts and sessions** `auth.py`, `routes/{login,recover,account,sessions}.py`, `security.py` | users, nonces (60 s), tokens (15 min idle), recovery codes | challenge, verify, recover, list sessions, sign out here or everywhere else, delete account | every authenticated route | READ COMMITTED transactions interleave: read, check, set | a nonce or code works once; a replaced identity keeps no access |
| **Prekeys** `routes/keys.py`, `routes/bundles.py` | signed prekeys, batches of 50, cap 200 | upload, claim one on each bundle fetch | handshake | two fetches race for a key; cap checked, then inserted | one fetch, one key |
| **Registration** `routes/register.py`, `uid.py` | users | draw a UID, insert, retry | - | UID collision | UID unique |
| **Rate limiting** `rate_limit.py` | a bucket per key | allow, evict | all routes | clock steps, eviction of a drained bucket | at most capacity + rate x time |
| **Assembly** `main.py`, `headers.py`, `errors.py`, `security_log.py`, `db.py`, `deps.py`, `models.py`, `schemas.py`, `constants.py` | - | configuration, headers, logging | - | - | - |

### Client

One tab holds one `Executor` (`terminal/executor/index.ts`) with three lanes: a
**command lane** (`run`, one command at a time: a busy flag refuses a second), a
**receive lane** (`rxTail`, a promise chain, one envelope at a time) and a
render lane. Lanes do not exclude one another. `/lock` runs at once, raises
`epoch`, and every continuation that wakes up in a later epoch must notice. The
**keystore** (`crypto/store.ts`, IndexedDB) is asynchronous: a record is read,
changed and written with awaits in between.

| component | state | operations | interacts with | hard behaviours | correct when |
|---|---|---|---|---|---|
| **KEM double ratchet** `crypto/ratchet.ts` | one record per session: roots, chains, header keys, offered and peer KEM keys, skip cache (at most `MAX_SKIP`, 256) | `initRatchet`, `ratchetEncrypt`, `ratchetDecrypt` | lanes | loss, reordering, replays, both peers speaking at once | keys used once; a message in order opens; bounded cache |
| **Lanes and session records** `index.ts`, `messaging.ts` | `session/<uid>` | send: read, encrypt, write, post; receive: read, decrypt, write, record, ack | ratchet, queue | a read-modify-write in each lane, over the same record | the stored record moves as if by one lane |
| **Handshake and requests** `crypto/kx.ts`, `messaging.ts`, `contacts.ts` | `session/`, `pending/`, `opk/`, contacts | first message, answer, hold, bind, `/add`, `/remove` | prekeys, queue, ratchet | crossing first messages, redelivered handshakes, a tab closed half-way | both sides on one session; a keyed handshake answered once |
| **Prekeys** `crypto/prekeys.ts`, `identity.ts` | `spk/`, `opk/` secrets | generate, persist, upload, rotate (7 d), retain (7 d), refill below 20 | server prekeys | crash between persist and upload; maintenance runs before the drain | every key on offer has its secret here |
| **Identity flows** `identity.ts` | `identity`, token | `/register`, `/recover`, `/login`, `/logout`, `/lock`, `/rotate passphrase`, `/wipe` | server accounts, keystore | crash between server commit and local write | no account without a usable way in |
| **Keystore** `crypto/store.ts` | meta record (wrapped DEK, salt, duress envelope), encrypted records | create, unlock, lock, passphrase change, wipe | all | write of meta vs crash, lock during a write | the passphrase in force opens it |
| **Duress** `duress.ts` | second envelope in meta, flag record | arm, disarm, destroy on unlock | keystore, account | two writes to arm; purge before network | armed state and flag agree |
| **Contacts and trust** `contacts.ts`, `trust.ts` | contacts with pinned key, verified, blocked | `/verify`, `/verified`, `/ack`, automatic trust | handshake | pin changes between showing and confirming a number | verified only for the key that was shown |
| **Groups** `groups.ts`, `group-commands.ts` | group records, per member | create, invite, remove, leave, fan-out | pairwise sessions | a command and an envelope change one record | rosters converge; no admission without rules |
| **Timers and deletion** `lifecycle.ts` | timers, history | purge, mutual timers, cooperative deletion | records | two writers of a contact record | only the author deletes |
| **Records and timestamps** `records.ts`, `payload.ts` | `msg/<uid>/` | stamp, clamp, store | ratchet order | peer clocks | order kept within a session |
| **Envelope codec** `crypto/envelope.ts`; **primitives** `crypto/{constants,login,safetynumber}.ts`, `pqc.py` | - | encode, decode, sign, seal | - | - | vectors agree |
| **REST client** `net/api.ts`, **live client** `net/ws.ts` | a socket | requests; connect, ack, close | server | a response lost after the server committed | - |
| **Terminal** `shell.ts`, `chrome.ts`, `main.ts`; dispatch and focus in `index.ts`, `views.ts` | the input line, its history, one pending prompt, the dropdown; busy flag, idle timer, the conversation on screen and the one before | keys, prompts (`readSecret`, `readLine`), `handle`, `run`, `/home`, `/chat`, `/return` | every command, keystore (lock) | keys between a prompt and its answer; focus changed after an await, by another lane, or by a lock | secrets stay at their prompt; a line goes where its prompt says; an idle store locks |
| **Views, settings, rest of the terminal, benchmarks** | preferences, DOM | rendering | - | - | - |

### How the parts interact

1. *First message.* `sendFirstMessage` fetches the peer's bundle, which takes one
   of their one-time prekeys off offer, posts a KX envelope and only then stores
   the session. The peer's receive lane answers it (`respondKx`), deletes the
   one-time secret at once, and stores the session (a contact) or holds it as a
   request (a stranger) until `/add`.
2. *Later messages.* The session record is advanced and written, then the
   envelope is posted. The receiver tries every stored session; the one that
   opens it is advanced and written, the text recorded, the envelope
   acknowledged. An envelope that nothing opens is acknowledged too (E505).
3. *Delivery.* `/login` drains the queue over REST, acknowledges everything it
   handled in one request, and opens a WebSocket. The server registers the
   connection, reads the backlog without an await in between, and pushes it
   while new messages are pushed live; the receive lane serialises both.

## 2. Hazards

`PROJECT.json` lists the main ones at their lines, with the properties that watch them. Some
of them do happen: then a property claims what is left and sets the case apart by a
history variable, which the hazard's note names, or no property claims anything and
the note says so; section 6 describes each. In short:

- *Two lanes on one record*: sessions (`messaging.ts:736`), contacts
  (`trust.ts:138`, `messaging.ts:276`), groups (`group-commands.ts:238`), timers
  (`lifecycle.ts:32`).
- *Both ends acting at once*: turns (`ratchet.ts:189`), first messages
  (`messaging.ts:646`), group changes (`messaging.ts:125`).
- *Loss, disorder, repetition*: the message that carries a turn's key
  encapsulation (`ratchet.ts:162, 239`), a lost acknowledgement
  (`messaging.ts:744, 570`), a deletion that overtakes its text
  (`lifecycle.ts:239`).
- *A tab closed or a store locked between two writes*: `messaging.ts:267, 354,
  573, 768, 800`, `contacts.ts:51`, `identity.ts:246, 328`, `duress.ts:118`.
- *Interleaved transactions*: `ws.py:147, 209`, `login.py:133`, `recover.py:125`,
  `bundles.py:128`, `sessions.py:69`.
- *A prompt, a key and a lane*: `shell.ts:89`, `index.ts:454`, `messaging.ts:952`,
  `contacts.ts:238`.
- *Limits and clocks*: `ratchet.ts:407`, `messages.py:95`, `messaging.ts:1025`,
  `keys.py:79`, `rate_limit.py:35`, `records.ts:161`, `lifecycle.ts:57`,
  `identity.ts:337`.

## 3. Modules

| module | models | composes |
|---|---|---|
| `RatchetOps` | `ratchet.ts`: `InitRatchet`, `Encrypt`, `Decrypt` as pure operators on a session record | - |
| `Ratchet` | two peers on one session, over a queue that reorders, loses and repeats | `RatchetOps` |
| `RatchetProofs` | theorems about `Ratchet` | `Ratchet` |
| `SessionLanes` | the command lane and the receive lane on the stored record | `RatchetOps`; `Ratchet` as its abstraction |
| `Delivery` | what store-and-forward promises to one recipient (abstract) | - |
| `Mailbox` | server queue, hub, sockets; client lanes, login drain, `/lock` | `Delivery` as its abstraction |
| `Shell` | the input line: keys, history, prompts, dropdown | - |
| `Terminal` | the executor above it: dispatch, prompting commands, focus, idle timer | `Shell` |
| `Handshake` | first message, one-time prekeys, requests, `/add`, `/remove` | - |
| `SessionProofs` | theorems about `Handshake` and `SessionLanes` | both; `RatchetProofs` as an instance |
| `MessageProofs` | theorems about `Mailbox` and `Groups` | both |
| `AccountsProofs`, `TrustProofs`, `TranscriptProofs`, `TerminalProofs`, `DeviceProofs` | theorems about `Accounts`, `Trust`, `Transcript`, `Terminal`, `Device` | one each |
| `Accounts` | the server's account: login, sessions, prekeys, recovery, deletion, as transactions | - |
| `Device` | one device: enrolment, login and maintenance, prekey secrets, store, duress | - |
| `Trust` | one contact: pinned key, verification, key changes, in both lanes | - |
| `Groups` | one group held by several devices, commands and fan-out | - |
| `Transcript` | what two devices keep of a conversation: times, timers, deletions | - |
| `MC*` | values of the constants and symmetry for TLC | one each; `MCSession` composes `Handshake` and `SessionLanes` |

The modules meet at the following points. What `Ratchet` shows of a session is
assumed of every session in the modules after it: a message opens under its own
session, once. `Mailbox` justifies the queues of `Handshake`, `Groups` and
`Transcript`: an accepted message is delivered, perhaps again, perhaps late.
`Handshake` takes from `Accounts` that a one-time prekey is handed out once, and
from `Device` that its secret is there. `MCSession` puts the life of a session in one
run: `established`, chosen in the initial state, says whether it is being set up
(`Handshake`) or in use (`SessionLanes`).

### RatchetOps

Keys are terms. A root is the sequence of key encapsulations mixed into it; a
secret is named by the message that made it, `<<role, id>>`. A message key is a
chain and a position in it. A chain is the root it was derived from
(`chainFromRoot`), a header key is a root too (`headerKey`), so two keys are
equal exactly when the inputs of their derivation are. ML-KEM's implicit
rejection is modelled: decapsulating with the wrong secret key returns an
unrelated secret (serial 0), never an error.

`Encrypt` is `ratchetEncrypt` in its order: a new turn (`StartTurn`) when the last
action was a receive and there is an offer to accept, which rolls the root and
resets the sending chain; a fresh offer (`FreshOffer`, `MakeOffer`) when the turn is
new or every `KEM_STEP_INTERVAL` messages; then the message key and the counters.
`Decrypt` is `ratchetDecrypt`: the header is tried under the current and the next
header keys; a cached key is served and deleted; a message of a new turn is
entered only through its accept; the work is done on a scratch copy (`Scratch`) and
committed (`Advance`) only if the body opens. `SkipTo` fills the cache and refuses
what would push it past `MAX_SKIP`.

### Ratchet

`st[r]` is the stored record, `net[r]` the envelopes waiting for `r`. `Send` is
`sendRatchetMessage` (encrypt, save, post), `SendFails` the same with a request
that fails after the save, `Receive` is `processRatchetMessage` with an
acknowledgement that may be lost, `Expire` the sweep. `sent`, `got` and `serial`
are history. `Spec` allows any order, loss and repetition; `TurnsSpec` takes away
disorder and loss, and lets a peer write only when it has read everything.

### SessionLanes

Each lane, `sending` and `receiving`, is a small program counter: read the record,
write it back computed from what was read, then post or acknowledge. `st` is the
stored record, `saved` counts the messages saved and `queued` is what the server
holds. `Crash` (a closed tab) stops both lanes. In `LanesSpec` the lanes interleave
freely, as in the code; in `ApartSpec` at most one is between its read and its
write. `ImplementsRatchet` states that `ApartSpec` refines `Ratchet!Spec`, with an
envelope being posted counted as on the wire (`Waiting`): so what is proved of
`Ratchet` holds for the stored records as long as the lanes keep apart. The run
`lanes_keys` shows what happens when they do not.

### Mailbox, Delivery

One recipient. The queue is the set of messages that have a row; `row` gives each
its id, ids grow and are never reused, and `Leads` picks the row that comes first in
their order. `Send` is
`send_message` up to the commit, with the connections of that moment still to be
pushed to (`PushLive`, `WsHub.push`, one await per connection). `Attach` registers a
connection and reads the backlog in one step, because `ws_endpoint` awaits
nothing in between; `PushBacklog` sends it frame by frame. `HandleAck` runs only
once the backlog is out, as the endpoint reads frames only then. On the client,
`Deliver` appends to `rxTail`; `Begin*` loads the session (or skips, when locked);
`Save`, `Record`, `Discard`, `RecordFails` are the steps of `processEnvelope`
between awaits, run by the receive lane and, during a login, by the drain. `Lock`
closes the socket and turns work in progress into a skip, but does not stop a
login under way, as in `lockLocal`. `spent` is the part of the session record
that matters here: which keys are used up.

`Delivery` says: an accepted message waits until it is read or too old, and is
read once; and in the end it is. `D` maps it onto `Mailbox`: `DeliversSafely` is the
part that is proved, `CalmDelivers` in `MCMailbox` adds the liveness for TLC.

### Handshake

Two devices. A session is named by the handshake that made it and carries what
was sent and read on it; ratchet messages open on their own session only. The
command lane is `ClaimBundle` (fetch, and with it one one-time prekey), `PostFirst`,
`StoreFirst`, or `SendRatchet`; the receive lane is `BeginKx` (answer, delete the
one-time secret), then `Adopt` for a contact, or the binding fetch and `Hold` for a
stranger; `Add`/`FinishAdd` and `Remove` are `doAdd` and `doRemove`. Requests may be
answered, carried out without an answer, or refused; acknowledgements may be
lost; `Interrupt` closes the tab or locks the store anywhere between two steps.

Coarser than the code: `Adopt` joins the session write and the history write
(the gap between them is the subject of `Mailbox`), `Remove` joins its deletions
and the contact write (apart in `Trust`), and a ratchet message is sent and read
in one step (the subject of `SessionLanes`).

### Accounts

`identity`, `codes`, `nonces`, `tokens`, `spks`, `opks` are the tables; `bucket` is
the login challenge's limiter. `work[w]` is a request in flight: a handler runs
on a thread pool and meets the others in the database only, at READ COMMITTED,
so a handler with a read it later relies on is two or more steps. `verify` is
`ReadNonce`, `BurnNonce`, `CheckSignature`, `IssueToken`; a request with a token is
`Authenticate` and then its job; a socket is `OpenSocket`, `RotateToken`; a claim is
`FetchBundle`, `ClaimPrekey`, a conditional update with retries; `recover` and
`delete_account` are the deletions (`Sweep*`) and the commit. What the database
does for them is in the actions: no row refers to a user that is gone, an update
of a row that is gone fails the request, two transactions that wait for each
other cost one of them. Three history variables: a row's `late`, the request that
made it was past its checks when a recovery committed (`outrun`) or met the
deletions; `redeemed`, the sessions a nonce has given; `rivals`, the requests that had
read it live when it was first consumed.

### Device

`store` is what is on disk (the wrapped key, the identity, prekey secrets, the
duress envelope, whose messages were filed), `server` what the server serves in
this device's name, `paper` the codes the user has written down; `dek`, `ident`,
`token`, `ws` are in memory. A command is a program counter that advances from one
await to the next: `/register` (`BeginRegister` ... `PutDefaults`), `/recover`
(`AskRecover`, `WipeForRecover`, then as `/register`; a lock before the default
records are written ends either with the codes unshown), `/login` (`BeginLogin`, `Sign`,
`Verify`, then `KeysStatus`, `PersistSpk`, `UploadSpk`, `Prune`, `PersistOpks`,
`UploadOpks`, and the drain). The receive lane is `Receive`, `Respond`, `File`. Every
request may be answered, carried out without an answer, or refused; `Close` is a
closed tab, `Lock` runs at any time.

### Trust

The contact in memory and in the store, `session`, the held request, the trust
mode, and both lanes, each split at its awaits: `/verify` (`Verify`, `FetchBundle`,
`VerifyBundle`, `TearDown`), a first message sent (`SendText`, `LoadSession`,
`FetchBundle`, `CheckBundle`, `PostFirst`, `StoreFirst`, `PinFirst`), `/add` (`Add`,
`Promote`, `FinishAdd`), `/remove` (`Remove`, `Forget`, `Unlist`) and `/remove all`
(`RemoveAll`, `Forget`, `Clear`), and a first message received (`ReadKx`,
`RxTearDown`, `RxStore`, `Bind`). `Changed` is the record after `handleKeyChange`. Four
history variables set apart what the code does not protect (section 6):
`crossed`, a lane wrote on the strength of what had changed since; `revived`, `/add`
of an old request; `torn`, a tab closed between record and session; `relied`,
trust-on-first-use was on.

### Groups

There is no group object; `rec[d]` is device `d`'s record. A command is one record
write and one fan-out, in the order of the code: `/group new`, `add` and `remove`
save first, `leave` sends first; `PostLeg` sends one leg or fails. Whoever is
removed gets the notice too; the member added gets the invitation. A text is sent
on the record read anew (`Fresh`), or, when there is one but it does not load, on the
copy on screen, which is some roster the code accepts. The receive
lane is `ReadNext` (checks, `Refused`, `Diverges`, a text shown) and `Apply` (the record
written back, possibly over a change made since). `quiet` is history: every change
had settled before the next began, nothing failed, no lane overlapped.

### Transcript

Two ends, each with a clock of its own that may be wrong or set. `Stamp` is
`stampIncoming`; `Deadline` and `Expired` are those of `purgeExpired`. A command
runs up to its request (`SendText`, `SetTimer`, `Delete`, then `Post`, `PostFails`) and
records after it (`Record`). `Deliver` is the whole receive side of one payload:
the timer adopted, the deletions obeyed, the text stamped against the session's
floor and stored. Messages are delivered in any order and within the queue age.

### Shell, Terminal

`Shell` is `shell.ts` with the dropdown of `chrome.ts`. A text is the set of places
its characters were typed at - the line, a visible prompt, a masked one - because
where text may end up is what the code takes care of ("so secrets never leak to
the suggestion path"). The dropdown's contents depend on characters and are left
open; that it is open, highlighted, or hushed by Esc is kept, since the keys act
on it. `Settle` is the end of a prompt, by Enter or Ctrl+C; `SubmitLine` hands a
line to the executor.

`Terminal` is `Executor.handle` and what follows from it. A command is a record in
`flow`: what it asks for (`asks`), and whether it is between awaits, at a prompt or
about to end. `run` refuses a second one (`Run`). The focus is `active`, `activeGroup`
and `previousView`, set by the actions at the place after the await where the code
sets it, so a lock, a typed `/chat` or the receive lane's removal notice
(`LeftBehind`) may come first. `/recover` tears down (`Recover`) and then wipes the old
store, if there is one (`WipeForRecover`): a wipe that fails ends the command. Look-ups by name may find any contact or group:
which there are is the subject of `Trust` and `Groups`. `stranded` is history: the
home screen was shown over an active group (section 6). Rendering is left out, so
is what is echoed.

## 4. Runs

All runs are exhaustive. Deadlock checking is off where a bound or an empty
queue legitimately ends a behaviour, which is everywhere but in `terminal`: users
may stop writing.

| run | specification | properties | bounds |
|---|---|---|---|
| `ratchet` | `Spec`, or `TurnsSpec` when `calm` | NoKeyReuse, SpentOnce, CurrentChainOpens, CalmOpens | 5 and 2 messages, interval 2, cache 2; 6 each when calm |
| `session` | `CalmSpec`, or `ApartSpec` when `established` | AnsweredOnce, FirstDeliveryAnswered, SessionsMeet, ImplementsRatchet | 3 texts each, 1 one-time prekey each, 2 removals, 1 fault; established: 3 and 2 messages, 1 crash |
| `lanes_keys` | `LanesSpec` | NoKeyReuse, violated | 3 and 2 messages |
| `mailbox` | `Spec`, or `CalmSpec` when `calm` | UnopenedStaysQueued, NothingMissed, CalmDelivers, CalmClears | 2 messages, 2 sockets, 1 expiry, 1 fault, cap 2 |
| `accounts` | `Spec` | PrekeyHandedOnce, CodesMatchIdentity, OldIdentityOut, NonceGoodForOneRound, ChallengesPaced | 2 requests in flight, 2 identities, 2 tokens, 2 nonces, 3 prekeys, 2 instants |
| `accounts_nonce` | `Spec` | NonceSingleUse, violated | 2 requests in flight, 1 nonce, 2 tokens |
| `device` | `Spec` | PublishedOpens, AccountKept, DuressApart, NoGhosts, HandshakesResolve | 2 passphrases, 2 identities, 3 prekeys, rotation 0, retention 1, 3 instants, queue age 2, 1 waiting message, 1 fault |
| `groups` | `GroupSpec` | GroupsTyped, SettledAgree, NoFalseAlarm, TextsLand, RemovedStaysOut | 3 devices, 3 commands, 1 fault |
| `trust` | `Spec` | VerifiedWasCompared, SessionMatchesPin, PinHolds | 2 keys, 3 handshakes, 2 waiting messages, 4 commands, 1 fault |
| `transcript` | `Spec` | TypeOK, TranscriptInOrder, HonestTimesKept, HeldItsTime, TimersAgree, DeletedEverywhere | 3 commands, 3 instants, clocks up to 1 ahead, queue age 1, 1 fault |
| `terminal` | `Spec` | TextStaysPut, PromptAnswered, PromptNamesFocus, IdleIsTimed | 2 contacts, 2 names, 2 groups, a history of 2 lines |
| `terminal_home` | `Spec` | LineGoesWherePromptSays, violated | as `terminal` |

What they show and why the bounds are enough:

- **ratchet.** Five messages of one peer cross a turn, an offer refresh (interval
  2) and a full cache (2) with a gap before and after the turn; two of the other
  accept and offer back. Under every order, loss and repetition: no two messages
  share a key, a message read once never opens again, and a message of the chain
  in use opens unless its gap does not fit.
- **ratchet**, calm. The environment is chosen in the initial state (`calm`) and kept.
  With six messages a side in order and turns taken there are several turns in
  both directions, with refreshes inside a turn: every message opens
  (`CalmOpens`).
- **mailbox.** Two messages and two sockets are enough for a backlog, a live
  push during it, a replaced connection still registered on the server, and a
  repeated login. Nothing unopened leaves the queue except by age; a connected
  client has been, or is about to be, sent every waiting row. Both are proved for
  any number of messages and faults (section 5), a refused acknowledgement of
  more than `MaxAck` messages included, which this run's backlog does not reach.
- **mailbox**, calm. The environment is chosen in the initial state and kept. With
  what `CalmNext` excludes - a login over a live connection
  or a busy receive lane, `/lock` during a login, and a lock or a closed tab
  between the two writes of one message - and with a backlog that fits one
  acknowledgement (`MaxAck` is the cap), the system implements `Delivery`: every
  accepted message is recorded once and, under fairness, eventually, and the
  queue empties. The excluded cases really break it (section 6).
- **session**, being set up. What the calm environment excludes is named at `CalmNext`, and
  each exclusion was found necessary by dropping it: crossing handshakes and
  disorder; `/add` or `/remove` while an answered handshake is being stored, a
  closed tab in the middle of either, a failed binding fetch, and a lost
  acknowledgement of a handshake without a one-time prekey each keep the two
  sides apart. With them excluded, and with removals, lost posts, redelivery and
  closed tabs elsewhere left in, the two come back to one session. `AnsweredOnce`
  and `FirstDeliveryAnswered` are proved without any exclusion, `SessionsMeet` with
  these (section 5).
- **session**, established. The refinement of section 3, through a crash at every
  point, failed posts and lost acknowledgements; proved for any number of them
  (section 5).
- **accounts.** Two requests are enough for every race the handlers can have: a
  read of one, the commit of the other, the commit of the first. Two identities
  give one recovery and a deletion, in either order and at once; three prekeys
  against a cap of one give a refill after a claim and an upload that is refused.
  A nonce opens no more sessions than there were requests that had read it when it
  was first consumed, and whoever reads it later is refused; no code outlives its
  identity; what survives a recovery is only what was past its checks when it
  committed, or committed while it emptied the tables.
- **accounts_nonce.** The claim itself, one session per nonce, fails: two requests
  read the nonce before either has consumed it (section 6).
- **device.** Two identities give an enrolment and a recovery, here or elsewhere;
  with rotation 0 and retention 1 in three instants a signed prekey is replaced,
  kept while it may be named, and then really deleted, and a handshake that
  waited longer is still in the queue and is refused. Mail that grows too old while
  it waits needs a fourth instant and is left to the theorem (`WaitingHasSecret`). One
  fault puts a lost answer, a refusal or a closed tab between any two steps of any
  command.
- **groups.** Three devices have one who acts, one acted upon and a bystander;
  three commands are a creation and two changes that cross, or a change and a
  text; one fault is a failed leg, a closed tab or a contact one does not have. A
  text sent on the copy on screen (`Fresh`) takes four commands; the theorems cover it.
- **trust.** Two keys of the peer make a change; four commands are `/add`,
  `/verify`, a send and one that interferes, or a `/remove all` and a new start;
  three handshakes cover one before, one across and one after the change.
- **transcript.** A skew allowance of 0 and a clock 1 ahead put a time over the
  ceiling, a queue age of 1 in three instants one under the floor; three commands
  make two texts with a timer change or a deletion between them.
- **terminal.** Two contacts under two names and two groups are enough to be on one
  and return to another, and to find a name changed; two history lines give a
  recall, a step back and an eviction. Every command is started with every screen
  on, prompts one after the other, and meets a lock, a removal notice and any key
  at each of them.
- **terminal_home.** Without the history variable `stranded` that `terminal` sets
  the case apart with: `/remove all` from a group leaves the group active.

TypeOK of `Ratchet`, `Mailbox`, `Handshake`, `Accounts`, `Trust`, `Device` and `Terminal` is proved (section
5) and not repeated in a run.

**Fairness** (`mailbox`). Weak fairness on the server's event loop
(`ServerWork`) and the client's (`LaneWork`, `LoginWork`): both are single-threaded
loops that always run a ready continuation. Weak fairness on
`LaneIdle /\ LoginStart`: a user without a connection logs in again, as the client
asks them to ("Run /login to reconnect"). Nothing is assumed about faults,
senders or expiry. Faults are finite, which stands for an environment that is
eventually quiet.

**Symmetry** is used where the interchangeable constants are model values: the
two ends (`session`, whose lanes name the peers by role, and `transcript`), workers
(`accounts`, `accounts_nonce`), passphrases (`device`), devices (`groups`), contacts, names and groups
(`terminal`). No liveness is checked
there.

## 5. Proofs

TLAPS checks the proof modules completely; the constants are arbitrary: any
number of messages, texts, prekeys, requests, keys, contacts, commands and faults,
and any limits that satisfy the named assumptions. Every invariant that a run checks
is a theorem, and so is every action property, and every refinement but for its
liveness. Every inductive invariant (`IInv`, `OpenInv`, `CalmInv`, `ApartInv`,
`MeetInv`, `LaneInv`, `QuietInv`) was checked by TLC before it was proved: put it in
the place of the invariants of the run's cfg (the runs leave it out, as the large
ones take twice as long with it; `QuietInv` was also checked with four commands, 3.4
million states).

The induction theorems and recursive operators are out of the provers' reach, so
nothing here rests on them: an argument about a sequence of steps is always an
invariant, and history (`sent`, `got`, `quiet`, `sealed`) is a variable.

### RatchetProofs (from `RatchetBounds`, `MaxSentType`)

`NoKeyReuse` and `SpentOnce` are not inductive. The invariant is

    IInv == TypeOK /\ Bookkeeping /\ NoKeyReuse /\ Frontier /\ FiniteCache /\ SkipBounded

- *Bookkeeping*: a root mixes in only secrets of messages already encrypted. So
  the root rolled by the next message is one nobody has seen, and a new sending
  chain cannot coincide with an old one; within a chain, everything sent lies
  behind `ns`. That makes `NoKeyReuse` inductive.
- *Frontier*: roots only grow; what the cache holds for the current chain lies
  behind `nr` on that chain; a message that was read lies on an older (shorter)
  chain, or behind `nr` with its cache entry gone. A replay is then neither ahead
  of the frontier nor in the cache: `SpentOnce`.
- *FiniteCache* and *SkipBounded*: `skipTo` tests the size before it adds, and
  serving a cached key removes one. `SkipBounded` is proved only; no run repeats it.

Lemmas say what `Encrypt`, `Decrypt`, `SkipTo` and the cache return; each of the
four actions then has one step per conjunct it can disturb.

That a message opens (`CurrentChainOpens`) needs more, since it relates the reader
to what the writer once sealed:

    OpenInv == IInv /\ Turns /\ Letters /\ Reception

A chain is opened by one accept, over the header root of its turn (`Turns`,
`Letters`), so two letters of one chain have one header root; the reader has read
the accept of the chain it is on, hence holds that root, and every unread letter of
the chain behind `nr` has its key in the cache (`Reception`). The letter then opens
from the cache or by skipping, unless its gap does not fit. It holds under `Spec`,
with any disorder, loss and repetition.

In the calm environment every letter opens (`NextEnvelopeOpens`):

    CalmInv == OpenInv /\ OneWay /\ OnTheWay /\ InTouch

Letters are under way in one direction only, numbered without a gap up to the
writer's `ns` (`OneWay`, `OnTheWay`); the two peers have one root, one chain and one
header root, except while the accept that changes them is the oldest letter; whoever
is about to begin a turn holds the very offer whose secret key its peer still has
(`InTouch`). `MCSpec`, which the run checks, behaves as `TurnsSpec` when `calm` and as
`Spec` otherwise; `CalmRunReadsEverything` is about it. Theorems: `InvariantHolds`,
`TypeCorrect`, `KeysNeverReused`, `SkipCacheBounded`, `ReplayOpensNothing`,
`UnreadOnChainOpens`, `TurnsReadEverything`, `CalmRunReadsEverything`.

### SessionProofs, Handshake (from `HandshakeBounds`)

    IInv == TypeOK /\ AnsweredOnce /\ \A p \in Device : KeyLedger(p)

*KeyLedger* follows each one-time prekey through its life: on offer; claimed by
one command; named by at most one sealed handshake, never while on offer; and its
secret is here exactly until that handshake is answered. TypeOK adds that a
device holds the secret of everything on offer. TLC checked `IInv` on a small
instance of `Spec` before it was proved. `AnsweredOnce` follows because a second
answer would need the secret; `FirstDeliveryAnswered` because an unanswered
handshake still has it. Both hold under `Spec`, the environment with every
fault; the run checks them under `CalmSpec`, beside `SessionsMeet`.

`SessionsMeet` speaks of the moment when nothing is under way, and is proved from an
invariant that holds at any moment of `CalmSpec`:

    MeetInv == /\ \A p \in Device : TakenInTurn(p) /\ ContactFirst(p)
               /\ ~ \A p \in Device : Initiating(p)
               /\ \A p \in Device : \A k \in Due(p), l \in Due(Other(p)) : k = l

`Due(p)` is the handshake p will have its session from when it has handled its mail
and added whom it holds a request of: the one it has posted and not yet stored, else
the last one waiting, else its session's, else its request's. The third conjunct says
that the two sides never expect different ones. A step at one device can only take
away from its `Due` (`LocalStep`), as a handshake that is concluded was the first
waiting: if it was the last too, it becomes the session. The exception is
`PostFirst`, after which both sides expect the new one, or the sender none. That no
other is under way then is the second conjunct, the calm environment's own
condition made an invariant. `TakenInTurn` is what rests on `IInv`: a handshake that
comes a second time finds its secret gone and is refused, one that comes the first
time is not. Theorems: `LedgerHolds`, `TypesHold`, `KeyedHandshakeAnsweredOnce`,
`NoFirstDeliveryRefused`, `MeetHolds`, `PeersMeet`.

### SessionProofs, SessionLanes (from `RatchetBounds`, `LanesBounds`)

`ApartSpec` implements `Ratchet!Spec`, step by step. The invariant is

    ApartInv == LanesTyped /\ LanesApart /\ Lanes /\ RP!OpenInv

where `RP` is `RatchetProofs` for the mail that waits or is on the wire. `Lanes` says
that what a lane holds is what the store holds, that the letter being posted is not
at the server yet and the letter being read still is. `SaveSend` is then a `Send` of
`Ratchet`, the envelope already on the wire; a request that fails, or a tab closed
while posting, is an `Expire` of it; `SaveRead` is a `Receive` whose acknowledgement
is outstanding; the acknowledgement, and a discarded letter, are a `Receive` of an
envelope that does not open; loads and all else are stutters. The acknowledgement
needs `Ratchet`'s own invariant: the letter has been read, and a letter that has been
read never opens again. Since every step is one
of `Ratchet`'s, `OpenInv` is kept by the lemmas of `RatchetProofs`, and with it
whatever those prove. Theorems: `LanesImplementRatchet`, `ApartKeepsKeys`.

### AccountsProofs (from `AccountsBounds`)

    IInv == TypeOK /\ NothingAhead /\ SessionsKeyed /\ PrekeyHandedOnce /\ HandedWhenSpent
            /\ NothingYet /\ OneEmpties /\ SweptButLate /\ ChecksHold /\ CodesMatchIdentity
            /\ OldIdentityOut /\ DropSeesIssued /\ BurntBeforeUse
            /\ ChallengesPaced /\ BucketCovers

Four arguments side by side. *Recovery*: at most one request is between its
deletions and its commit (`OneEmpties`, the row locks), and what is in the tables
that it has not seen came in late (`SweptButLate`); so at the commit nothing of the
old key is left but late rows, and the codes are the new ones. After it, a request
that has passed its checks holds the key in place unless it is one of those the
recovery outran (`ChecksHold`), so only these bring a row of the old key in. Nonces
name no identity: a login that compares the key after the commit is refused. *Prekeys*: a key is
handed over only by the update that spends it (`HandedWhenSpent`). *Nonces*: before a
nonce is consumed nobody is accepted on it; from then on the requests that had read
it and the sessions it has given are together never more than the `rivals` counted
at that moment, as nobody joins them (`BurntBeforeUse`). With one reader that is one
session. *Limiter*: for every stretch that ends now,
what was let through and what the bucket still holds fit the allowance
(`BucketCovers`), a statement about all stretches at once because a refill is
capped. Theorems: `AccountHolds`, `TypesHold`, `OneBundlePerPrekey`,
`RecoveryStaysPossible`, `RecoveryForcesOut`, `NonceOpensOneRound`, `LimiterPaces`.

### TrustProofs (from `TrustBounds`)

    IInv == TypeOK /\ LanesShaped /\ RecordsAgree /\ KeysReal
            /\ ComparedIsKnown /\ ComparedIsPinned /\ SessionFollows

The properties speak of lanes at rest or of the record in memory; a lane between
two steps holds a copy. `RecordsAgree` says which copies may differ from the
record and how. `ComparedIsPinned` says of the record, the stored one and the copy
that `/add` holds: verified only under the compared key, and never verified while
blocked (`Held`); a change of key that `/verify` has not seen must have blocked the
contact. `SessionFollows` says that the session is under the pinned key or that the
very step that tears it down or replaces it is still to come. `PinHolds` is an
action property, proved of each action from the same invariant. Theorems:
`TrustHolds`, `TrustTyped`, `OnlyComparedIsVerified`, `NoSessionSurvivesItsKey`,
`PinsAndBlocksHold`. The history variables `crossed`, `revived`, `torn` and `relied`
set apart what the code does not protect, in the theorems as in the run.

### TerminalProofs (from `HistoryBound`, `Distinct`)

    IInv == TypeOK /\ TextStaysPut /\ PromptAnswered /\ PromptNamesFocus /\ IdleIsTimed
            /\ OneFocus /\ StrandedInGroup /\ PurgeShowsNoGroup

`TextStaysPut` is inductive by itself, but only for the whole of the line, the
draft and the history. `PromptNamesFocus` is not: a purge sets the prompt without
touching the group, which is right only because none is on screen then
(`PurgeShowsNoGroup`), and a rename is right only if no group is (`OneFocus`).
Theorems: `FocusHolds`, `TerminalTyped`, `SecretsStayAtTheirPrompt`,
`PromptAndCommandMeet`, `LinesGoWherePromptsSay`, `IdleStoreIsTimed`.

### MessageProofs, Mailbox (from `MailboxBounds`)

    IInv == TypeOK /\ UnopenedStaysQueued /\ NothingMissed

TypeOK carries the first argument: what is acknowledged, on a connection or by a
drain, was opened (`up`, `login.acks` within `opened`), so the three ways a row leaves
the queue (`QueueLoses`) are by age, by a connection's acknowledgement and by a
drain's. `NothingMissed` is then inductive: a row leaves a backlog or a sender's
list only into `pushed`, and a connection is registered with the whole queue as
its backlog. In the calm environment

    CalmInv == TypeOK /\ OneLane /\ SpentOnRecords /\ AcksAreRecords

says that a key is spent exactly for what is recorded or just about to be, so that
what a lane discards was recorded before, and only records are acknowledged. From
it every step of `CalmNext` is a step of `Delivery` or a stutter (`StepDelivers`).
Theorems: `MailboxHolds`, `MailboxTyped`, `UnopenedIsKept`, `NothingFallsBetween`,
`CalmHolds`, `CalmRefinesDelivery`.

### MessageProofs, Groups (from `GroupBounds`)

Two invariants. `LaneInv` holds in any use: commands and messages in hand have their
forms, and as long as a device's lanes have not overlapped, the record a lane holds
is the stored one (`RecordInHand`). Hence no lane writes somebody back who went
meanwhile: `RemovedStaysOut`.

    GroupInv == LaneInv /\ QuietInv

`QuietInv` describes quiet use, where `SettledAgree`, `NoFalseAlarm` and `TextsLand`
are claimed. At any moment one of three things is going on:

- *OnlyTexts*: the records agree (`Agree`: all who are in hold one roster, the one they
  are on), and all that is under way are texts from members to members.
- *InVain(x)*: x, who is out, makes a change; the others do not have x on their
  rosters and refuse it.
- *Changing(c)*: a member makes the change c. Each of its audience is either still to
  be written to, with the record of before; or has the one letter waiting or in its
  lane, with the record of before; or has applied it (`Told`). So a letter always
  meets the record it was written for (`Diverges` is false: no alarm), and when the
  last has applied it, the records agree again (`Agree(Outcome(c))`).

The proof goes through each action in each of the three. What makes a change begin
only when the last has settled is the meaning of `quiet`; that membership fits
`MAX_GROUP_MEMBERS` when it is applied is in `InOrder`. Theorems: `LanesHold`,
`GroupHolds`, `GroupsWellTyped`, `WhoWentStaysOut`, `WhatIsSettledAgrees`,
`NobodyIsAlarmed`, `NoTextGoesAstray`.

### TranscriptProofs (from `TranscriptBounds`)

    IInv == TypeOK /\ Shaped /\ TranscriptInOrder /\ FloorHolds /\ LeftInOrder
            /\ DatedWhenLeft /\ HonestTimesKept /\ TimersTold /\ OwnWords /\ DeletionUnderWay

Three arguments side by side. *Times*: the session's `lastTs` stays at or below the
ceiling of the clamp (`FloorHolds`), so the floor is never cut off by it, and every
time shown in order is at or below `lastTs`. That the floor does not push a time up
by more than the sender's clock is behind needs the order in which messages left:
whatever raised the floor left no later than what is still to come (`LeftInOrder`,
`DatedWhenLeft`). *Timers*: all messages on their way, in both directions, carry the
same timer; the newest not overtaken carries its sender's, unless the sender has
just set another; and while the two ends differ a message that settles it is on
its way (`TimersTold`). *Deletions*: what the two ends wrote, wherever it is, is
apart (`OwnWords`), so a deletion reaches only its author's texts; what was erased
where it was written and remains elsewhere is named by a request that is under way
(`DeletionUnderWay`). The sweep is an action property (`HeldItsTime`): a record's
deadline is its arrival plus the timer it was given (`Shaped`). Theorems:
`TranscriptHolds`, `TranscriptTyped`, `TheOrderHolds`, `TimesAreHonest`,
`NothingGoesEarly`, `TimersComeToAgree`, `DeletedIsGone`.

### DeviceProofs (from `DeviceBounds`)

    IInv == TypeOK /\ Numbered /\ MemoryMatches /\ EnrolmentClean /\ MailMatches /\ PrekeysInHand
            /\ PublishedOpens /\ HandshakesResolve /\ AccountKept /\ DuressApart /\ NoGhosts

The properties relate the store to the server, while a command moves first one and
then the other. What an interrupted command leaves behind is what the rest of the
invariant describes. Keys and prekeys are numbered as they are made (`Numbered`), so
a new one is nobody's yet. The key in memory is the store's, and a token that
stands was given to it (`MemoryMatches`): hence an upload under a token goes to the
account whose secrets the store holds. From the server's answer to `/register` or
`/recover` until the codes are shown, the account is as it was made and no other
command moves it (`EnrolmentClean`), which is what `AccountKept` needs. A message
waits for the key the server honours, and what the receive lane opens, with the
epoch it came in still on, was sent to the store's (`MailMatches`): that is `NoGhosts`,
and with it a one-time secret that is erased was on offer no more. The prekeys of
an upload under way are in the store, not on offer and in no message
(`PrekeysInHand`), so the upload keeps `PublishedOpens`; pruning keeps it because the
signed prekey on offer is then today's. Theorems: `DeviceHolds`, `DeviceTyped`,
`PublishedHasSecret`, `WaitingHasSecret`, `CodesInForce`, `DuressStaysApart`,
`NothingMisfiled`.

### Only model-checked

Liveness: `CalmClears`, and what `CalmDelivers` says of being read in the end beyond
`DeliversSafely`, which is proved. Fairness and ENABLED are out of the prover's
reach.

The three runs that end in a violation (section 6) are counterexamples and have no
theorem; what holds instead does: `ApartKeepsKeys`, `NonceOpensOneRound`, and
`LinesGoWherePromptsSay`, which sets `stranded` apart.

## 6. Findings and observations

Three runs end in a violation.

- `lanes_keys` (code). The receive lane reads a session record, a send is saved,
  the receive is saved over it: the next send starts from the old chain and seals
  a second message under a key already used. `messaging.ts:303-305` and
  `CODING_GUIDELINES.md:73-74` exclude exactly that.
- `accounts_nonce` (code). `verify` reads the nonce, tests `consumed` and sets it, in a
  transaction that does not ask again (`login.py:117-134`): two requests that both
  read it before either commits both go on, and each opens a session. "Single-use
  regardless of outcome: a failed attempt burns the nonce" (`login.py:132`),
  "single-use nonce" (`README.md:83`, also 538). Each session still takes a valid
  signature.
- `terminal_home` (code). `/remove all`, confirmed while a group is on screen, shows
  the home prompt and the home screen but leaves `activeGroup` set
  (`goHomeAfterRemoval`, `contacts.ts:238-244`): the next line typed under "> " is sent
  to the group (`index.ts:181-184`). The comments say otherwise: "the conversation it
  showed no longer exists" (`contacts.ts:236-237`), "at most one conversation is
  focused" (`index.ts:416`), and `messaging.ts:949-951` guards against just this after
  a removal from a group. Elsewhere the case is set apart (`stranded`).

Met while modelling, and set apart in the models by an excluded step, a history
variable or a bound; no run claims the contrary.

*Ratchet, delivery, handshake*

- When both peers start a turn at once, each accepts an offer the other has just
  replaced (`ratchet.ts:189`; the header of the file says both mix the secret into
  the root).
- Keys cached for the tail of a chain when a turn is entered are stored under
  that chain's number (`ratchet.ts:292-293`), but only the current chain's number is
  ever looked up (`263`), and the old chain's header key is gone: messages of an
  older chain that arrive late are not opened, though the comment says the flush
  lets them be recovered.
- `ratchet.ts:186-187` says an echoed offer propagates when the first message of
  a turn is dropped; the messages that echo it cannot be entered without the
  accept that was dropped (`ratchet.ts:255`). `ratchet.ts:252-254` says a deferred
  message stays queued; it is discarded and acknowledged (`messaging.ts:806`).
- A drain of more than `ACK_MAX_IDS` (256) messages is acknowledged in one request
  (`messaging.ts:1025`), which the server refuses (`schemas.py:273`): the login ends
  before it goes live, at every attempt (MESSAGES.md:72, 166 say that logging in
  collects the queue).
- A message whose session was saved and whose history write failed is reported
  with E509, "still waiting on the server" (MESSAGES.md:87); its key is spent, and
  the redelivery is discarded.
- When two first messages cross, each side replaces its session by the other's
  (`messaging.ts:646`). All messages are discarded (E505) and the remedy in
  MESSAGES.md:83, to write again, does not help while a session exists. One
  `/remove` does.
- README.md:187 says that after `/remove` a later message returns as a fresh
  request. A ratchet message does not: no session opens it and it is discarded.
  For the same reason, what a stranger writes after the held first message is
  lost until `/add`.

*Accounts and devices*

- A login or an upload past its checks
  commits after a recovery (the `late` rows); a socket that rotates its token
  escapes `logout_all` (`sessions.py:69`); a deletion fails if a row was inserted
  meanwhile; two uploads overshoot the prekey cap (`keys.py:79`).
- A lost answer to `/recover`, or a tab closed after it, leaves an account whose
  new codes nobody has seen (`identity.ts:239`). `/lock` during an enrolment leaves
  the identity and token in memory. `/logout` forgets the token also when the
  request fails, and leaves the store unlocked.
- `/login` deletes signed-prekey secrets past their retention (7 days) before it
  drains the queue, which keeps messages for 14 (`identity.ts:337, 429-430`,
  `constants.py`): a first message that waited longer is refused (E511).
- The one-time secret is deleted before the check that may skip its envelope
  (`messaging.ts:574`). The duress flag is written after the envelope
  (`duress.ts:118`): a tab closed between leaves an armed passphrase that the status
  calls disarmed.

*Trust*

- The last pin of a first message is computed from the record as it was before
  two requests (`messaging.ts:275-277`) and undoes a pin or block set meanwhile; a
  session written back after a key change comes back to life. (`crossed`)
- `/remove all` deletes the sessions before it clears the contacts; a session
  stored in between stays, and outlives a change of key. (`crossed`)
- `/add` takes up a request held since before a key change, pins the old key and
  keeps the verified mark. (`revived`)
- A tab closed between the record of a key change and the deletion of its session
  leaves the old session. (`torn`)
- While a contact is blocked in manual mode, a second message under the new key
  is accepted (MESSAGES.md:81).

*Groups*

- A command writes back the record it read, over a change received meanwhile
  (`overlap`). Who leaves as the last member saves an empty roster, which no longer
  loads, so `/group purge` answers E514. Additions that cross at `MAX_GROUP_MEMBERS`
  make a record no one can load. A member added again where an inactive record
  remained is never active again. A removed device still records texts that reach
  it before the notice.

*Transcript*

- `doTimer` says "countdown starts on read" (`lifecycle.ts:116`); it starts on
  arrival. Timers set at both ends at once disagree, and a late message brings an
  old timer back. A deletion that overtakes its text leaves the text, and one that
  failed cannot be repeated, as the sender's record is gone. A local clock set
  back breaks the floor, as the comment at `records.ts:175` says.

*Terminal*

- `handle` touches the idle timer for every line (`index.ts:145`), so a line typed
  while a command is in flight arms it again, although `run` suspends auto-lock
  "while a flow is in flight" (`index.ts:459`).
- The removal notice replaces the text of a pending prompt by "> "
  (`messaging.ts:953`), and the prompt that comes back is the one of the group
  left. A `/group open` or `/return` that was waiting for the store when a lock came
  puts a group on screen after it, which the comment at `index.ts:542` excludes.

## 7. Not modelled

- Cryptography itself: keys and ciphertexts are terms, a wrong key never opens
  anything. Timing, sizes and padding are not represented.
- The envelope codec and the primitives (covered by shared vectors); rendering,
  settings, command grammar, benchmarks and server assembly: no protocol state.
- In `Terminal`: the render lane, what is printed, the cursor, the characters of a
  text; the commands that neither ask, lock nor move the focus are one (`plain`).
- In `Mailbox`: acknowledgements over REST by another session of the account, the
  per-connection frame budget and the idle timer except as a dropped connection;
  a recipient with several sessions. In `Handshake`: more than two devices.
- In `Accounts`: the draw of a UID and its retry (an event of negligible
  probability); hashing; the other limiters, which are of the same class.
- In `Device`: the store's wipe and a batch of prekeys are atomic; one receive
  lane; the confirmation of `/wipe` is one step; the duress flag; time passes
  between commands only.
- In `Trust`: aliases, favourites, renaming, and the timer in the contact record.
- In `Groups`: names, views and focus; several groups; a text is read and shown in
  one step; blocked contacts are left to `Trust`.
- In `Transcript`: the session is established; the receive lane is one step; time
  does not pass between dating and posting; group texts, which follow the cap
  alone; the silent flag of a deletion.

## 8. Plan

The whole of the client's and the server's protocol state is modelled, and every
safety property the runs check is proved. When the code changes, what could be
added next:

1. Composition in proof as well: `Handshake` assumes of the queue what `Mailbox`
   shows; a refinement from `Mailbox` to that assumption would replace prose in
   section 3.
2. Receive lanes finer than one step in `Transcript`, against the history write that
   fails after the session write (`messaging.ts:800`), a hazard without a property.
