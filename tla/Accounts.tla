-------------------------------- MODULE Accounts --------------------------------
(***************************************************************************)
(* One account at the server: registration, the login challenge, session   *)
(* tokens, prekeys, recovery and deletion (server/app/routes, auth.py).    *)
(*                                                                         *)
(* Handlers run side by side, on a thread pool and on the event loop, and  *)
(* meet only in the database, at READ COMMITTED: what a handler reads may  *)
(* be gone when it commits.  A Worker is a place where one request is      *)
(* handled; a handler with a read it later relies on is two steps.  What   *)
(* the database does for the handlers is modelled where they rely on it: a *)
(* row cannot refer to a user that is gone, and an ORM update of a row     *)
(* that is gone fails the request (500), which then changes nothing.       *)
(*                                                                         *)
(* Identity keys are numbered in the order they are submitted; the codes   *)
(* issued with a key carry its number.  A device that signs in, or uploads *)
(* prekeys, does so with the identity key it holds, the account's or an    *)
(* older one.                                                              *)
(***************************************************************************)
EXTENDS Naturals, FiniteSets

CONSTANTS
  Worker,         \* requests that may be in flight at once
  Idle,           \* SESSION_IDLE_SECONDS
  NonceTTL,       \* NONCE_TTL_SECONDS
  Burst, Window,  \* capacity and window of the login challenge limiter
  PrekeyCap,      \* OPK_UNCONSUMED_CAP
  Batch,          \* one-time prekeys in an upload
  ClaimRetries,   \* _CLAIM_RETRIES
  MaxClock, MaxKeys, MaxTokens, MaxNonces, MaxPrekeys  \* bounds

ASSUME AccountsBounds ==
  /\ {Idle, NonceTTL, Burst, Window, PrekeyCap, Batch, ClaimRetries,
      MaxClock, MaxKeys, MaxTokens, MaxNonces, MaxPrekeys} \subseteq Nat
  /\ Window > 0 /\ Batch > 0 /\ ClaimRetries > 0 /\ MaxKeys > 0
  /\ IsFiniteSet(Worker)

Key == 1..MaxKeys
Gone == 0                       \* the key of an account that is not there
TokenId == 1..MaxTokens
NonceId == 1..MaxNonces
PrekeyId == 1..MaxPrekeys

VARIABLES
  clock,
  identity,   \* User.ik_pub, or Gone
  codes,      \* the code sets still in the table, by number
  nonces, tokens, spks, opks,
  bucket,     \* the login challenge bucket
  work,       \* work[w]: the request w is handling
  \* history
  submitted,  \* identity keys submitted so far
  redeemed,   \* redeemed[n]: sessions issued for nonce n
  rivals,     \* rivals[n]: requests that had read n when it was first consumed
  outrun,     \* requests past their checks when a recovery replaced the key
  handed      \* handed[o]: bundles that carried prekey o

rows == <<identity, codes, nonces, tokens, spks, opks>>
history == <<submitted, redeemed, rivals, outrun, handed>>
vars == <<clock, rows, bucket, work, history>>

(* A row that stems from identity key k, committed by w.  late: by a request
   past its checks when a recovery put another key in place, or while one was
   past its deletions. *)
Overtaken(w) == w \in outrun \/ \E v \in Worker : work[v].pc = "replace"
Row(w, k, at) == [st |-> "live", key |-> k, late |-> Overtaken(w), at |-> at]
Blank == [st |-> "none", key |-> Gone, late |-> FALSE, at |-> 0]
Unissued == [st |-> "none", at |-> 0]

Kept(table) == {i \in DOMAIN table : table[i].st \in {"live", "spent"}}
Live(table) == {i \in DOMAIN table : table[i].st = "live"}
Without(table, ids) == [i \in DOMAIN table |->
                          IF i \in ids THEN [Blank EXCEPT !.st = "gone"] ELSE table[i]]
FirstOf(ids) == CHOOSE i \in ids : \A j \in ids : i <= j
Unused(table) == {i \in DOMAIN table : table[i].st = "none"}

Free == [pc |-> "free"]
Becomes(w, request) == work' = [work EXCEPT ![w] = request]
Ends(w) == Becomes(w, Free)

Init ==
  /\ clock = 0
  /\ identity = Gone /\ codes = {} /\ spks = {}
  /\ nonces = [n \in NonceId |-> Unissued]
  /\ tokens = [t \in TokenId |-> Blank]
  /\ opks = [o \in PrekeyId |-> Blank]
  /\ bucket = [level |-> Burst * Window, at |-> 0]
  /\ work = [w \in Worker |-> Free]
  /\ submitted = 0
  /\ redeemed = [n \in NonceId |-> 0]
  /\ rivals = [n \in NonceId |-> 0]
  /\ outrun = {}
  /\ handed = [o \in PrekeyId |-> 0]

Tick ==
  /\ clock < MaxClock
  /\ clock' = clock + 1
  /\ UNCHANGED <<rows, bucket, work, history>>

(* register: the user row and its codes in one transaction.  Another UID is
   drawn when one is taken; an account is never registered twice. *)
Register ==
  /\ submitted = 0
  /\ submitted' = 1 /\ identity' = 1 /\ codes' = {1}
  /\ UNCHANGED <<clock, nonces, tokens, spks, opks, bucket, work, redeemed, rivals,
                 outrun, handed>>

-----------------------------------------------------------------------------
(* The login challenge.  TokenBucketLimiter.allow, in units of 1/Window of
   a token: refill for the time since the last call, never above capacity,
   then take one if there is one. *)

Capacity == Burst * Window
\* Mutant: what accrued while nobody asked is not cut at the capacity.
MutRefilled(b) == b.level + (clock - b.at) * Burst
Refilled(b) ==
  LET level == b.level + (clock - b.at) * Burst
  IN IF level > Capacity THEN Capacity ELSE level
Allowed(b) == Refilled(b) >= Window
Charged(b) == [level |-> IF Allowed(b) THEN Refilled(b) - Window ELSE Refilled(b),
               at |-> clock]

(* challenge: a nonce for any UID, whether or not there is an account. *)
Challenge ==
  /\ bucket' = Charged(bucket)
  /\ IF Allowed(bucket)
     THEN \E n \in Unused(nonces) :
            /\ n = FirstOf(Unused(nonces))
            /\ nonces' = [nonces EXCEPT ![n] = [st |-> "live", at |-> clock]]
     ELSE UNCHANGED nonces
  /\ UNCHANGED <<clock, identity, codes, tokens, spks, opks, work, history>>

\* Mutant: a consumed nonce is looked at like any other.
MutReadNonce(w, n, k) ==
  /\ work[w] = Free /\ n \in Kept(nonces) /\ k <= submitted
  /\ \E matches \in BOOLEAN :
       Becomes(w, [pc |-> "burn", n |-> n, key |-> k, at |-> clock,
                   ok |-> matches /\ clock - nonces[n].at <= NonceTTL])
  /\ UNCHANGED <<clock, rows, bucket, history>>

(* verify reads the nonce: known, not consumed, young, and for this UID and
   origin.  A nonce already consumed is refused here, and nothing changes. *)
ReadNonce(w, n, k) ==
  /\ work[w] = Free /\ n \in Live(nonces) /\ k <= submitted
  /\ \E matches \in BOOLEAN :
       Becomes(w, [pc |-> "burn", n |-> n, key |-> k, at |-> clock,
                   ok |-> matches /\ clock - nonces[n].at <= NonceTTL])
  /\ UNCHANGED <<clock, rows, bucket, history>>

(* Requests that saw a nonce before it was consumed. *)
SawFresh(n) == {w \in Worker : work[w].pc \in {"burn", "user", "issue"} /\ work[w].n = n}

(* The nonce is consumed whatever comes of the attempt, in a transaction of
   its own; one deleted meanwhile fails the request.  The update does not ask
   again whether another request has consumed it. *)
BurnNonce(w) ==
  /\ work[w].pc = "burn"
  /\ LET n == work[w].n IN
       /\ IF n \in Kept(nonces)
          THEN /\ nonces' = [nonces EXCEPT ![n].st = "spent"]
               /\ Becomes(w, IF work[w].ok THEN [work[w] EXCEPT !.pc = "user"] ELSE Free)
          ELSE UNCHANGED nonces /\ Ends(w)
       /\ rivals' = IF n \in Live(nonces)
                    THEN [rivals EXCEPT ![n] = Cardinality(SawFresh(n))] ELSE rivals
  /\ UNCHANGED <<clock, identity, codes, tokens, spks, opks, bucket, submitted, redeemed,
                 outrun, handed>>

(* Then the account's key is read, and the signature checked under it. *)
CheckSignature(w) ==
  /\ work[w].pc = "user"
  /\ Becomes(w, IF identity = work[w].key THEN [work[w] EXCEPT !.pc = "issue"] ELSE Free)
  /\ UNCHANGED <<clock, rows, bucket, history>>

(* And only then is the session inserted. *)
IssueToken(w) ==
  /\ work[w].pc = "issue"
  /\ IF identity = Gone
     THEN UNCHANGED <<tokens, redeemed>>
     ELSE \E t \in Unused(tokens) :
            /\ t = FirstOf(Unused(tokens))
            /\ tokens' = [tokens EXCEPT ![t] = Row(w, work[w].key, work[w].at)]
            /\ redeemed' = [redeemed EXCEPT ![work[w].n] = @ + 1]
  /\ Ends(w) /\ outrun' = outrun \ {w}
  /\ UNCHANGED <<clock, identity, codes, nonces, spks, opks, bucket, submitted, rivals,
                 handed>>

-----------------------------------------------------------------------------
(* Requests that present a token. *)

Expired(t) == clock - tokens[t].at > Idle

Jobs == {"list", "logout", "logout_all", "spk", "opks", "delete"}

(* authenticate_token and require_auth: an idle session is revoked, one in
   use starts its idle time anew. *)
Authenticate(w, t, job) ==
  /\ work[w] = Free /\ t \in Live(tokens)
  /\ IF Expired(t)
     THEN tokens' = [tokens EXCEPT ![t].st = "spent"] /\ UNCHANGED work
     ELSE /\ tokens' = [tokens EXCEPT ![t].at = clock]
          /\ Becomes(w, [pc |-> job, t |-> t])
  /\ UNCHANGED <<clock, identity, codes, nonces, spks, opks, bucket, history>>

(* The handler reads its session row again after that commit; a request
   whose session was deleted meanwhile ends there. *)
SessionLost(w) ==
  /\ work[w].pc \in Jobs \cup {"rotate"} /\ work[w].t \notin Kept(tokens)
  /\ Ends(w)
  /\ UNCHANGED <<clock, rows, bucket, history>>

HasSession(w) == work[w].t \in Kept(tokens)

(* list_sessions changes nothing itself; like any request it has kept its
   session alive. *)
ListSessions(w) ==
  /\ work[w].pc = "list" /\ HasSession(w)
  /\ Ends(w)
  /\ UNCHANGED <<clock, rows, bucket, history>>

Logout(w) ==
  /\ work[w].pc = "logout" /\ HasSession(w)
  /\ tokens' = [tokens EXCEPT ![work[w].t].st = "spent"]
  /\ Ends(w)
  /\ UNCHANGED <<clock, identity, codes, nonces, spks, opks, bucket, history>>

(* logout_all spares the session that asks. *)
LogoutAll(w) ==
  /\ work[w].pc = "logout_all" /\ HasSession(w)
  /\ tokens' = [t \in TokenId |->
                  IF t \in Live(tokens) \ {work[w].t}
                  THEN [tokens[t] EXCEPT !.st = "spent"] ELSE tokens[t]]
  /\ Ends(w)
  /\ UNCHANGED <<clock, identity, codes, nonces, spks, opks, bucket, history>>

(* ws_endpoint, first frame: the token is read on the event loop ... *)
OpenSocket(w, t) ==
  /\ work[w] = Free /\ t \in Live(tokens)
  /\ \A v \in Worker : work[v].pc # "rotate"
  /\ IF Expired(t)
     THEN tokens' = [tokens EXCEPT ![t].st = "spent"] /\ UNCHANGED work
     ELSE UNCHANGED tokens /\ Becomes(w, [pc |-> "rotate", t |-> t])
  /\ UNCHANGED <<clock, identity, codes, nonces, spks, opks, bucket, history>>

(* ... and retired for a fresh one in the same transaction. *)
RotateToken(w) ==
  /\ work[w].pc = "rotate" /\ HasSession(w)
  /\ \E t \in Unused(tokens) :
       /\ t = FirstOf(Unused(tokens))
       /\ tokens' = [tokens EXCEPT
                        ![work[w].t].st = "spent",
                        ![t] = [Row(w, tokens[work[w].t].key, clock)
                                  EXCEPT !.late = @ \/ tokens[work[w].t].late]]
  /\ Ends(w)
  /\ UNCHANGED <<clock, identity, codes, nonces, spks, opks, bucket, history>>

-----------------------------------------------------------------------------
(* Prekeys. *)

(* upload_spk and upload_opks look at the session row once more; the second
   refuses a batch that would exceed the cap. *)
AdmitUpload(w) ==
  /\ work[w].pc \in {"spk", "opks"} /\ HasSession(w)
  /\ Becomes(w, IF work[w].pc = "opks" /\ Cardinality(Live(opks)) + Batch > PrekeyCap
                THEN Free
                ELSE [pc |-> IF work[w].pc = "spk" THEN "add_spk" ELSE "add_opks",
                      key |-> tokens[work[w].t].key])
  /\ outrun' = IF tokens[work[w].t].late /\ work'[w] # Free THEN outrun \cup {w} ELSE outrun
  /\ UNCHANGED <<clock, rows, bucket, submitted, redeemed, rivals, handed>>

(* The rows go in at the commit, to an account that is still there. *)
AddSignedPrekey(w) ==
  /\ work[w].pc = "add_spk"
  /\ spks' = IF identity = Gone THEN spks
             ELSE spks \cup {[key |-> work[w].key, late |-> Overtaken(w)]}
  /\ Ends(w) /\ outrun' = outrun \ {w}
  /\ UNCHANGED <<clock, identity, codes, nonces, tokens, opks, bucket, submitted, redeemed,
                 rivals, handed>>

AddBatch(w) ==
  /\ work[w].pc = "add_opks"
  /\ IF identity = Gone THEN UNCHANGED opks
     ELSE \E batch \in SUBSET Unused(opks) :
            /\ Cardinality(batch) = Batch
            /\ \A o \in Unused(opks) \ batch, b \in batch : b < o
            /\ opks' = [o \in PrekeyId |-> IF o \in batch THEN Row(w, work[w].key, 0)
                                           ELSE opks[o]]
  /\ Ends(w) /\ outrun' = outrun \ {w}
  /\ UNCHANGED <<clock, identity, codes, nonces, tokens, spks, bucket, submitted, redeemed,
                 rivals, handed>>

(* fetch_bundle, by a peer: of an account with a signed prekey, the oldest
   unconsumed one-time prekey is a candidate. *)
FetchBundle(w) ==
  /\ work[w] = Free /\ spks # {} /\ Live(opks) # {}
  /\ Becomes(w, [pc |-> "claim", o |-> FirstOf(Live(opks)), tries |-> ClaimRetries])
  /\ UNCHANGED <<clock, rows, bucket, history>>

\* Mutant: the update does not ask whether the prekey is still unconsumed.
MutClaimPrekey(w) ==
  /\ work[w].pc = "claim"
  /\ LET o == work[w].o IN
       IF o \in Kept(opks)
       THEN /\ opks' = [opks EXCEPT ![o].st = "spent"]
            /\ handed' = [handed EXCEPT ![o] = @ + 1]
       ELSE UNCHANGED <<opks, handed>>
  /\ Ends(w)
  /\ UNCHANGED <<clock, identity, codes, nonces, tokens, spks, bucket, submitted, redeemed,
                 rivals, outrun>>

(* _claim_opk: the update takes it only if it is still unconsumed, and the
   loser tries the next, a few times, before it goes without. *)
ClaimPrekey(w) ==
  /\ work[w].pc = "claim"
  /\ LET o == work[w].o IN
       IF o \in Live(opks)
       THEN /\ opks' = [opks EXCEPT ![o].st = "spent"]
            /\ handed' = [handed EXCEPT ![o] = @ + 1]
            /\ Ends(w)
       ELSE /\ UNCHANGED <<opks, handed>>
            /\ Becomes(w, IF work[w].tries > 1 /\ Live(opks) # {}
                          THEN [pc |-> "claim", o |-> FirstOf(Live(opks)),
                                tries |-> work[w].tries - 1]
                          ELSE Free)
  /\ UNCHANGED <<clock, identity, codes, nonces, tokens, spks, bucket, submitted, redeemed,
                 rivals, outrun>>

-----------------------------------------------------------------------------
(* Recovery and deletion. *)

(* recover reads the account and its codes, and compares them all. *)
PresentCode(w, c) ==
  /\ work[w] = Free /\ c \in codes /\ submitted < MaxKeys
  /\ submitted' = submitted + 1
  /\ Becomes(w, [pc |-> "recover", key |-> submitted + 1, code |-> c])
  /\ UNCHANGED <<clock, rows, bucket, redeemed, rivals, outrun, handed>>

(* What refers to the account. *)
Referring == [tokens |-> Kept(tokens), opks |-> Kept(opks), spks |-> spks, codes |-> codes]
Within(a, b) == \A table \in DOMAIN a : a[table] \subseteq b[table]

(* Both ways to empty the account's tables lock its rows until they commit. *)
Emptying == {w \in Worker : work[w].pc \in {"replace", "drop"}}

\* Mutant: the sessions of the device that is forced out are left alone.
MutSweepOldIdentity(w) ==
  /\ work[w].pc = "recover" /\ Emptying = {}
  /\ Becomes(w, IF identity = Gone THEN Free
                ELSE [pc |-> "replace", key |-> work[w].key,
                      seen |-> [Referring EXCEPT !.tokens = {}]])
  /\ UNCHANGED <<clock, rows, bucket, history>>

(* recover: the statements that empty the tables, under a lock on the
   account's row.  An account deleted since it was read fails the request. *)
SweepOldIdentity(w) ==
  /\ work[w].pc = "recover" /\ Emptying = {}
  /\ Becomes(w, IF identity = Gone THEN Free
                ELSE [pc |-> "replace", key |-> work[w].key, seen |-> Referring])
  /\ UNCHANGED <<clock, rows, bucket, history>>

(* Requests that have compared the key and have only to commit. *)
PastChecks == {w \in Worker : work[w].pc \in {"issue", "add_spk", "add_opks"}}

(* All or nothing: the key, the codes, and what the deletions saw; a row
   that was committed after they looked stays. *)
ReplaceIdentity(w) ==
  /\ work[w].pc = "replace"
  /\ LET seen == work[w].seen IN
       /\ identity' = work[w].key
       /\ codes' = (codes \ seen.codes) \cup {work[w].key}
       /\ tokens' = Without(tokens, seen.tokens) /\ opks' = Without(opks, seen.opks)
       /\ spks' = spks \ seen.spks
  /\ Ends(w) /\ outrun' = outrun \cup PastChecks
  /\ UNCHANGED <<clock, nonces, bucket, submitted, redeemed, rivals, handed>>

(* delete_account: the statements that empty the tables ... *)
SweepAccount(w) ==
  /\ work[w].pc = "delete" /\ HasSession(w) /\ Emptying = {}
  /\ Becomes(w, [pc |-> "drop", seen |-> Referring, nonces |-> Kept(nonces)])
  /\ UNCHANGED <<clock, rows, bucket, history>>

\* Mutant: the tables are emptied in a transaction of their own.
MutDropAccount(w) ==
  /\ work[w].pc = "drop"
  /\ LET seen == work[w].seen IN
       /\ identity' = IF Within(Referring, seen) THEN Gone ELSE identity
       /\ codes' = codes \ seen.codes
       /\ tokens' = Without(tokens, seen.tokens) /\ opks' = Without(opks, seen.opks)
       /\ spks' = spks \ seen.spks
       /\ nonces' = [n \in NonceId |-> IF n \in work[w].nonces
                       THEN [nonces[n] EXCEPT !.st = "gone"] ELSE nonces[n]]
  /\ Ends(w)
  /\ UNCHANGED <<clock, bucket, history>>

(* ... and the last, which fails, and undoes them all, if a row they did not
   see refers to the account by now. *)
DropAccount(w) ==
  /\ work[w].pc = "drop"
  /\ LET seen == work[w].seen IN
     IF Within(Referring, seen)
     THEN /\ identity' = Gone /\ codes' = {} /\ spks' = {}
          /\ tokens' = Without(tokens, seen.tokens) /\ opks' = Without(opks, seen.opks)
          /\ nonces' = [n \in NonceId |-> IF n \in work[w].nonces
                          THEN [nonces[n] EXCEPT !.st = "gone"] ELSE nonces[n]]
     ELSE UNCHANGED <<identity, codes, opks, spks, tokens, nonces>>
  /\ Ends(w)
  /\ UNCHANGED <<clock, bucket, history>>

(* A recovery that has the account's row and a deletion that has the rest
   wait for each other; the database refuses one of them. *)
Deadlocked(w) ==
  /\ \E v, d \in Worker : work[v].pc = "recover" /\ work[d].pc = "drop" /\ w \in {v, d}
  /\ Ends(w)
  /\ UNCHANGED <<clock, rows, bucket, history>>

Next ==
  \/ Tick \/ Register \/ Challenge
  \/ \E w \in Worker :
       \/ \E n \in NonceId, k \in Key : ReadNonce(w, n, k)
       \/ BurnNonce(w) \/ CheckSignature(w) \/ IssueToken(w)
       \/ \E t \in TokenId, job \in Jobs : Authenticate(w, t, job)
       \/ SessionLost(w) \/ ListSessions(w) \/ Logout(w) \/ LogoutAll(w)
       \/ \E t \in TokenId : OpenSocket(w, t)
       \/ RotateToken(w)
       \/ AdmitUpload(w) \/ AddSignedPrekey(w) \/ AddBatch(w)
       \/ FetchBundle(w) \/ ClaimPrekey(w)
       \/ \E c \in Key : PresentCode(w, c)
       \/ SweepOldIdentity(w) \/ ReplaceIdentity(w)
       \/ SweepAccount(w) \/ DropAccount(w) \/ Deadlocked(w)

Spec == Init /\ [][Next]_vars

-----------------------------------------------------------------------------
RowType == [st : {"none", "live", "spent", "gone"}, key : 0..MaxKeys, late : BOOLEAN,
            at : 0..MaxClock]
NonceType == [st : {"none", "live", "spent", "gone"}, at : 0..MaxClock]
SpkType == [key : Key, late : BOOLEAN]
SeenType == [tokens : SUBSET TokenId, opks : SUBSET PrekeyId,
             spks : SUBSET SpkType, codes : SUBSET Key]
WorkType ==
  {Free}
  \cup [pc : {"burn", "user", "issue"}, n : NonceId, key : Key, at : 0..MaxClock, ok : BOOLEAN]
  \cup [pc : Jobs \cup {"rotate"}, t : TokenId]
  \cup [pc : {"add_spk", "add_opks"}, key : Key]
  \cup [pc : {"claim"}, o : PrekeyId, tries : 1..ClaimRetries]
  \cup [pc : {"recover"}, key : Key, code : Key]
  \cup [pc : {"replace"}, key : Key, seen : SeenType]
  \cup [pc : {"drop"}, nonces : SUBSET NonceId, seen : SeenType]

(* Every variable has its type. *)
TypeOK ==
  /\ clock \in 0..MaxClock /\ identity \in 0..MaxKeys /\ codes \subseteq Key
  /\ nonces \in [NonceId -> NonceType]
  /\ tokens \in [TokenId -> RowType] /\ opks \in [PrekeyId -> RowType]
  /\ spks \subseteq SpkType
  /\ bucket \in [level : 0..Capacity, at : 0..MaxClock]
  /\ work \in [Worker -> WorkType]
  /\ submitted \in 0..MaxKeys
  /\ redeemed \in [NonceId -> Nat] /\ rivals \in [NonceId -> Nat]
  /\ outrun \subseteq Worker /\ handed \in [PrekeyId -> Nat]

(* No two bundles carry the same one-time prekey, however many fetches race
   for it (bundles.py: "two racing fetches can never receive the same OPK"). *)
PrekeyHandedOnce == \A o \in PrekeyId : handed[o] <= 1

(* The codes in the table are the ones issued with the key in place, also
   after two recoveries with the same code, or one that meets a deletion;
   and an account that is there can be recovered. *)
CodesMatchIdentity == codes = IF identity = Gone THEN {} ELSE {identity}

(* Once a recovery has replaced the identity, no session and no prekey made
   with the old key is there, save those that a request past its checks by
   then, or one that met the deletions, committed after them, and what these
   sessions uploaded: a login or an upload that starts later brings nothing
   of the old key in (recover.py: "every artifact bound to the old key is
   destroyed"). *)
OldIdentityOut ==
  /\ \A t \in Kept(tokens) : tokens[t].key = identity \/ tokens[t].late
  /\ \A o \in Kept(opks) : opks[o].key = identity \/ opks[o].late
  /\ \A s \in spks : s.key = identity \/ s.late

(* One signed challenge opens, or is about to open, no more sessions than
   there were requests that had read it when the first of them consumed it:
   a request that comes later, and one alone, is not let in a second time
   (verify, login.py). *)
AcceptedFor(n) == {w \in Worker : work[w].pc \in {"user", "issue"} /\ work[w].n = n}
NonceGoodForOneRound ==
  \A n \in NonceId : redeemed[n] + Cardinality(AcceptedFor(n)) <= rivals[n]

(* "Single-use regardless of outcome" (verify, login.py): one challenge opens
   at most one session. *)
NonceSingleUse == \A n \in NonceId : redeemed[n] <= 1

(* In any stretch of time the limiter lets through no more challenges than
   its capacity and what accrues in that stretch. *)
Granted(a, b) == {n \in NonceId : nonces[n].st # "none" /\ nonces[n].at \in a..b}
ChallengesPaced ==
  \A a \in 0..clock : \A b \in a..clock :
    Window * Cardinality(Granted(a, b)) <= Burst * (Window + b - a)

-----------------------------------------------------------------------------
(* What the proofs of AccountsProofs carry from step to step. *)

(* No row and no refill is dated later than now. *)
NothingAhead == bucket.at <= clock /\ \A n \in NonceId : nonces[n].at <= clock

(* A session in the table was issued for a key. *)
SessionsKeyed == \A t \in Kept(tokens) : tokens[t].key \in Key

(* A prekey is handed over no later than it is spent. *)
HandedWhenSpent ==
  \A o \in PrekeyId : opks[o].st \in {"none", "live"} => handed[o] = 0

(* Before there is an account there is nothing to work on. *)
NothingYet ==
  submitted = 0 => /\ identity = Gone /\ codes = {} /\ spks = {}
                   /\ Kept(tokens) = {} /\ Kept(opks) = {}
                   /\ \A w \in Worker : work[w] = Free

(* The locks: one request at a time empties the account's tables, and what
   it has not seen of them came in late. *)
OneEmpties == \A v, w \in Emptying : v = w
Unseen(table, ids) == \A i \in Kept(table) \ ids : table[i].late
SweptButLate ==
  \A w \in Worker : work[w].pc = "replace" =>
    LET seen == work[w].seen IN
      /\ codes \subseteq seen.codes
      /\ Unseen(tokens, seen.tokens) /\ Unseen(opks, seen.opks)
      /\ \A s \in spks \ seen.spks : s.late

(* A request that has only to commit holds the key in place, unless a
   recovery came between. *)
ChecksHold ==
  \A w \in PastChecks : work[w].key = identity \/ w \in outrun \/ identity = Gone

(* Nobody is accepted on a nonce before it is consumed; from then on nobody
   joins those who had read it. *)
BurntBeforeUse ==
  \A n \in NonceId :
    \/ nonces[n].st # "spent" /\ redeemed[n] = 0 /\ AcceptedFor(n) = {}
    \/ /\ nonces[n].st \in {"spent", "gone"}
       /\ redeemed[n] + Cardinality(SawFresh(n)) <= rivals[n]

(* What a deletion takes away was there when it looked. *)
DropSeesIssued ==
  \A w \in Worker : work[w].pc = "drop" =>
    \A n \in work[w].nonces : nonces[n].st # "none"

(* In every stretch that ends now, what was let through and what the bucket
   still holds stay within the allowance. *)
BucketCovers ==
  \A a \in 0..clock :
    Window * Cardinality(Granted(a, clock)) + Refilled(bucket)
      <= Burst * (Window + clock - a)

IInv ==
  /\ TypeOK /\ NothingAhead /\ SessionsKeyed
  /\ PrekeyHandedOnce /\ HandedWhenSpent
  /\ NothingYet /\ OneEmpties /\ SweptButLate /\ ChecksHold
  /\ CodesMatchIdentity /\ OldIdentityOut
  /\ DropSeesIssued /\ BurntBeforeUse
  /\ ChallengesPaced /\ BucketCovers

=============================================================================
