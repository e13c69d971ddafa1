----------------------------- MODULE AccountsProofs -----------------------------
(***************************************************************************)
(* For any number of requests in flight, any limits and any supply of      *)
(* keys, tokens, nonces and prekeys: types, one bundle per prekey, codes   *)
(* that match the identity, nothing left of an old identity, one round per *)
(* nonce, and paced challenges.                                            *)
(***************************************************************************)
EXTENDS Accounts, FiniteSetTheorems, WellFoundedInduction, TLAPS

LEMMA Constants ==
  /\ Idle \in Nat /\ NonceTTL \in Nat /\ Burst \in Nat /\ Window \in Nat /\ Window > 0
  /\ PrekeyCap \in Nat /\ Batch \in Nat /\ Batch > 0 /\ ClaimRetries \in Nat /\ ClaimRetries > 0
  /\ MaxClock \in Nat /\ MaxKeys \in Nat /\ MaxKeys > 0
  /\ MaxTokens \in Nat /\ MaxNonces \in Nat /\ MaxPrekeys \in Nat
  /\ IsFiniteSet(Worker)
BY AccountsBounds

USE Constants

-----------------------------------------------------------------------------
(* Types. *)

LEMMA WorkFields ==
  ASSUME NEW r \in WorkType
  PROVE  /\ r.pc \in {"burn", "user", "issue"} =>
              /\ r.n \in NonceId /\ r.key \in Key /\ r.at \in 0..MaxClock
              /\ r.ok \in BOOLEAN
              /\ \A pc \in {"user", "issue"} :
                   /\ [r EXCEPT !.pc = pc] \in WorkType
                   /\ [r EXCEPT !.pc = pc].pc = pc /\ [r EXCEPT !.pc = pc].n = r.n
         /\ r.pc \in Jobs \cup {"rotate"} => r.t \in TokenId
         /\ r.pc \in {"add_spk", "add_opks"} => r.key \in Key
         /\ r.pc = "claim" => r.o \in PrekeyId /\ r.tries \in 1..ClaimRetries
         /\ r.pc = "recover" => r.key \in Key /\ r.code \in Key
         /\ r.pc = "replace" => r.key \in Key /\ r.seen \in SeenType
         /\ r.pc = "drop" => r.nonces \in SUBSET NonceId /\ r.seen \in SeenType
BY DEF WorkType, Free, Jobs

LEMMA Begun ==
  /\ Free \in WorkType
  /\ \A n \in NonceId, k \in Key, at \in 0..MaxClock, ok \in BOOLEAN :
       [pc |-> "burn", n |-> n, key |-> k, at |-> at, ok |-> ok] \in WorkType
  /\ \A job \in Jobs \cup {"rotate"}, t \in TokenId : [pc |-> job, t |-> t] \in WorkType
  /\ \A pc \in {"add_spk", "add_opks"}, k \in Key : [pc |-> pc, key |-> k] \in WorkType
  /\ \A o \in PrekeyId, tries \in 1..ClaimRetries :
       [pc |-> "claim", o |-> o, tries |-> tries] \in WorkType
  /\ \A k \in Key, c \in Key : [pc |-> "recover", key |-> k, code |-> c] \in WorkType
  /\ \A k \in Key, seen \in SeenType :
       [pc |-> "replace", key |-> k, seen |-> seen] \in WorkType
  /\ \A ns \in SUBSET NonceId, seen \in SeenType :
       [pc |-> "drop", seen |-> seen, nonces |-> ns] \in WorkType
BY DEF WorkType

LEMMA BecomesTyped ==
  ASSUME TypeOK, NEW w \in Worker, NEW r \in WorkType, Becomes(w, r)
  PROVE  work' \in [Worker -> WorkType]
BY DEF TypeOK, Becomes

LEMMA EndsTyped ==
  ASSUME TypeOK, NEW w \in Worker, Ends(w)
  PROVE  work' \in [Worker -> WorkType]
BY Begun, BecomesTyped DEF Ends

LEMMA RowTyped ==
  ASSUME NEW w, NEW k \in Key, NEW at \in 0..MaxClock
  PROVE  /\ Row(w, k, at) \in RowType
         /\ \A l \in BOOLEAN : [Row(w, k, at) EXCEPT !.late = l] \in RowType
<1>1. Overtaken(w) \in BOOLEAN
  BY DEF Overtaken
<1>2. QED
  BY <1>1 DEF Row, RowType, Key

LEMMA WithoutTyped ==
  ASSUME NEW Id, NEW table \in [Id -> RowType], NEW ids
  PROVE  Without(table, ids) \in [Id -> RowType]
<1>1. Blank \in RowType
  BY DEF Blank, Gone, RowType
<1>2. [Blank EXCEPT !.st = "gone"] \in RowType
  BY <1>1 DEF RowType
<1>3. QED
  BY <1>2 DEF Without

LEMMA FirstOfIn ==
  ASSUME NEW N \in Nat, NEW ids \in SUBSET (1..N), ids # {}
  PROVE  FirstOf(ids) \in ids
<1> DEFINE Below == {1..i : i \in ids}
<1>1. IsFiniteSet(1..N)
  BY FS_Interval
<1>2. Below \subseteq FiniteSubsetsOf(1..N)
  <2>1. ASSUME NEW i \in ids PROVE 1..i \in FiniteSubsetsOf(1..N)
    BY FS_Interval DEF FiniteSubsetsOf
  <2>2. QED
    BY <2>1
<1>3. PICK low \in Below : \A b \in Below : <<b, low>> \notin StrictSubsetOrdering(1..N)
  <2>1. Below # {}
    OBVIOUS
  <2>2. IsWellFoundedOn(StrictSubsetOrdering(1..N), FiniteSubsetsOf(1..N))
    BY FS_StrictSubsetOrderingWellFounded
  <2> HIDE DEF Below
  <2>3. QED
    BY <1>2, <2>1, <2>2, WFMin
<1>4. PICK i \in ids : low = 1..i
  OBVIOUS
<1>5. ASSUME NEW j \in ids PROVE i <= j
  <2>1. SUFFICES ASSUME j < i PROVE FALSE
    OBVIOUS
  <2>2. (1..j) \subseteq (1..i) /\ i \in 1..i /\ i \notin 1..j /\ (1..i) \subseteq (1..N)
    BY <2>1
  <2>3. <<1..j, 1..i>> \in StrictSubsetOrdering(1..N)
    BY <2>2 DEF StrictSubsetOrdering
  <2>4. QED
    BY <1>3, <1>4, <2>3
<1>6. QED
  BY <1>5 DEF FirstOf

LEMMA InitTyped == Init => TypeOK
<1>1. Blank \in RowType /\ Unissued \in NonceType
  BY DEF Blank, Unissued, RowType, NonceType, Gone
<1>2. Burst * Window \in Nat
  OBVIOUS
<1>3. QED
  BY <1>1, <1>2, Begun DEF Init, TypeOK, Gone, Capacity

(* What is put into a table that was well typed. *)
Status == {"none", "live", "spent", "gone"}
LEMMA StatusTyped ==
  ASSUME TypeOK
  PROVE  /\ \A t \in TokenId, st \in Status :
              /\ [tokens EXCEPT ![t].st = st] \in [TokenId -> RowType]
              /\ [tokens[t] EXCEPT !.st = st] \in RowType
         /\ \A t \in TokenId, at \in 0..MaxClock :
              [tokens EXCEPT ![t].at = at] \in [TokenId -> RowType]
         /\ \A o \in PrekeyId, st \in Status : [opks EXCEPT ![o].st = st] \in [PrekeyId -> RowType]
         /\ \A n \in NonceId, st \in Status : [nonces[n] EXCEPT !.st = st] \in NonceType
<1>1. \A r \in RowType : /\ \A st \in Status : [r EXCEPT !.st = st] \in RowType
                         /\ \A at \in 0..MaxClock : [r EXCEPT !.at = at] \in RowType
  BY DEF RowType, Status
<1>2. QED
  BY <1>1 DEF TypeOK, NonceType, Status

LEMMA Statuses == "none" \in Status /\ "live" \in Status /\ "spent" \in Status /\ "gone" \in Status
BY DEF Status

LEMMA SeenTyped == TypeOK => Referring \in SeenType
BY DEF TypeOK, Referring, SeenType, Kept

LEMMA SawFreshFinite ==
  ASSUME NEW n
  PROVE  IsFiniteSet(SawFresh(n)) /\ Cardinality(SawFresh(n)) \in Nat
<1>1. SawFresh(n) \subseteq Worker
  BY DEF SawFresh
<1>2. QED
  BY <1>1, FS_Subset, FS_CardinalityType

(* Sessions: what a login and the requests that present a token do. *)
LEMMA LoginTyped ==
  ASSUME TypeOK, NEW w \in Worker
  PROVE  /\ \A n \in NonceId, k \in Key : ReadNonce(w, n, k) => TypeOK'
         /\ BurnNonce(w) => TypeOK'
         /\ CheckSignature(w) => TypeOK'
         /\ IssueToken(w) => TypeOK'
<1>0. work[w] \in WorkType /\ clock \in 0..MaxClock
  BY DEF TypeOK
<1>1. ASSUME NEW n \in NonceId, NEW k \in Key, ReadNonce(w, n, k) PROVE TypeOK'
  <2>1. PICK matches \in BOOLEAN :
          Becomes(w, [pc |-> "burn", n |-> n, key |-> k, at |-> clock,
                      ok |-> matches /\ clock - nonces[n].at <= NonceTTL])
    BY <1>1 DEF ReadNonce
  <2>2. work' \in [Worker -> WorkType]
    <3>1. (matches /\ clock - nonces[n].at <= NonceTTL) \in BOOLEAN
      OBVIOUS
    <3>2. QED
      BY <1>0, <2>1, <3>1, Begun, BecomesTyped
  <2>3. QED
    BY <1>1, <2>2 DEF ReadNonce, TypeOK, rows, history
<1>2. ASSUME BurnNonce(w) PROVE TypeOK'
  <2>1. work' \in [Worker -> WorkType]
    BY <1>0, <1>2, Begun, WorkFields, BecomesTyped, EndsTyped DEF BurnNonce
  <2>2. nonces' \in [NonceId -> NonceType]
    BY <1>2 DEF BurnNonce, TypeOK, NonceType
  <2>3. rivals' \in [NonceId -> Nat]
    BY <1>2, SawFreshFinite DEF BurnNonce, TypeOK
  <2>4. QED
    BY <1>2, <2>1, <2>2, <2>3 DEF BurnNonce, TypeOK
<1>3. ASSUME CheckSignature(w) PROVE TypeOK'
  <2>1. work' \in [Worker -> WorkType]
    BY <1>0, <1>3, Begun, WorkFields, BecomesTyped DEF CheckSignature
  <2>2. QED
    BY <1>3, <2>1 DEF CheckSignature, TypeOK, rows, history
<1>4. ASSUME IssueToken(w) PROVE TypeOK'
  <2>1. work' \in [Worker -> WorkType]
    BY <1>4, EndsTyped DEF IssueToken
  <2>2. tokens' \in [TokenId -> RowType] /\ redeemed' \in [NonceId -> Nat]
    <3>1. CASE identity = Gone
      BY <1>4, <3>1 DEF IssueToken, TypeOK
    <3>2. CASE identity # Gone
      <4>1. work[w].key \in Key /\ work[w].at \in 0..MaxClock
        BY <1>0, <1>4, WorkFields DEF IssueToken
      <4>2. Row(w, work[w].key, work[w].at) \in RowType
        BY <4>1, RowTyped
      <4>3. QED
        BY <1>4, <3>2, <4>2 DEF IssueToken, TypeOK
    <3>3. QED
      BY <3>1, <3>2
  <2>3. QED
    BY <1>4, <2>1, <2>2 DEF IssueToken, TypeOK
<1>5. QED
  BY <1>1, <1>2, <1>3, <1>4

LEMMA SessionTyped ==
  ASSUME TypeOK, NEW w \in Worker
  PROVE  /\ \A t \in TokenId, job \in Jobs : Authenticate(w, t, job) => TypeOK'
         /\ SessionLost(w) => TypeOK'
         /\ ListSessions(w) => TypeOK'
         /\ Logout(w) => TypeOK'
         /\ LogoutAll(w) => TypeOK'
         /\ \A t \in TokenId : OpenSocket(w, t) => TypeOK'
         /\ RotateToken(w) => TypeOK'
<1>0. work[w] \in WorkType /\ clock \in 0..MaxClock
  BY DEF TypeOK
<1>1. ASSUME NEW t \in TokenId, NEW job \in Jobs, Authenticate(w, t, job) PROVE TypeOK'
  <2>1. tokens' \in [TokenId -> RowType]
    <3>1. \/ tokens' = [tokens EXCEPT ![t].st = "spent"]
          \/ tokens' = [tokens EXCEPT ![t].at = clock]
      BY <1>1 DEF Authenticate
    <3>2. /\ [tokens EXCEPT ![t].st = "spent"] \in [TokenId -> RowType]
          /\ [tokens EXCEPT ![t].at = clock] \in [TokenId -> RowType]
      BY <1>0, StatusTyped, Statuses
    <3>3. QED
      BY <3>1, <3>2
  <2>2. work' \in [Worker -> WorkType]
    BY <1>1, Begun, BecomesTyped DEF Authenticate, TypeOK
  <2>3. QED
    BY <1>1, <2>1, <2>2 DEF Authenticate, TypeOK, history
<1>2. ASSUME SessionLost(w) \/ ListSessions(w) PROVE TypeOK'
  <2>1. work' \in [Worker -> WorkType]
    BY <1>2, EndsTyped DEF SessionLost, ListSessions
  <2>2. QED
    BY <1>2, <2>1 DEF SessionLost, ListSessions, TypeOK, rows, history
<1>3. ASSUME Logout(w) PROVE TypeOK'
  <2>1. work[w].t \in TokenId
    BY <1>0, <1>3, WorkFields DEF Logout, Jobs
  <2>2. tokens' \in [TokenId -> RowType] /\ work' \in [Worker -> WorkType]
    BY <1>0, <1>3, <2>1, StatusTyped, Statuses, EndsTyped DEF Logout
  <2>3. QED
    BY <1>3, <2>2 DEF Logout, TypeOK, history
<1>4. ASSUME LogoutAll(w) PROVE TypeOK'
  <2>1. \A t \in TokenId : tokens[t] \in RowType /\ [tokens[t] EXCEPT !.st = "spent"] \in RowType
    BY <1>0, StatusTyped, Statuses DEF TypeOK
  <2>2. tokens' \in [TokenId -> RowType] /\ work' \in [Worker -> WorkType]
    BY <1>4, <2>1, EndsTyped DEF LogoutAll
  <2>3. QED
    BY <1>4, <2>2 DEF LogoutAll, TypeOK, history
<1>5. ASSUME NEW t \in TokenId, OpenSocket(w, t) PROVE TypeOK'
  <2>1. tokens' \in [TokenId -> RowType]
    BY <1>0, <1>5, StatusTyped, Statuses DEF OpenSocket, TypeOK
  <2>2. work' \in [Worker -> WorkType]
    BY <1>5, Begun, BecomesTyped DEF OpenSocket, TypeOK
  <2>3. QED
    BY <1>5, <2>1, <2>2 DEF OpenSocket, TypeOK, history
<1>6. ASSUME RotateToken(w) PROVE TypeOK'
  <2> DEFINE old == work[w].t
             fresh == [Row(w, tokens[old].key, clock) EXCEPT !.late = @ \/ tokens[old].late]
  <2>1. old \in TokenId
    BY <1>0, <1>6, WorkFields DEF RotateToken
  <2>2. fresh \in RowType
    <3>1. Row(w, tokens[old].key, clock) \in RowType
      BY <2>1 DEF Row, RowType, Overtaken, TypeOK
    <3>2. tokens[old].late \in BOOLEAN
      BY <2>1 DEF TypeOK, RowType
    <3>3. QED
      BY <3>1, <3>2 DEF RowType
  <2>3. PICK t \in Unused(tokens) : tokens' = [tokens EXCEPT ![old].st = "spent", ![t] = fresh]
    BY <1>6 DEF RotateToken
  <2>4. [tokens EXCEPT ![old].st = "spent"] \in [TokenId -> RowType]
    BY <2>1, <1>0, StatusTyped, Statuses
  <2>5. tokens' \in [TokenId -> RowType]
    <3> HIDE DEF old, fresh
    <3>1. QED
      BY <2>2, <2>3, <2>4
  <2>6. work' \in [Worker -> WorkType]
    BY <1>6, EndsTyped DEF RotateToken
  <2>7. QED
    BY <1>6, <2>5, <2>6 DEF RotateToken, TypeOK, history
<1>7. QED
  BY <1>1, <1>2, <1>3, <1>4, <1>5, <1>6

LEMMA PrekeyTyped ==
  ASSUME TypeOK, NEW w \in Worker
  PROVE  /\ SessionsKeyed /\ AdmitUpload(w) => TypeOK'
         /\ AddSignedPrekey(w) => TypeOK'
         /\ AddBatch(w) => TypeOK'
         /\ FetchBundle(w) => TypeOK'
         /\ ClaimPrekey(w) => TypeOK'
<1>0. work[w] \in WorkType /\ Live(opks) \subseteq 1..MaxPrekeys
  BY DEF TypeOK, Live, PrekeyId
<1>1. ASSUME SessionsKeyed, AdmitUpload(w) PROVE TypeOK'
  <2>1. tokens[work[w].t].key \in Key
    BY <1>1 DEF AdmitUpload, HasSession, SessionsKeyed
  <2>2. work' \in [Worker -> WorkType]
    BY <1>1, <2>1, Begun, BecomesTyped DEF AdmitUpload
  <2>3. QED
    BY <1>1, <2>2 DEF AdmitUpload, TypeOK, rows
<1>2. ASSUME AddSignedPrekey(w) PROVE TypeOK'
  <2>1. work[w].key \in Key /\ Overtaken(w) \in BOOLEAN
    BY <1>0, <1>2, WorkFields DEF AddSignedPrekey, Overtaken
  <2>2. spks' \subseteq SpkType
    BY <1>2, <2>1 DEF AddSignedPrekey, TypeOK, SpkType
  <2>3. work' \in [Worker -> WorkType]
    BY <1>2, EndsTyped DEF AddSignedPrekey
  <2>4. QED
    BY <1>2, <2>2, <2>3 DEF AddSignedPrekey, TypeOK
<1>3. ASSUME AddBatch(w) PROVE TypeOK'
  <2>1. Row(w, work[w].key, 0) \in RowType
    <3>1. work[w].pc \in {"add_spk", "add_opks"}
      BY <1>3 DEF AddBatch
    <3>2. work[w].key \in Key
      BY <1>0, <3>1, WorkFields
    <3>3. 0 \in 0..MaxClock
      OBVIOUS
    <3>4. QED
      BY <3>2, <3>3, RowTyped
  <2>2. opks' \in [PrekeyId -> RowType]
    BY <1>3, <2>1 DEF AddBatch, TypeOK
  <2>3. work' \in [Worker -> WorkType]
    BY <1>3, EndsTyped DEF AddBatch
  <2>4. QED
    BY <1>3, <2>2, <2>3 DEF AddBatch, TypeOK
<1>4. ASSUME FetchBundle(w) PROVE TypeOK'
  <2>1. FirstOf(Live(opks)) \in PrekeyId
    BY <1>0, <1>4, FirstOfIn DEF FetchBundle, PrekeyId
  <2>2. work' \in [Worker -> WorkType]
    BY <1>4, <2>1, Begun, BecomesTyped DEF FetchBundle
  <2>3. QED
    BY <1>4, <2>2 DEF FetchBundle, TypeOK, rows, history
<1>5. ASSUME ClaimPrekey(w) PROVE TypeOK'
  <2>1. work[w].o \in PrekeyId /\ work[w].tries \in 1..ClaimRetries
    BY <1>0, <1>5, WorkFields DEF ClaimPrekey
  <2>2. opks' \in [PrekeyId -> RowType] /\ handed' \in [PrekeyId -> Nat]
    <3>1. [opks EXCEPT ![work[w].o].st = "spent"] \in [PrekeyId -> RowType]
      BY <2>1, StatusTyped, Statuses
    <3>2. QED
      BY <1>5, <2>1, <3>1 DEF ClaimPrekey, TypeOK
  <2>3. work' \in [Worker -> WorkType]
    <3>1. CASE Ends(w)
      BY <3>1, EndsTyped
    <3>2. CASE /\ work[w].tries > 1 /\ Live(opks) # {}
               /\ Becomes(w, [pc |-> "claim", o |-> FirstOf(Live(opks)),
                              tries |-> work[w].tries - 1])
      <4>1. FirstOf(Live(opks)) \in PrekeyId
        BY <1>0, <3>2, FirstOfIn DEF PrekeyId
      <4>2. work[w].tries - 1 \in 1..ClaimRetries
        BY <2>1, <3>2
      <4>3. QED
        BY <3>2, <4>1, <4>2, Begun, BecomesTyped
    <3>3. QED
      BY <1>5, <3>1, <3>2 DEF ClaimPrekey, Ends
  <2>4. QED
    BY <1>5, <2>2, <2>3 DEF ClaimPrekey, TypeOK
<1>6. QED
  BY <1>1, <1>2, <1>3, <1>4, <1>5

LEMMA RecoveryTyped ==
  ASSUME TypeOK, NEW w \in Worker
  PROVE  /\ \A c \in Key : PresentCode(w, c) => TypeOK'
         /\ SweepOldIdentity(w) => TypeOK'
         /\ ReplaceIdentity(w) => TypeOK'
         /\ SweepAccount(w) => TypeOK'
         /\ DropAccount(w) => TypeOK'
         /\ Deadlocked(w) => TypeOK'
<1>0. work[w] \in WorkType
  BY DEF TypeOK
<1>1. ASSUME NEW c \in Key, PresentCode(w, c) PROVE TypeOK'
  <2>1. submitted + 1 \in Key
    BY <1>1 DEF PresentCode, TypeOK, Key
  <2>2. work' \in [Worker -> WorkType]
    BY <1>1, <2>1, Begun, BecomesTyped DEF PresentCode
  <2>3. QED
    BY <1>1, <2>1, <2>2 DEF PresentCode, TypeOK, Key, rows
<1>2. ASSUME SweepOldIdentity(w) PROVE TypeOK'
  <2>1. work[w].key \in Key
    BY <1>0, <1>2, WorkFields DEF SweepOldIdentity
  <2>2. work' \in [Worker -> WorkType]
    BY <1>2, <2>1, SeenTyped, Begun, BecomesTyped DEF SweepOldIdentity
  <2>3. QED
    BY <1>2, <2>2 DEF SweepOldIdentity, TypeOK, rows, history
<1>3. ASSUME ReplaceIdentity(w) PROVE TypeOK'
  <2>1. work[w].key \in Key
    BY <1>0, <1>3, WorkFields DEF ReplaceIdentity
  <2>2. tokens' \in [TokenId -> RowType] /\ opks' \in [PrekeyId -> RowType]
    BY <1>3, WithoutTyped DEF ReplaceIdentity, TypeOK
  <2>3. work' \in [Worker -> WorkType]
    BY <1>3, EndsTyped DEF ReplaceIdentity
  <2>4. identity' \in 0..MaxKeys /\ codes' \subseteq Key /\ spks' \subseteq SpkType
    <3>1. /\ identity' = work[w].key
          /\ codes' = (codes \ work[w].seen.codes) \cup {work[w].key}
          /\ spks' = spks \ work[w].seen.spks
      BY <1>3 DEF ReplaceIdentity
    <3>2. codes \subseteq Key /\ spks \subseteq SpkType /\ Key \subseteq 0..MaxKeys
      BY DEF TypeOK, Key
    <3>3. QED
      BY <2>1, <3>1, <3>2
  <2>5. QED
    BY <1>3, <2>2, <2>3, <2>4 DEF ReplaceIdentity, TypeOK, PastChecks
<1>4. ASSUME SweepAccount(w) PROVE TypeOK'
  <2>1. work' \in [Worker -> WorkType]
    BY <1>4, SeenTyped, Begun, BecomesTyped DEF SweepAccount, Kept, TypeOK
  <2>2. QED
    BY <1>4, <2>1 DEF SweepAccount, TypeOK, rows, history
<1>5. ASSUME DropAccount(w) PROVE TypeOK'
  <2>1. work' \in [Worker -> WorkType]
    BY <1>5, EndsTyped DEF DropAccount
  <2>2. CASE Within(Referring, work[w].seen)
    <3>1. tokens' \in [TokenId -> RowType] /\ opks' \in [PrekeyId -> RowType]
      BY <1>5, <2>2, WithoutTyped DEF DropAccount, TypeOK
    <3>2. nonces' \in [NonceId -> NonceType]
      <4>1. \A n \in NonceId : /\ nonces[n] \in NonceType
                               /\ [nonces[n] EXCEPT !.st = "gone"] \in NonceType
        BY StatusTyped, Statuses DEF TypeOK
      <4>2. QED
        BY <1>5, <2>2, <4>1 DEF DropAccount
    <3>3. identity' \in 0..MaxKeys /\ codes' \subseteq Key /\ spks' \subseteq SpkType
      BY <1>5, <2>2 DEF DropAccount, Gone
    <3>4. QED
      BY <1>5, <2>1, <3>1, <3>2, <3>3 DEF DropAccount, TypeOK, history
  <2>3. CASE ~Within(Referring, work[w].seen)
    BY <1>5, <2>1, <2>3 DEF DropAccount, TypeOK, history
  <2>4. QED
    BY <2>2, <2>3
<1>6. ASSUME Deadlocked(w) PROVE TypeOK'
  <2>1. work' \in [Worker -> WorkType]
    BY <1>6, EndsTyped DEF Deadlocked
  <2>2. QED
    BY <1>6, <2>1 DEF Deadlocked, TypeOK, rows, history
<1>7. QED
  BY <1>1, <1>2, <1>3, <1>4, <1>5, <1>6

(* The bucket holds at most its capacity, and at least what it held. *)
LEMMA RefilledWithin ==
  ASSUME TypeOK, NothingAhead
  PROVE  /\ Capacity \in Nat /\ bucket.level \in 0..Capacity
         /\ (clock - bucket.at) * Burst \in Nat
         /\ Refilled(bucket) \in 0..Capacity
<1>1. Capacity \in Nat
  BY DEF Capacity
<1>2. bucket.level \in 0..Capacity /\ clock - bucket.at \in Nat
  BY DEF TypeOK, NothingAhead
<1>3. (clock - bucket.at) * Burst \in Nat
  <2> DEFINE d == clock - bucket.at
  <2> HIDE DEF d
  <2>1. \A x \in Nat : x * Burst \in Nat
    OBVIOUS
  <2>2. QED
    BY <1>2, <2>1
<1>4. QED
  BY <1>1, <1>2, <1>3 DEF Refilled

LEMMA ChallengeTyped ==
  /\ TypeOK /\ Register => TypeOK'
  /\ TypeOK /\ NothingAhead /\ Tick => TypeOK'
  /\ TypeOK /\ NothingAhead /\ Challenge => TypeOK'
<1>1. ASSUME TypeOK, Register PROVE TypeOK'
  BY <1>1 DEF Register, TypeOK, Key
<1>2. ASSUME TypeOK, NothingAhead, Tick PROVE TypeOK'
  BY <1>2 DEF Tick, TypeOK, rows, history
<1>3. ASSUME TypeOK, NothingAhead, Challenge PROVE TypeOK'
  <2>1. bucket' \in [level : 0..Capacity, at : 0..MaxClock]
    <3>1. Capacity \in Nat /\ Refilled(bucket) \in 0..Capacity
      BY <1>3, RefilledWithin
    <3>2. Charged(bucket).level \in 0..Capacity
      BY <3>1 DEF Charged, Allowed
    <3>3. QED
      BY <1>3, <3>2 DEF Challenge, Charged, TypeOK
  <2>2. nonces' \in [NonceId -> NonceType]
    <3>1. [st |-> "live", at |-> clock] \in NonceType
      BY <1>3 DEF TypeOK, NonceType
    <3>2. QED
      BY <1>3, <3>1 DEF Challenge, TypeOK
  <2>3. QED
    BY <1>3, <2>1, <2>2 DEF Challenge, TypeOK, history
<1>4. QED
  BY <1>1, <1>2, <1>3

LEMMA StepTyped == TypeOK /\ NothingAhead /\ SessionsKeyed /\ [Next]_vars => TypeOK'
<1>1. ASSUME TypeOK, UNCHANGED vars PROVE TypeOK'
  BY <1>1 DEF vars, rows, history, TypeOK
<1>2. QED
  BY <1>1, ChallengeTyped, LoginTyped, SessionTyped, PrekeyTyped, RecoveryTyped DEF Next

-----------------------------------------------------------------------------
(* What a step does to the work in hand. *)

LEMMA EmptyingMoves ==
  ASSUME TypeOK, [Next]_vars, NEW v \in Worker, work'[v].pc \in {"replace", "drop"}
  PROVE  work'[v] = work[v] \/ SweepOldIdentity(v) \/ SweepAccount(v)
<1> USE DEF Becomes, Ends, Free, TypeOK
<1>1. CASE UNCHANGED work
  BY <1>1
<1>2. ASSUME NEW w \in Worker,
             \/ \E n \in NonceId, k \in Key : ReadNonce(w, n, k)
             \/ BurnNonce(w) \/ CheckSignature(w) \/ IssueToken(w)
      PROVE  work'[v] = work[v]
  <2>1. CASE BurnNonce(w) \/ CheckSignature(w)
    <3>1. work[w].pc \in {"burn", "user", "issue"} /\ work[w] \in WorkType
      BY <2>1 DEF BurnNonce, CheckSignature
    <3>2. /\ [work[w] EXCEPT !.pc = "user"].pc = "user"
          /\ [work[w] EXCEPT !.pc = "issue"].pc = "issue"
      BY <3>1, WorkFields
    <3>3. \/ UNCHANGED work \/ Becomes(w, Free)
          \/ Becomes(w, [work[w] EXCEPT !.pc = "user"])
          \/ Becomes(w, [work[w] EXCEPT !.pc = "issue"])
      BY <2>1 DEF BurnNonce, CheckSignature
    <3>4. CASE v = w
      <4>1. work'[v].pc \in {"user", "issue", "free"} \/ work'[v] = work[v]
        <5> DEFINE user == [work[w] EXCEPT !.pc = "user"]
                   issue == [work[w] EXCEPT !.pc = "issue"]
        <5>1. user.pc = "user" /\ issue.pc = "issue"
          BY <3>2
        <5>2. UNCHANGED work \/ Becomes(w, Free) \/ Becomes(w, user) \/ Becomes(w, issue)
          BY <3>3
        <5> HIDE DEF user, issue
        <5>3. QED
          BY <3>4, <5>1, <5>2
      <4>2. QED
        BY <4>1
    <3>5. CASE v # w
      BY <3>3, <3>5
    <3>6. QED
      BY <3>4, <3>5
  <2>2. QED
    BY <1>2, <2>1 DEF ReadNonce, IssueToken
<1>3. ASSUME NEW w \in Worker,
             \/ \E t \in TokenId, job \in Jobs : Authenticate(w, t, job)
             \/ SessionLost(w) \/ ListSessions(w) \/ Logout(w) \/ LogoutAll(w)
             \/ \E t \in TokenId : OpenSocket(w, t)
             \/ RotateToken(w)
      PROVE  work'[v] = work[v]
  <2>1. CASE \E t \in TokenId, job \in Jobs : Authenticate(w, t, job)
    BY <2>1 DEF Authenticate, Jobs
  <2>2. CASE SessionLost(w) \/ ListSessions(w) \/ Logout(w) \/ LogoutAll(w)
    BY <2>2 DEF SessionLost, ListSessions, Logout, LogoutAll
  <2>3. CASE (\E t \in TokenId : OpenSocket(w, t)) \/ RotateToken(w)
    BY <2>3 DEF OpenSocket, RotateToken
  <2> QED BY <1>3, <2>1, <2>2, <2>3
<1>4. ASSUME NEW w \in Worker,
             \/ AdmitUpload(w) \/ AddSignedPrekey(w) \/ AddBatch(w)
             \/ FetchBundle(w) \/ ClaimPrekey(w)
      PROVE  work'[v] = work[v]
  BY <1>4 DEF AdmitUpload, AddSignedPrekey, AddBatch, FetchBundle, ClaimPrekey
<1>5. ASSUME NEW w \in Worker,
             \/ \E c \in Key : PresentCode(w, c)
             \/ ReplaceIdentity(w) \/ DropAccount(w) \/ Deadlocked(w)
      PROVE  work'[v] = work[v]
  BY <1>5 DEF PresentCode, ReplaceIdentity, DropAccount, Deadlocked
<1>6. ASSUME NEW w \in Worker, SweepOldIdentity(w) \/ SweepAccount(w)
      PROVE  work'[v] = work[v] \/ SweepOldIdentity(v) \/ SweepAccount(v)
  BY <1>6 DEF SweepOldIdentity, SweepAccount
<1>7. CASE Tick \/ Register \/ Challenge
  BY <1>7 DEF Tick, Register, Challenge
<1> HIDE DEF Becomes, Ends, Free, TypeOK
<1>8. QED
  BY <1>1, <1>2, <1>3, <1>4, <1>5, <1>6, <1>7 DEF Next, vars

LEMMA StepOneEmpties ==
  TypeOK /\ NothingAhead /\ SessionsKeyed /\ OneEmpties /\ [Next]_vars => OneEmpties'
<1> SUFFICES ASSUME TypeOK, NothingAhead, SessionsKeyed, OneEmpties, [Next]_vars,
                    NEW v \in Worker, work'[v].pc \in {"replace", "drop"},
                    NEW w \in Worker, work'[w].pc \in {"replace", "drop"},
                    v # w
             PROVE  FALSE
  BY DEF OneEmpties, Emptying
<1>1. /\ work'[v] = work[v] \/ SweepOldIdentity(v) \/ SweepAccount(v)
      /\ work'[w] = work[w] \/ SweepOldIdentity(w) \/ SweepAccount(w)
  BY EmptyingMoves
<1>2. CASE work'[v] = work[v] /\ work'[w] = work[w]
  BY <1>2 DEF OneEmpties, Emptying
<1>3. ASSUME NEW x \in Worker, NEW y \in Worker, x # y,
             work'[y].pc \in {"replace", "drop"}, SweepOldIdentity(x) \/ SweepAccount(x)
      PROVE  FALSE
  <2>1. work'[y] = work[y] /\ Emptying = {}
    BY <1>3 DEF SweepOldIdentity, SweepAccount, Becomes, TypeOK
  <2>2. QED
    BY <1>3, <2>1 DEF Emptying
<1>4. QED
  BY <1>1, <1>2, <1>3

(* A row of a table was there, with its key and its mark, or is a new one, of
   a key, and marked if that key has been or is being replaced. *)
Outdated(k) == k # identity \/ \E w \in Worker : work[w].pc = "replace"
RowMoves(row, entry) ==
  \/ /\ row.st \in {"live", "spent"}
     /\ entry.key = row.key /\ entry.late = row.late
  \/ /\ entry.key \in Key
     /\ Outdated(entry.key) => entry.late

LEMMA NewRow ==
  ASSUME ChecksHold, identity # Gone, NEW w \in PastChecks, NEW at
  PROVE  /\ Row(w, work[w].key, at).key = work[w].key
         /\ Outdated(work[w].key) => Overtaken(w) /\ Row(w, work[w].key, at).late
         /\ Row(w, work[w].key, at).st = "live"
BY DEF Row, ChecksHold, Outdated, Overtaken

LEMMA SessionsMove ==
  ASSUME TypeOK, SessionsKeyed, ChecksHold, OldIdentityOut, [Next]_vars
  PROVE  \A t \in TokenId : tokens'[t].st \in {"live", "spent"} => RowMoves(tokens[t], tokens'[t])
<1> SUFFICES ASSUME NEW t \in TokenId, tokens'[t].st \in {"live", "spent"}
             PROVE  RowMoves(tokens[t], tokens'[t])
  OBVIOUS
<1>0. tokens \in [TokenId -> RowType] /\ work \in [Worker -> WorkType]
  BY DEF TypeOK
<1>1. CASE UNCHANGED tokens
  BY <1>1 DEF RowMoves
<1>2. ASSUME NEW w \in Worker, IssueToken(w) PROVE RowMoves(tokens[t], tokens'[t])
  <2>1. work[w].key \in Key /\ w \in PastChecks
    BY <1>0, <1>2, WorkFields DEF IssueToken, PastChecks
  <2>2. CASE UNCHANGED tokens
    BY <1>1, <2>2
  <2>3. CASE identity # Gone /\ \E u \in Unused(tokens) :
               tokens' = [tokens EXCEPT ![u] = Row(w, work[w].key, work[w].at)]
    BY <1>0, <2>1, <2>3, NewRow DEF RowMoves
  <2>4. QED
    BY <1>2, <2>2, <2>3 DEF IssueToken
<1>3. ASSUME NEW w \in Worker, RotateToken(w) PROVE RowMoves(tokens[t], tokens'[t])
  <2> DEFINE old == work[w].t
             fresh == [Row(w, tokens[old].key, clock) EXCEPT !.late = @ \/ tokens[old].late]
  <2>1. old \in TokenId /\ tokens[old].key \in Key /\ tokens[old].st \in {"live", "spent"}
    <3>1. old \in Kept(tokens)
      BY <1>3 DEF RotateToken, HasSession
    <3>2. QED
      BY <1>0, <3>1 DEF Kept, SessionsKeyed
  <2>2. PICK u \in Unused(tokens) : tokens' = [tokens EXCEPT ![old].st = "spent", ![u] = fresh]
    BY <1>3 DEF RotateToken
  <2>3. fresh.key = tokens[old].key /\ (Outdated(tokens[old].key) => fresh.late)
    BY <2>1 DEF Row, Outdated, Overtaken, OldIdentityOut, Kept, TypeOK
  <2>4. CASE t = u
    <3> HIDE DEF old, fresh
    <3>1. tokens'[t] = fresh
      BY <1>0, <2>2, <2>4 DEF Unused
    <3>2. QED
      BY <2>1, <2>3, <3>1 DEF RowMoves
  <2>5. CASE t # u /\ t = old
    <3> HIDE DEF old, fresh
    <3>1. tokens'[t] = [tokens[t] EXCEPT !.st = "spent"]
      BY <1>0, <2>2, <2>5
    <3>2. QED
      BY <1>0, <2>1, <2>5, <3>1 DEF RowMoves, RowType
  <2>6. CASE t # u /\ t # old
    <3> HIDE DEF old, fresh
    <3>1. tokens'[t] = tokens[t]
      BY <1>0, <2>2, <2>6
    <3>2. QED
      BY <3>1 DEF RowMoves
  <2>7. QED
    BY <2>4, <2>5, <2>6
<1>4. CASE \/ tokens'[t] = tokens[t]
           \/ /\ tokens[t].st \in {"live", "spent"}
              /\ \/ \E at \in 0..MaxClock : tokens'[t] = [tokens[t] EXCEPT !.at = at]
                 \/ tokens'[t] = [tokens[t] EXCEPT !.st = "spent"]
  BY <1>0, <1>4 DEF RowMoves, RowType
<1>5. ASSUME NEW w \in Worker,
             \/ \E u \in TokenId, job \in Jobs : Authenticate(w, u, job)
             \/ \E u \in TokenId : OpenSocket(w, u)
      PROVE  RowMoves(tokens[t], tokens'[t])
  <2>1. PICK u \in Live(tokens), at \in 0..MaxClock :
          \/ UNCHANGED tokens
          \/ tokens' = [tokens EXCEPT ![u].st = "spent"]
          \/ tokens' = [tokens EXCEPT ![u].at = at]
    <3>1. clock \in 0..MaxClock
      BY DEF TypeOK
    <3>2. QED
      BY <1>5, <3>1 DEF Authenticate, OpenSocket
  <2>2. tokens[u].st = "live"
    BY <2>1 DEF Live
  <2>3. QED
    BY <1>0, <1>4, <2>1, <2>2
<1>6. ASSUME NEW w \in Worker, Logout(w) \/ LogoutAll(w)
      PROVE  RowMoves(tokens[t], tokens'[t])
  <2>1. CASE Logout(w)
    <3>1. work[w].t \in Kept(tokens)
      BY <2>1 DEF Logout, HasSession
    <3>2. tokens' = [tokens EXCEPT ![work[w].t].st = "spent"]
      BY <2>1 DEF Logout
    <3>3. tokens[work[w].t].st \in {"live", "spent"}
      BY <3>1 DEF Kept
    <3>4. QED
      BY <1>0, <1>4, <3>2, <3>3
  <2>2. CASE LogoutAll(w)
    <3>1. \/ tokens'[t] = tokens[t]
          \/ tokens[t].st = "live" /\ tokens'[t] = [tokens[t] EXCEPT !.st = "spent"]
      BY <2>2 DEF LogoutAll, Live
    <3>2. QED
      BY <1>4, <3>1
  <2>3. QED
    BY <1>6, <2>1, <2>2
<1>7. ASSUME NEW w \in Worker, ReplaceIdentity(w) \/ DropAccount(w)
      PROVE  RowMoves(tokens[t], tokens'[t])
  <2>1. \/ UNCHANGED tokens
        \/ tokens' = Without(tokens, work[w].seen.tokens)
    BY <1>7 DEF ReplaceIdentity, DropAccount
  <2>2. CASE tokens' = Without(tokens, work[w].seen.tokens)
    <3>1. tokens'[t] = [Blank EXCEPT !.st = "gone"] \/ tokens'[t] = tokens[t]
      BY <1>0, <2>2 DEF Without
    <3>2. [Blank EXCEPT !.st = "gone"].st = "gone"
      BY DEF Blank
    <3>3. QED
      BY <1>4, <3>1, <3>2
  <2>3. QED
    BY <1>1, <2>1, <2>2
<1>8. ASSUME NEW w \in Worker,
             \/ \E n \in NonceId, k \in Key : ReadNonce(w, n, k)
             \/ BurnNonce(w) \/ CheckSignature(w) \/ SessionLost(w) \/ ListSessions(w)
             \/ AdmitUpload(w) \/ AddSignedPrekey(w) \/ AddBatch(w)
             \/ FetchBundle(w) \/ ClaimPrekey(w)
             \/ \E c \in Key : PresentCode(w, c)
             \/ SweepOldIdentity(w) \/ SweepAccount(w) \/ Deadlocked(w)
      PROVE  UNCHANGED tokens
  BY <1>8 DEF ReadNonce, BurnNonce, CheckSignature, SessionLost, ListSessions, AdmitUpload,
              AddSignedPrekey, AddBatch, FetchBundle, ClaimPrekey, PresentCode,
              SweepOldIdentity, SweepAccount, Deadlocked, rows
<1>9. CASE Tick \/ Register \/ Challenge
  BY <1>1, <1>9 DEF Tick, Register, Challenge, rows
<1>10. QED
  BY <1>1, <1>2, <1>3, <1>5, <1>6, <1>7, <1>8, <1>9 DEF Next, vars, rows

LEMMA PrekeysMove ==
  ASSUME TypeOK, ChecksHold, [Next]_vars
  PROVE  \A o \in PrekeyId : opks'[o].st \in {"live", "spent"} => RowMoves(opks[o], opks'[o])
<1> SUFFICES ASSUME NEW o \in PrekeyId, opks'[o].st \in {"live", "spent"}
             PROVE  RowMoves(opks[o], opks'[o])
  OBVIOUS
<1>0. opks \in [PrekeyId -> RowType] /\ work \in [Worker -> WorkType]
  BY DEF TypeOK
<1>1. CASE opks'[o] = opks[o]
  BY <1>1 DEF RowMoves
<1>2. ASSUME NEW w \in Worker, AddBatch(w) PROVE RowMoves(opks[o], opks'[o])
  <2>1. work[w].key \in Key /\ w \in PastChecks
    BY <1>0, <1>2, WorkFields DEF AddBatch, PastChecks
  <2>2. opks'[o] = opks[o] \/ (identity # Gone /\ opks'[o] = Row(w, work[w].key, 0))
    BY <1>0, <1>2 DEF AddBatch
  <2>3. QED
    BY <1>1, <2>1, <2>2, NewRow DEF RowMoves
<1>3. ASSUME NEW w \in Worker, ClaimPrekey(w) PROVE RowMoves(opks[o], opks'[o])
  <2>1. \/ UNCHANGED opks
        \/ work[w].o \in Live(opks) /\ opks' = [opks EXCEPT ![work[w].o].st = "spent"]
    BY <1>3 DEF ClaimPrekey
  <2>2. \/ opks'[o] = opks[o]
        \/ opks[o].st = "live" /\ opks'[o] = [opks[o] EXCEPT !.st = "spent"]
    BY <1>0, <2>1 DEF Live
  <2>3. QED
    BY <1>0, <1>1, <2>2 DEF RowMoves, RowType
<1>4. ASSUME NEW w \in Worker, ReplaceIdentity(w) \/ DropAccount(w)
      PROVE  RowMoves(opks[o], opks'[o])
  <2>1. \/ UNCHANGED opks
        \/ opks' = Without(opks, work[w].seen.opks)
    BY <1>4 DEF ReplaceIdentity, DropAccount
  <2>2. CASE opks' = Without(opks, work[w].seen.opks)
    <3>1. opks'[o] = [Blank EXCEPT !.st = "gone"] \/ opks'[o] = opks[o]
      BY <1>0, <2>2 DEF Without
    <3>2. [Blank EXCEPT !.st = "gone"].st = "gone"
      BY DEF Blank
    <3>3. QED
      BY <1>1, <3>1, <3>2
  <2>3. QED
    BY <1>1, <2>1, <2>2
<1>5. ASSUME NEW w \in Worker,
             \/ \E n \in NonceId, k \in Key : ReadNonce(w, n, k)
             \/ BurnNonce(w) \/ CheckSignature(w) \/ IssueToken(w)
             \/ \E t \in TokenId, job \in Jobs : Authenticate(w, t, job)
             \/ SessionLost(w) \/ ListSessions(w) \/ Logout(w) \/ LogoutAll(w)
             \/ \E t \in TokenId : OpenSocket(w, t)
             \/ RotateToken(w) \/ AdmitUpload(w) \/ AddSignedPrekey(w) \/ FetchBundle(w)
             \/ \E c \in Key : PresentCode(w, c)
             \/ SweepOldIdentity(w) \/ SweepAccount(w) \/ Deadlocked(w)
      PROVE  UNCHANGED opks
  BY <1>5 DEF ReadNonce, BurnNonce, CheckSignature, IssueToken, Authenticate, SessionLost,
              ListSessions, Logout, LogoutAll, OpenSocket, RotateToken, AdmitUpload,
              AddSignedPrekey, FetchBundle, PresentCode, SweepOldIdentity, SweepAccount,
              Deadlocked, rows
<1>6. CASE Tick \/ Register \/ Challenge
  BY <1>1, <1>6 DEF Tick, Register, Challenge, rows
<1>7. CASE UNCHANGED vars
  BY <1>1, <1>7 DEF vars, rows
<1>8. QED
  BY <1>1, <1>2, <1>3, <1>4, <1>5, <1>6, <1>7 DEF Next

(* The account's key and its codes change together, and the signed prekeys
   with them, at three places. *)
Replacing == \E w \in Worker : ReplaceIdentity(w)
Dropping == \E w \in Worker : DropAccount(w) /\ Within(Referring, work[w].seen)

LEMMA IdentityMoves ==
  ASSUME TypeOK, ChecksHold, [Next]_vars
  PROVE  \/ Register \/ Replacing \/ Dropping
         \/ /\ UNCHANGED <<identity, codes>>
            /\ \A s \in spks' : s \in spks \/ (s.key \in Key /\ (Outdated(s.key) => s.late))
<1>1. ASSUME NEW w \in Worker, AddSignedPrekey(w)
      PROVE  /\ UNCHANGED <<identity, codes>>
             /\ \A s \in spks' : s \in spks \/ (s.key \in Key /\ (Outdated(s.key) => s.late))
  <2>1. work[w].key \in Key /\ w \in PastChecks
    BY <1>1, WorkFields DEF AddSignedPrekey, TypeOK, PastChecks
  <2>2. QED
    BY <1>1, <2>1, NewRow DEF AddSignedPrekey
<1>2. ASSUME NEW w \in Worker, DropAccount(w), ~Within(Referring, work[w].seen)
      PROVE  UNCHANGED <<identity, codes, spks>>
  BY <1>2 DEF DropAccount
<1>3. ASSUME NEW w \in Worker,
             \/ \E n \in NonceId, k \in Key : ReadNonce(w, n, k)
             \/ BurnNonce(w) \/ CheckSignature(w) \/ IssueToken(w)
             \/ \E t \in TokenId, job \in Jobs : Authenticate(w, t, job)
             \/ SessionLost(w) \/ ListSessions(w) \/ Logout(w) \/ LogoutAll(w)
             \/ \E t \in TokenId : OpenSocket(w, t)
             \/ RotateToken(w) \/ AdmitUpload(w) \/ AddBatch(w) \/ FetchBundle(w)
             \/ ClaimPrekey(w)
             \/ \E c \in Key : PresentCode(w, c)
             \/ SweepOldIdentity(w) \/ SweepAccount(w) \/ Deadlocked(w)
      PROVE  UNCHANGED <<identity, codes, spks>>
  BY <1>3 DEF ReadNonce, BurnNonce, CheckSignature, IssueToken, Authenticate, SessionLost,
              ListSessions, Logout, LogoutAll, OpenSocket, RotateToken, AdmitUpload,
              AddBatch, FetchBundle, ClaimPrekey, PresentCode, SweepOldIdentity,
              SweepAccount, Deadlocked, rows
<1>4. CASE Tick \/ Challenge
  BY <1>4 DEF Tick, Challenge, rows
<1>5. CASE UNCHANGED vars
  BY <1>5 DEF vars, rows
<1>6. QED
  BY <1>1, <1>2, <1>3, <1>4, <1>5 DEF Next, Replacing, Dropping

(* Whoever empties the tables has them to itself. *)
LEMMA OneReplaces ==
  ASSUME OneEmpties, NEW v \in Worker, NEW w \in Worker,
         work[v].pc \in {"replace", "drop"}, work[w].pc \in {"replace", "drop"}
  PROVE  v = w
BY DEF OneEmpties, Emptying

LEMMA SomebodyWorks ==
  ASSUME NothingYet, NEW w \in Worker, work[w] # Free
  PROVE  submitted # 0
BY DEF NothingYet

LEMMA StepCodesMatch ==
  TypeOK /\ OneEmpties /\ NothingYet /\ SweptButLate /\ ChecksHold /\ CodesMatchIdentity
    /\ [Next]_vars => CodesMatchIdentity'
<1> SUFFICES ASSUME TypeOK, OneEmpties, NothingYet, SweptButLate, ChecksHold, CodesMatchIdentity,
                    [Next]_vars
             PROVE  CodesMatchIdentity'
  OBVIOUS
<1>1. CASE Register
  BY <1>1 DEF Register, CodesMatchIdentity, Gone
<1>2. ASSUME NEW w \in Worker, ReplaceIdentity(w) PROVE CodesMatchIdentity'
  <2>1. work[w].key \in Key /\ codes \subseteq work[w].seen.codes
    BY <1>2, WorkFields DEF ReplaceIdentity, SweptButLate, TypeOK
  <2>2. identity' = work[w].key /\ codes' = {work[w].key}
    BY <1>2, <2>1 DEF ReplaceIdentity
  <2>3. QED
    BY <2>1, <2>2 DEF CodesMatchIdentity, Key, Gone
<1>3. CASE Dropping
  BY <1>3 DEF Dropping, DropAccount, CodesMatchIdentity
<1>4. CASE UNCHANGED <<identity, codes>>
  BY <1>4 DEF CodesMatchIdentity
<1>5. QED
  BY <1>1, <1>2, <1>3, <1>4, IdentityMoves DEF Replacing

LEMMA StepOldOut ==
  TypeOK /\ NothingAhead /\ SessionsKeyed /\ NothingYet /\ SweptButLate /\ ChecksHold
    /\ OldIdentityOut /\ [Next]_vars => OldIdentityOut'
<1> SUFFICES ASSUME TypeOK, NothingAhead, SessionsKeyed, NothingYet, SweptButLate, ChecksHold,
                    OldIdentityOut,
                    [Next]_vars
             PROVE  OldIdentityOut'
  OBVIOUS
<1>1. CASE Register
  BY <1>1 DEF Register, NothingYet, OldIdentityOut, Kept
<1>2. ASSUME NEW w \in Worker, ReplaceIdentity(w) PROVE OldIdentityOut'
  <2> DEFINE seen == work[w].seen
  <2>1. /\ Unseen(tokens, seen.tokens) /\ Unseen(opks, seen.opks)
        /\ \A s \in spks \ seen.spks : s.late
    BY <1>2 DEF SweptButLate, ReplaceIdentity
  <2>2. /\ tokens' = Without(tokens, seen.tokens) /\ opks' = Without(opks, seen.opks)
        /\ spks' = spks \ seen.spks
    BY <1>2 DEF ReplaceIdentity
  <2> HIDE DEF seen
  <2>3. \A t \in Kept(tokens') : tokens'[t].late
    BY <2>1, <2>2 DEF Kept, Without, Blank, Unseen
  <2>4. \A o \in Kept(opks') : opks'[o].late
    BY <2>1, <2>2 DEF Kept, Without, Blank, Unseen
  <2>5. QED
    BY <2>1, <2>2, <2>3, <2>4 DEF OldIdentityOut
<1>3. ASSUME NEW w \in Worker, DropAccount(w), Within(Referring, work[w].seen)
      PROVE  OldIdentityOut'
  <2>1. Kept(tokens) \subseteq work[w].seen.tokens /\ Kept(opks) \subseteq work[w].seen.opks
    BY <1>3 DEF Within, Referring
  <2>2. /\ tokens' = Without(tokens, work[w].seen.tokens)
        /\ opks' = Without(opks, work[w].seen.opks) /\ spks' = {}
    BY <1>3 DEF DropAccount
  <2>3. Kept(tokens') = {}
    BY <2>1, <2>2 DEF Kept, Without, Blank
  <2>4. Kept(opks') = {}
    BY <2>1, <2>2 DEF Kept, Without, Blank
  <2>5. QED
    BY <2>2, <2>3, <2>4 DEF OldIdentityOut
<1>4. CASE /\ UNCHANGED <<identity, codes>>
           /\ \A s \in spks' : s \in spks \/ (s.key \in Key /\ (Outdated(s.key) => s.late))
  <2>1. \A t \in Kept(tokens') : tokens'[t].key = identity \/ tokens'[t].late
    <3>1. SUFFICES ASSUME NEW t \in TokenId, tokens'[t].st \in {"live", "spent"}
                   PROVE  tokens'[t].key = identity \/ tokens'[t].late
      BY StepTyped DEF Kept, TypeOK
    <3>2. RowMoves(tokens[t], tokens'[t])
      BY <3>1, SessionsMove
    <3>3. QED
      BY <3>2 DEF RowMoves, OldIdentityOut, Kept, Outdated, TypeOK
  <2>2. \A o \in Kept(opks') : opks'[o].key = identity \/ opks'[o].late
    <3>1. SUFFICES ASSUME NEW o \in PrekeyId, opks'[o].st \in {"live", "spent"}
                   PROVE  opks'[o].key = identity \/ opks'[o].late
      BY StepTyped DEF Kept, TypeOK
    <3>2. RowMoves(opks[o], opks'[o])
      BY <3>1, PrekeysMove
    <3>3. QED
      BY <3>2 DEF RowMoves, OldIdentityOut, Kept, Outdated, TypeOK
  <2>3. \A s \in spks' : s.key = identity \/ s.late
    BY <1>4 DEF OldIdentityOut, Outdated
  <2>4. QED
    BY <1>4, <2>1, <2>2, <2>3 DEF OldIdentityOut
<1>5. QED
  BY <1>1, <1>2, <1>3, <1>4, IdentityMoves DEF Replacing, Dropping

LEMMA StepSessionsKeyed ==
  TypeOK /\ NothingAhead /\ SessionsKeyed /\ ChecksHold /\ OldIdentityOut /\ [Next]_vars
    => SessionsKeyed'
<1> SUFFICES ASSUME TypeOK, NothingAhead, SessionsKeyed, ChecksHold, OldIdentityOut, [Next]_vars,
                    NEW t \in TokenId, tokens'[t].st \in {"live", "spent"}
             PROVE  tokens'[t].key \in Key
  BY StepTyped DEF SessionsKeyed, Kept, TypeOK
<1>1. RowMoves(tokens[t], tokens'[t])
  BY SessionsMove
<1>2. QED
  BY <1>1 DEF RowMoves, SessionsKeyed, Kept, TypeOK

LEMMA StepSwept ==
  TypeOK /\ NothingAhead /\ SessionsKeyed /\ NothingYet /\ OneEmpties /\ SweptButLate
    /\ ChecksHold /\ OldIdentityOut /\ [Next]_vars => SweptButLate'
<1> SUFFICES ASSUME TypeOK, NothingAhead, SessionsKeyed, NothingYet, OneEmpties, SweptButLate,
                    ChecksHold, OldIdentityOut,
                    [Next]_vars, NEW w \in Worker, work'[w].pc = "replace"
             PROVE  LET seen == work'[w].seen IN
                      /\ codes' \subseteq seen.codes
                      /\ Unseen(tokens', seen.tokens) /\ Unseen(opks', seen.opks)
                      /\ \A s \in spks' \ seen.spks : s.late
  BY DEF SweptButLate
<1>1. CASE SweepOldIdentity(w)
  <2>1. work'[w].seen = Referring /\ UNCHANGED <<codes, tokens, opks, spks>>
    BY <1>1 DEF SweepOldIdentity, Becomes, Free, TypeOK, rows
  <2>2. QED
    BY <2>1 DEF Referring, Unseen
<1>2. ASSUME SweepAccount(w) PROVE FALSE
  BY <1>2 DEF SweepAccount, Becomes, TypeOK
<1>3. CASE work'[w] = work[w]
  <2> DEFINE seen == work[w].seen
  <2>1. /\ codes \subseteq seen.codes
        /\ Unseen(tokens, seen.tokens) /\ Unseen(opks, seen.opks)
        /\ \A s \in spks \ seen.spks : s.late
    BY <1>3 DEF SweptButLate
  <2>2. work[w].pc = "replace"
    BY <1>3
  <2>3. ASSUME Register PROVE FALSE
    BY <2>2, <2>3, SomebodyWorks DEF Register, Free
  <2>4. ASSUME NEW v \in Worker, ReplaceIdentity(v) \/ DropAccount(v) PROVE FALSE
    <3>1. work[v].pc \in {"replace", "drop"} /\ Ends(v)
      BY <2>4 DEF ReplaceIdentity, DropAccount
    <3>2. v = w
      BY <2>2, <3>1, OneReplaces
    <3>3. QED
      BY <2>2, <1>3, <3>1, <3>2 DEF Ends, Becomes, Free, TypeOK
  <2>5. /\ UNCHANGED <<identity, codes>>
        /\ \A s \in spks' : s \in spks \/ (s.key \in Key /\ (Outdated(s.key) => s.late))
    BY <2>3, <2>4, IdentityMoves DEF Replacing, Dropping
  <2>6. \A k : Outdated(k)
    BY <2>2 DEF Outdated
  <2> HIDE DEF seen
  <2>7. Unseen(tokens', seen.tokens)
    <3>1. SUFFICES ASSUME NEW t \in TokenId, tokens'[t].st \in {"live", "spent"},
                          t \notin seen.tokens
                   PROVE  tokens'[t].late
      BY StepTyped DEF Unseen, Kept, TypeOK
    <3>2. RowMoves(tokens[t], tokens'[t])
      BY <3>1, SessionsMove
    <3>3. QED
      BY <2>1, <2>6, <3>1, <3>2 DEF RowMoves, Unseen, Kept, TypeOK
  <2>8. Unseen(opks', seen.opks)
    <3>1. SUFFICES ASSUME NEW o \in PrekeyId, opks'[o].st \in {"live", "spent"},
                          o \notin seen.opks
                   PROVE  opks'[o].late
      BY StepTyped DEF Unseen, Kept, TypeOK
    <3>2. RowMoves(opks[o], opks'[o])
      BY <3>1, PrekeysMove
    <3>3. QED
      BY <2>1, <2>6, <3>1, <3>2 DEF RowMoves, Unseen, Kept, TypeOK
  <2>9. QED
    BY <1>3, <2>1, <2>5, <2>6, <2>7, <2>8 DEF seen
<1>4. QED
  BY <1>1, <1>2, <1>3, EmptyingMoves

(* Whoever has only to commit compared the key in place, or a recovery has
   put it among the outrun. *)
LEMMA StepChecks ==
  TypeOK /\ NothingYet /\ OldIdentityOut /\ ChecksHold /\ [Next]_vars => ChecksHold'
<1> SUFFICES ASSUME TypeOK, NothingYet, OldIdentityOut, ChecksHold, [Next]_vars,
                    NEW v \in Worker, work'[v].pc \in {"issue", "add_spk", "add_opks"}
             PROVE  work'[v].key = identity' \/ v \in outrun' \/ identity' = Gone
  BY DEF ChecksHold, PastChecks
<1> DEFINE Held == work[v].key = identity \/ v \in outrun \/ identity = Gone
<1>0. work \in [Worker -> WorkType]
  BY DEF TypeOK
<1>1. work'[v] = work[v] => v \in PastChecks /\ Held
  BY DEF ChecksHold, PastChecks
<1> HIDE DEF Held
<1>2. ASSUME NEW w \in Worker, CheckSignature(w)
      PROVE  work'[v].key = identity' \/ v \in outrun' \/ identity' = Gone
  <2>1. UNCHANGED <<identity, outrun>>
    BY <1>2 DEF CheckSignature, rows, history
  <2>2. CASE v = w
    <3>1. identity = work[w].key /\ work'[v] = [work[w] EXCEPT !.pc = "issue"]
      BY <1>0, <1>2, <2>2 DEF CheckSignature, Becomes, Free
    <3>2. [work[w] EXCEPT !.pc = "issue"].key = work[w].key
      BY <1>0, <1>2 DEF CheckSignature, WorkType, Free, Jobs
    <3>3. QED
      BY <2>1, <3>1, <3>2
  <2>3. CASE v # w
    BY <1>0, <1>1, <1>2, <2>1, <2>3 DEF CheckSignature, Becomes, Held
  <2>4. QED
    BY <2>2, <2>3
<1>3. ASSUME NEW w \in Worker, AdmitUpload(w)
      PROVE  work'[v].key = identity' \/ v \in outrun' \/ identity' = Gone
  <2>1. UNCHANGED identity /\ outrun \subseteq outrun'
    BY <1>3 DEF AdmitUpload, rows
  <2>2. CASE v = w
    <3>1. /\ work'[v].key = tokens[work[w].t].key
          /\ tokens[work[w].t].late => w \in outrun'
      BY <1>0, <1>3, <2>2 DEF AdmitUpload, Becomes, Free
    <3>2. work[w].t \in Kept(tokens)
      BY <1>3 DEF AdmitUpload, HasSession
    <3>3. QED
      BY <2>1, <2>2, <3>1, <3>2 DEF OldIdentityOut
  <2>3. CASE v # w
    BY <1>0, <1>1, <1>3, <2>1, <2>3 DEF AdmitUpload, Becomes, Held
  <2>4. QED
    BY <2>2, <2>3
<1>4. ASSUME NEW w \in Worker, IssueToken(w) \/ AddSignedPrekey(w) \/ AddBatch(w)
      PROVE  work'[v].key = identity' \/ v \in outrun' \/ identity' = Gone
  <2>1. Ends(w) /\ outrun' = outrun \ {w} /\ UNCHANGED identity
    BY <1>4 DEF IssueToken, AddSignedPrekey, AddBatch
  <2>2. v # w /\ work'[v] = work[v]
    BY <1>0, <2>1 DEF Ends, Becomes, Free
  <2>3. QED
    BY <1>1, <2>1, <2>2 DEF Held
<1>5. ASSUME NEW w \in Worker, ReplaceIdentity(w)
      PROVE  v \in outrun'
  <2>1. Ends(w) /\ outrun' = outrun \cup PastChecks
    BY <1>5 DEF ReplaceIdentity
  <2>2. work'[v] = work[v]
    BY <1>0, <2>1 DEF Ends, Becomes, Free
  <2>3. QED
    BY <1>1, <2>1, <2>2
<1>6. ASSUME NEW w \in Worker, DropAccount(w)
      PROVE  work'[v].key = identity' \/ v \in outrun' \/ identity' = Gone
  <2>1. Ends(w) /\ (identity' = Gone \/ UNCHANGED identity) /\ UNCHANGED outrun
    BY <1>6 DEF DropAccount, history
  <2>2. work'[v] = work[v]
    BY <1>0, <2>1 DEF Ends, Becomes, Free
  <2>3. QED
    BY <1>1, <2>1, <2>2 DEF Held
<1>7. ASSUME NEW w \in Worker,
             \/ \E n \in NonceId, k \in Key : ReadNonce(w, n, k)
             \/ BurnNonce(w)
             \/ \E t \in TokenId, job \in Jobs : Authenticate(w, t, job)
             \/ SessionLost(w) \/ ListSessions(w) \/ Logout(w) \/ LogoutAll(w)
             \/ \E t \in TokenId : OpenSocket(w, t)
             \/ RotateToken(w) \/ FetchBundle(w) \/ ClaimPrekey(w)
             \/ \E c \in Key : PresentCode(w, c)
             \/ SweepOldIdentity(w) \/ SweepAccount(w) \/ Deadlocked(w)
      PROVE  UNCHANGED <<identity, outrun, work>> \/ (UNCHANGED <<identity, outrun>> /\ work'[v] = work[v])
  <2>1. UNCHANGED <<identity, outrun>>
    BY <1>7 DEF ReadNonce, BurnNonce, Authenticate, SessionLost, ListSessions, Logout,
                LogoutAll, OpenSocket, RotateToken, FetchBundle, ClaimPrekey, PresentCode,
                SweepOldIdentity, SweepAccount, Deadlocked, rows, history
  <2>2. CASE BurnNonce(w)
    <3> DEFINE user == [work[w] EXCEPT !.pc = "user"]
    <3>1. user.pc = "user"
      BY <1>0, <2>2, WorkFields DEF BurnNonce
    <3>2. Becomes(w, Free) \/ Becomes(w, user)
      BY <2>2 DEF BurnNonce, Ends
    <3> HIDE DEF user
    <3>3. v # w => work'[v] = work[v]
      BY <1>0, <3>2 DEF Becomes
    <3>4. v = w => work'[v].pc \in {"free", "user"}
      BY <1>0, <3>1, <3>2 DEF Becomes, Free
    <3>5. QED
      BY <2>1, <3>3, <3>4
  <2>3. CASE \/ \E n \in NonceId, k \in Key : ReadNonce(w, n, k)
             \/ \E t \in TokenId, job \in Jobs : Authenticate(w, t, job)
             \/ SessionLost(w) \/ ListSessions(w) \/ Logout(w) \/ LogoutAll(w)
             \/ \E t \in TokenId : OpenSocket(w, t)
             \/ RotateToken(w)
    BY <1>0, <2>1, <2>3 DEF ReadNonce, Authenticate, SessionLost, ListSessions, Logout,
         LogoutAll, OpenSocket, RotateToken, Ends, Becomes, Free, Jobs
  <2>4. CASE \/ FetchBundle(w) \/ ClaimPrekey(w)
             \/ \E c \in Key : PresentCode(w, c)
             \/ SweepOldIdentity(w) \/ SweepAccount(w) \/ Deadlocked(w)
    BY <1>0, <2>1, <2>4 DEF FetchBundle, ClaimPrekey, PresentCode, SweepOldIdentity,
         SweepAccount, Deadlocked, Ends, Becomes, Free
  <2>5. QED
    BY <1>7, <2>2, <2>3, <2>4
<1>8. ASSUME Register PROVE FALSE
  <2>1. work[v] = Free /\ UNCHANGED work
    BY <1>8 DEF Register, NothingYet
  <2>2. QED
    BY <2>1 DEF Free
<1>9. CASE Tick \/ Challenge \/ UNCHANGED vars
  BY <1>1, <1>9 DEF Tick, Challenge, vars, rows, history, Held
<1>10. QED
  BY <1>1, <1>2, <1>3, <1>4, <1>5, <1>6, <1>7, <1>8, <1>9 DEF Next, Held

(* Before there is an account, only time, the limiter and registration move. *)
LEMMA StepNothingYet == TypeOK /\ NothingYet /\ [Next]_vars => NothingYet'
<1> SUFFICES ASSUME TypeOK, NothingYet, [Next]_vars, submitted' = 0 PROVE NothingYet'
  BY DEF NothingYet
<1>1. submitted = 0
  <2>1. ASSUME NEW w \in Worker, NEW c \in Key, PresentCode(w, c) PROVE FALSE
    BY <2>1 DEF PresentCode, TypeOK
  <2>2. ASSUME NEW w \in Worker,
               \/ \E n \in NonceId, k \in Key : ReadNonce(w, n, k)
               \/ BurnNonce(w) \/ CheckSignature(w) \/ IssueToken(w)
               \/ \E t \in TokenId, job \in Jobs : Authenticate(w, t, job)
               \/ SessionLost(w) \/ ListSessions(w) \/ Logout(w) \/ LogoutAll(w)
               \/ \E t \in TokenId : OpenSocket(w, t)
               \/ RotateToken(w) \/ AdmitUpload(w) \/ AddSignedPrekey(w) \/ AddBatch(w)
               \/ FetchBundle(w) \/ ClaimPrekey(w)
               \/ SweepOldIdentity(w) \/ ReplaceIdentity(w) \/ SweepAccount(w)
               \/ DropAccount(w) \/ Deadlocked(w)
        PROVE  UNCHANGED submitted
    BY <2>2 DEF ReadNonce, BurnNonce, CheckSignature, IssueToken, Authenticate, SessionLost,
                ListSessions, Logout, LogoutAll, OpenSocket, RotateToken, AdmitUpload,
                AddSignedPrekey, AddBatch, FetchBundle, ClaimPrekey, SweepOldIdentity,
                ReplaceIdentity, SweepAccount, DropAccount, Deadlocked, history
  <2>3. CASE Tick \/ Register \/ Challenge
    BY <2>3 DEF Tick, Register, Challenge, history
  <2>4. QED
    BY <2>1, <2>2, <2>3 DEF Next, vars, history
<1>2. /\ identity = Gone /\ codes = {} /\ spks = {} /\ Kept(tokens) = {} /\ Kept(opks) = {}
      /\ \A w \in Worker : work[w] = Free
  BY <1>1 DEF NothingYet
<1>3. Live(tokens) = {} /\ Live(opks) = {}
  BY <1>2 DEF Live, Kept
<1>4. ~Register
  BY DEF Register
<1>5. ASSUME NEW w \in Worker PROVE
        /\ \A n \in NonceId, k \in Key : ~ReadNonce(w, n, k)
        /\ ~BurnNonce(w) /\ ~CheckSignature(w) /\ ~IssueToken(w)
        /\ \A t \in TokenId, job \in Jobs : ~Authenticate(w, t, job)
        /\ ~SessionLost(w) /\ ~ListSessions(w) /\ ~Logout(w) /\ ~LogoutAll(w)
        /\ \A t \in TokenId : ~OpenSocket(w, t)
        /\ ~RotateToken(w) /\ ~AdmitUpload(w) /\ ~AddSignedPrekey(w) /\ ~AddBatch(w)
        /\ ~FetchBundle(w) /\ ~ClaimPrekey(w)
        /\ \A c \in Key : ~PresentCode(w, c)
        /\ ~SweepOldIdentity(w) /\ ~ReplaceIdentity(w) /\ ~SweepAccount(w) /\ ~DropAccount(w)
        /\ ~Deadlocked(w)
  <2>1. work[w].pc = "free" /\ \A v \in Worker : work[v].pc = "free"
    BY <1>2 DEF Free
  <2>2. QED
    BY <1>1, <1>2, <1>3, <2>1
       DEF ReadNonce, BurnNonce, CheckSignature, IssueToken, Authenticate, SessionLost,
           ListSessions, Logout, LogoutAll, OpenSocket, RotateToken, AdmitUpload,
           AddSignedPrekey, AddBatch, FetchBundle, ClaimPrekey, PresentCode,
           SweepOldIdentity, ReplaceIdentity, SweepAccount, DropAccount, Deadlocked, Key, Jobs
<1>6. UNCHANGED <<identity, codes, spks, tokens, opks, work, submitted>>
  BY <1>4, <1>5 DEF Next, vars, rows, history, Tick, Challenge
<1>7. QED
  BY <1>2, <1>6 DEF NothingYet

(* The nonce table and the clock. *)
LEMMA NoncesMove ==
  ASSUME TypeOK, [Next]_vars
  PROVE  \/ Tick \/ Challenge
         \/ (\E w \in Worker : BurnNonce(w)) \/ Dropping
         \/ UNCHANGED <<clock, nonces, bucket>>
<1>1. ASSUME NEW w \in Worker,
             \/ \E n \in NonceId, k \in Key : ReadNonce(w, n, k)
             \/ CheckSignature(w) \/ IssueToken(w)
             \/ \E t \in TokenId, job \in Jobs : Authenticate(w, t, job)
             \/ SessionLost(w) \/ ListSessions(w) \/ Logout(w) \/ LogoutAll(w)
             \/ \E t \in TokenId : OpenSocket(w, t)
             \/ RotateToken(w) \/ AdmitUpload(w) \/ AddSignedPrekey(w) \/ AddBatch(w)
             \/ FetchBundle(w) \/ ClaimPrekey(w)
             \/ \E c \in Key : PresentCode(w, c)
             \/ SweepOldIdentity(w) \/ ReplaceIdentity(w) \/ SweepAccount(w) \/ Deadlocked(w)
      PROVE  UNCHANGED <<clock, nonces, bucket>>
  BY <1>1 DEF ReadNonce, CheckSignature, IssueToken, Authenticate, SessionLost,
              ListSessions, Logout, LogoutAll, OpenSocket, RotateToken, AdmitUpload,
              AddSignedPrekey, AddBatch, FetchBundle, ClaimPrekey, PresentCode,
              SweepOldIdentity, ReplaceIdentity, SweepAccount, Deadlocked, rows
<1>2. ASSUME NEW w \in Worker, DropAccount(w), ~Within(Referring, work[w].seen)
      PROVE  UNCHANGED <<clock, nonces, bucket>>
  BY <1>2 DEF DropAccount
<1>3. CASE UNCHANGED vars \/ Register
  BY <1>3 DEF vars, rows, Register
<1>4. QED
  BY <1>1, <1>2, <1>3 DEF Next, Dropping

(* A nonce keeps its date; it is issued live and now. *)
LEMMA NonceMoves ==
  ASSUME TypeOK, DropSeesIssued, [Next]_vars, NEW n \in NonceId
  PROVE  \/ nonces'[n] = nonces[n]
         \/ nonces[n].st = "none" /\ nonces'[n] = [st |-> "live", at |-> clock] /\ Challenge
         \/ /\ nonces[n].st # "none" /\ nonces'[n].at = nonces[n].at
            /\ nonces'[n].st \in {"spent", "gone"}
<1>0. nonces \in [NonceId -> NonceType]
  BY DEF TypeOK
<1>1. CASE Challenge
  BY <1>0, <1>1 DEF Challenge, Unused
<1>2. ASSUME NEW w \in Worker, BurnNonce(w)
      PROVE  \/ nonces'[n] = nonces[n]
             \/ /\ nonces[n].st # "none" /\ nonces'[n].at = nonces[n].at
                /\ nonces'[n].st \in {"spent", "gone"}
  <2>1. \/ UNCHANGED nonces
        \/ work[w].n \in Kept(nonces) /\ nonces' = [nonces EXCEPT ![work[w].n].st = "spent"]
    BY <1>2 DEF BurnNonce
  <2>2. QED
    BY <1>0, <2>1 DEF Kept, NonceType
<1>3. ASSUME NEW w \in Worker, DropAccount(w), Within(Referring, work[w].seen)
      PROVE  \/ nonces'[n] = nonces[n]
             \/ /\ nonces[n].st # "none" /\ nonces'[n].at = nonces[n].at
                /\ nonces'[n].st \in {"spent", "gone"}
  <2>1. \/ nonces'[n] = nonces[n]
        \/ n \in work[w].nonces /\ nonces'[n] = [nonces[n] EXCEPT !.st = "gone"]
    BY <1>3 DEF DropAccount
  <2>2. n \in work[w].nonces => nonces[n].st # "none"
    BY <1>3 DEF DropAccount, DropSeesIssued
  <2>3. QED
    BY <1>0, <2>1, <2>2 DEF NonceType
<1>4. CASE UNCHANGED nonces
  BY <1>4
<1>5. QED
  BY <1>1, <1>2, <1>3, <1>4, NoncesMove DEF Dropping, Tick, rows

LEMMA StepDropSees ==
  TypeOK /\ NothingAhead /\ SessionsKeyed /\ DropSeesIssued /\ [Next]_vars => DropSeesIssued'
<1> SUFFICES ASSUME TypeOK, NothingAhead, SessionsKeyed, DropSeesIssued, [Next]_vars,
                    NEW w \in Worker, work'[w].pc = "drop", NEW n \in work'[w].nonces
             PROVE  nonces'[n].st # "none"
  BY DEF DropSeesIssued
<1>1. n \in NonceId
  <2>1. work'[w] \in WorkType
    BY StepTyped DEF TypeOK
  <2>2. QED
    BY <2>1, WorkFields
<1>2. CASE work'[w] = work[w]
  <2>1. nonces[n].st # "none"
    BY <1>2 DEF DropSeesIssued
  <2>2. QED
    BY <1>1, <2>1, NonceMoves
<1>3. CASE SweepAccount(w)
  <2>1. work'[w].nonces = Kept(nonces) /\ UNCHANGED nonces
    BY <1>3 DEF SweepAccount, Becomes, TypeOK, rows
  <2>2. QED
    BY <2>1 DEF Kept
<1>4. ASSUME SweepOldIdentity(w) PROVE FALSE
  BY <1>4 DEF SweepOldIdentity, Becomes, Free, TypeOK
<1>5. QED
  BY <1>2, <1>3, <1>4, EmptyingMoves

LEMMA StepNothingAhead ==
  TypeOK /\ NothingAhead /\ SessionsKeyed /\ DropSeesIssued /\ [Next]_vars => NothingAhead'
<1> SUFFICES ASSUME TypeOK, NothingAhead, SessionsKeyed, DropSeesIssued, [Next]_vars
             PROVE  NothingAhead'
  OBVIOUS
<1>0. clock \in Nat /\ bucket.at \in Nat /\ \A n \in NonceId : nonces[n].at \in Nat
  BY DEF TypeOK, NonceType
<1>1. bucket'.at <= clock' /\ clock <= clock'
  <2>1. CASE Tick
    BY <1>0, <2>1 DEF Tick, NothingAhead
  <2>2. CASE Challenge
    BY <1>0, <2>2 DEF Challenge, Charged
  <2>3. CASE (\E w \in Worker : BurnNonce(w)) \/ Dropping
    <3>1. UNCHANGED <<clock, bucket>>
      BY <2>3 DEF BurnNonce, Dropping, DropAccount
    <3>2. QED
      BY <1>0, <3>1 DEF NothingAhead
  <2>4. CASE UNCHANGED <<clock, nonces, bucket>>
    BY <1>0, <2>4 DEF NothingAhead
  <2>5. QED
    BY <2>1, <2>2, <2>3, <2>4, NoncesMove
<1>2. ASSUME NEW n \in NonceId PROVE nonces'[n].at <= clock'
  <2>1. nonces'[n].at = nonces[n].at \/ nonces'[n].at = clock
    BY NonceMoves
  <2>2. nonces[n].at <= clock /\ clock' \in Nat
    BY StepTyped DEF NothingAhead, TypeOK
  <2>3. QED
    BY <1>0, <1>1, <2>1, <2>2
<1>3. QED
  BY <1>1, <1>2 DEF NothingAhead

-----------------------------------------------------------------------------
(* One bundle per prekey. *)

LEMMA HandedMoves ==
  ASSUME TypeOK, [Next]_vars, NEW o \in PrekeyId
  PROVE  \/ opks'[o] = opks[o] /\ handed'[o] = handed[o]
         \/ opks[o].st = "none" /\ opks'[o].st = "live" /\ handed'[o] = handed[o]
         \/ opks[o].st = "live" /\ opks'[o].st = "spent" /\ handed'[o] = handed[o] + 1
         \/ opks'[o].st = "gone" /\ handed'[o] = handed[o]
<1>0. /\ opks \in [PrekeyId -> RowType] /\ handed \in [PrekeyId -> Nat]
      /\ work \in [Worker -> WorkType]
  BY DEF TypeOK
<1>1. ASSUME NEW w \in Worker, AddBatch(w)
      PROVE  /\ handed'[o] = handed[o]
             /\ opks'[o] = opks[o] \/ (opks[o].st = "none" /\ opks'[o].st = "live")
  <2>1. opks'[o] = opks[o] \/ (o \in Unused(opks) /\ opks'[o] = Row(w, work[w].key, 0))
    BY <1>0, <1>1 DEF AddBatch
  <2>2. QED
    BY <1>1, <2>1 DEF AddBatch, Unused, Row
<1>2. ASSUME NEW w \in Worker, ClaimPrekey(w)
      PROVE  \/ opks'[o] = opks[o] /\ handed'[o] = handed[o]
             \/ opks[o].st = "live" /\ opks'[o].st = "spent" /\ handed'[o] = handed[o] + 1
  <2>1. \/ UNCHANGED <<opks, handed>>
        \/ /\ work[w].o \in Live(opks) /\ opks' = [opks EXCEPT ![work[w].o].st = "spent"]
           /\ handed' = [handed EXCEPT ![work[w].o] = @ + 1]
    BY <1>2 DEF ClaimPrekey
  <2>2. QED
    BY <1>0, <2>1 DEF Live, RowType
<1>3. ASSUME NEW w \in Worker, ReplaceIdentity(w) \/ DropAccount(w)
      PROVE  handed'[o] = handed[o] /\ (opks'[o] = opks[o] \/ opks'[o].st = "gone")
  <2>1. \/ UNCHANGED opks
        \/ opks' = Without(opks, work[w].seen.opks)
    BY <1>3 DEF ReplaceIdentity, DropAccount
  <2>2. UNCHANGED handed
    BY <1>3 DEF ReplaceIdentity, DropAccount, history
  <2>3. opks'[o] = opks[o] \/ opks'[o] = [Blank EXCEPT !.st = "gone"]
    BY <1>0, <2>1 DEF Without
  <2>4. [Blank EXCEPT !.st = "gone"].st = "gone"
    BY DEF Blank
  <2>5. QED
    BY <2>2, <2>3, <2>4
<1>4. ASSUME NEW w \in Worker,
             \/ \E n \in NonceId, k \in Key : ReadNonce(w, n, k)
             \/ BurnNonce(w) \/ CheckSignature(w) \/ IssueToken(w)
             \/ \E t \in TokenId, job \in Jobs : Authenticate(w, t, job)
             \/ SessionLost(w) \/ ListSessions(w) \/ Logout(w) \/ LogoutAll(w)
             \/ \E t \in TokenId : OpenSocket(w, t)
      PROVE  UNCHANGED <<opks, handed>>
  BY <1>4 DEF ReadNonce, BurnNonce, CheckSignature, IssueToken, Authenticate, SessionLost,
              ListSessions, Logout, LogoutAll, OpenSocket, rows, history
<1>5. ASSUME NEW w \in Worker,
             \/ RotateToken(w) \/ AdmitUpload(w) \/ AddSignedPrekey(w) \/ FetchBundle(w)
             \/ \E c \in Key : PresentCode(w, c)
             \/ SweepOldIdentity(w) \/ SweepAccount(w) \/ Deadlocked(w)
      PROVE  UNCHANGED <<opks, handed>>
  BY <1>5 DEF RotateToken, AdmitUpload, AddSignedPrekey, FetchBundle, PresentCode,
              SweepOldIdentity, SweepAccount, Deadlocked, rows, history
<1>6. CASE Tick \/ Register \/ Challenge \/ UNCHANGED vars
  BY <1>6 DEF Tick, Register, Challenge, vars, rows, history
<1>7. QED
  BY <1>1, <1>2, <1>3, <1>4, <1>5, <1>6 DEF Next

LEMMA StepHanded ==
  TypeOK /\ HandedWhenSpent /\ PrekeyHandedOnce /\ [Next]_vars
    => HandedWhenSpent' /\ PrekeyHandedOnce'
<1> SUFFICES ASSUME TypeOK, HandedWhenSpent, PrekeyHandedOnce, [Next]_vars, NEW o \in PrekeyId
             PROVE  /\ opks'[o].st \in {"none", "live"} => handed'[o] = 0
                    /\ handed'[o] <= 1
  BY DEF HandedWhenSpent, PrekeyHandedOnce
<1>1. /\ opks[o].st \in {"none", "live"} => handed[o] = 0
      /\ handed[o] <= 1
  BY DEF HandedWhenSpent, PrekeyHandedOnce
<1>2. QED
  BY <1>1, HandedMoves

-----------------------------------------------------------------------------
(* One round per nonce. *)

(* Who is on the way to a session has just read a nonce that was not
   consumed, or was on the way with the same nonce. *)
LEMMA LoginMoves ==
  ASSUME TypeOK, [Next]_vars, NEW v \in Worker, work'[v].pc \in {"burn", "user", "issue"}
  PROVE  \/ work'[v] = work[v]
         \/ \E n \in NonceId, k \in Key :
              /\ ReadNonce(v, n, k) /\ work'[v].pc = "burn" /\ work'[v].n = n
         \/ /\ BurnNonce(v) \/ CheckSignature(v)
            /\ work'[v].pc \in {"user", "issue"} /\ work'[v].n = work[v].n
            /\ work[v].pc \in {"burn", "user"}
<1> USE DEF Becomes, Ends, Free, TypeOK
<1>1. CASE UNCHANGED work
  BY <1>1
<1>2. ASSUME NEW w \in Worker, NEW n \in NonceId, NEW k \in Key, ReadNonce(w, n, k)
      PROVE  \/ work'[v] = work[v]
             \/ ReadNonce(v, n, k) /\ work'[v].pc = "burn" /\ work'[v].n = n
  <2>1. PICK ok : Becomes(w, [pc |-> "burn", n |-> n, key |-> k, at |-> clock, ok |-> ok])
    BY <1>2 DEF ReadNonce
  <2>2. v # w => work'[v] = work[v]
    BY <2>1
  <2>3. v = w => work'[v].pc = "burn" /\ work'[v].n = n
    BY <2>1
  <2> HIDE DEF Becomes, Ends, Free, TypeOK
  <2>4. QED
    BY <1>2, <2>2, <2>3
<1>3. ASSUME NEW w \in Worker, BurnNonce(w) \/ CheckSignature(w)
      PROVE  \/ work'[v] = work[v]
             \/ /\ BurnNonce(v) \/ CheckSignature(v)
                /\ work'[v].pc \in {"user", "issue"} /\ work'[v].n = work[v].n
                /\ work[v].pc \in {"burn", "user"}
  <2> DEFINE user == [work[w] EXCEPT !.pc = "user"]
             issue == [work[w] EXCEPT !.pc = "issue"]
  <2>1. work[w].pc \in {"burn", "user"} /\ work[w] \in WorkType
    BY <1>3 DEF BurnNonce, CheckSignature
  <2>2. /\ user.pc = "user" /\ issue.pc = "issue"
        /\ user.n = work[w].n /\ issue.n = work[w].n
    BY <2>1, WorkFields
  <2>3. UNCHANGED work \/ Becomes(w, Free) \/ Becomes(w, user) \/ Becomes(w, issue)
    BY <1>3 DEF BurnNonce, CheckSignature
  <2> HIDE DEF user, issue
  <2>4. CASE v = w
    <3>1. UNCHANGED work \/ work'[v] = user \/ work'[v] = issue
      BY <2>3, <2>4
    <3>2. QED
      BY <1>3, <2>1, <2>2, <2>4, <3>1
  <2>5. CASE v # w
    BY <2>3, <2>5
  <2>6. QED
    BY <2>4, <2>5
<1>4. ASSUME NEW w \in Worker,
             \/ IssueToken(w)
             \/ \E t \in TokenId, job \in Jobs : Authenticate(w, t, job)
             \/ SessionLost(w) \/ ListSessions(w) \/ Logout(w) \/ LogoutAll(w)
             \/ \E t \in TokenId : OpenSocket(w, t)
             \/ RotateToken(w)
      PROVE  work'[v] = work[v]
  <2>1. CASE \E t \in TokenId, job \in Jobs : Authenticate(w, t, job)
    BY <2>1 DEF Authenticate, Jobs
  <2>2. CASE SessionLost(w) \/ ListSessions(w) \/ Logout(w) \/ LogoutAll(w)
    BY <2>2 DEF SessionLost, ListSessions, Logout, LogoutAll
  <2>3. CASE (\E t \in TokenId : OpenSocket(w, t)) \/ RotateToken(w) \/ IssueToken(w)
    BY <2>3 DEF OpenSocket, RotateToken, IssueToken
  <2> QED BY <1>4, <2>1, <2>2, <2>3
<1>5. ASSUME NEW w \in Worker,
             \/ AdmitUpload(w) \/ AddSignedPrekey(w) \/ AddBatch(w)
             \/ FetchBundle(w) \/ ClaimPrekey(w)
      PROVE  work'[v] = work[v]
  BY <1>5 DEF AdmitUpload, AddSignedPrekey, AddBatch, FetchBundle, ClaimPrekey
<1>6. ASSUME NEW w \in Worker,
             \/ \E c \in Key : PresentCode(w, c)
             \/ SweepOldIdentity(w) \/ ReplaceIdentity(w)
             \/ SweepAccount(w) \/ DropAccount(w) \/ Deadlocked(w)
      PROVE  work'[v] = work[v]
  BY <1>6 DEF PresentCode, SweepOldIdentity, ReplaceIdentity, SweepAccount, DropAccount,
              Deadlocked
<1>7. CASE Tick \/ Register \/ Challenge
  BY <1>7 DEF Tick, Register, Challenge
<1> HIDE DEF Becomes, Ends, Free, TypeOK
<1>8. QED
  BY <1>1, <1>2, <1>3, <1>4, <1>5, <1>6, <1>7 DEF Next, vars

LEMMA RedeemedMoves ==
  ASSUME TypeOK, [Next]_vars
  PROVE  (\E w \in Worker : IssueToken(w)) \/ UNCHANGED redeemed
<1>1. ASSUME NEW w \in Worker,
             \/ \E n \in NonceId, k \in Key : ReadNonce(w, n, k)
             \/ BurnNonce(w) \/ CheckSignature(w)
             \/ \E t \in TokenId, job \in Jobs : Authenticate(w, t, job)
             \/ SessionLost(w) \/ ListSessions(w) \/ Logout(w) \/ LogoutAll(w)
             \/ \E t \in TokenId : OpenSocket(w, t)
             \/ RotateToken(w)
      PROVE  UNCHANGED redeemed
  BY <1>1 DEF ReadNonce, BurnNonce, CheckSignature, Authenticate, SessionLost,
              ListSessions, Logout, LogoutAll, OpenSocket, RotateToken, history
<1>2. ASSUME NEW w \in Worker,
             \/ AdmitUpload(w) \/ AddSignedPrekey(w) \/ AddBatch(w)
             \/ FetchBundle(w) \/ ClaimPrekey(w)
             \/ \E c \in Key : PresentCode(w, c)
             \/ SweepOldIdentity(w) \/ ReplaceIdentity(w)
             \/ SweepAccount(w) \/ DropAccount(w) \/ Deadlocked(w)
      PROVE  UNCHANGED redeemed
  BY <1>2 DEF AdmitUpload, AddSignedPrekey, AddBatch, FetchBundle, ClaimPrekey, PresentCode,
              SweepOldIdentity, ReplaceIdentity, SweepAccount, DropAccount, Deadlocked, history
<1>3. CASE Tick \/ Register \/ Challenge \/ UNCHANGED vars
  BY <1>3 DEF Tick, Register, Challenge, vars, history
<1>4. QED
  BY <1>1, <1>2, <1>3 DEF Next

(* The requests that had read a nonce are counted when it is consumed. *)
LEMMA RivalsMove ==
  ASSUME TypeOK, [Next]_vars, NEW n \in NonceId
  PROVE  \/ rivals'[n] = rivals[n]
         \/ /\ \E w \in Worker : BurnNonce(w) /\ work[w].n = n
            /\ nonces[n].st = "live" /\ rivals'[n] = Cardinality(SawFresh(n))
<1>1. ASSUME NEW w \in Worker, BurnNonce(w)
      PROVE  \/ rivals'[n] = rivals[n]
             \/ /\ work[w].n = n /\ nonces[n].st = "live"
                /\ rivals'[n] = Cardinality(SawFresh(n))
  <2>1. \/ UNCHANGED rivals
        \/ /\ work[w].n \in Live(nonces)
           /\ rivals' = [rivals EXCEPT ![work[w].n] = Cardinality(SawFresh(work[w].n))]
    BY <1>1 DEF BurnNonce
  <2>2. QED
    BY <2>1 DEF Live, TypeOK
<1>2. ASSUME NEW w \in Worker,
             \/ \E k \in Key, m \in NonceId : ReadNonce(w, m, k)
             \/ CheckSignature(w) \/ IssueToken(w)
             \/ \E t \in TokenId, job \in Jobs : Authenticate(w, t, job)
             \/ SessionLost(w) \/ ListSessions(w) \/ Logout(w) \/ LogoutAll(w)
             \/ \E t \in TokenId : OpenSocket(w, t)
             \/ RotateToken(w)
      PROVE  UNCHANGED rivals
  BY <1>2 DEF ReadNonce, CheckSignature, IssueToken, Authenticate, SessionLost,
              ListSessions, Logout, LogoutAll, OpenSocket, RotateToken, history
<1>3. ASSUME NEW w \in Worker,
             \/ AdmitUpload(w) \/ AddSignedPrekey(w) \/ AddBatch(w)
             \/ FetchBundle(w) \/ ClaimPrekey(w)
             \/ \E c \in Key : PresentCode(w, c)
             \/ SweepOldIdentity(w) \/ ReplaceIdentity(w)
             \/ SweepAccount(w) \/ DropAccount(w) \/ Deadlocked(w)
      PROVE  UNCHANGED rivals
  BY <1>3 DEF AdmitUpload, AddSignedPrekey, AddBatch, FetchBundle, ClaimPrekey, PresentCode,
              SweepOldIdentity, ReplaceIdentity, SweepAccount, DropAccount, Deadlocked, history
<1>4. CASE Tick \/ Register \/ Challenge \/ UNCHANGED vars
  BY <1>4 DEF Tick, Register, Challenge, vars, history
<1>5. QED
  BY <1>1, <1>2, <1>3, <1>4 DEF Next

(* Once a nonce is consumed nobody reads it afresh: those who had read it
   only become fewer, and each session issued is one of them. *)
LEMMA ConsumedDwindles ==
  ASSUME TypeOK, DropSeesIssued, [Next]_vars, NEW n \in NonceId,
         nonces[n].st \in {"spent", "gone"}
  PROVE  /\ SawFresh(n)' \subseteq SawFresh(n)
         /\ redeemed'[n] + Cardinality(SawFresh(n)') <= redeemed[n] + Cardinality(SawFresh(n))
<1>0. work \in [Worker -> WorkType] /\ redeemed \in [NonceId -> Nat]
  BY DEF TypeOK
<1>1. SawFresh(n)' \subseteq SawFresh(n)
  <2>1. ASSUME NEW v \in Worker, work'[v].pc \in {"burn", "user", "issue"}, work'[v].n = n
        PROVE  work[v].pc \in {"burn", "user", "issue"} /\ work[v].n = n
    <3>1. ASSUME NEW k \in Key, ReadNonce(v, n, k) PROVE FALSE
      BY <3>1 DEF ReadNonce, Live
    <3>2. QED
      BY <2>1, <3>1, LoginMoves
  <2>2. QED
    BY <2>1 DEF SawFresh
<1>2. /\ IsFiniteSet(SawFresh(n)) /\ Cardinality(SawFresh(n)) \in Nat
      /\ Cardinality(SawFresh(n)') \in Nat
      /\ Cardinality(SawFresh(n)') <= Cardinality(SawFresh(n))
  BY <1>1, SawFreshFinite, FS_Subset, FS_CardinalityType
<1>3. ASSUME NEW w \in Worker, IssueToken(w), work[w].n = n
      PROVE  redeemed'[n] + Cardinality(SawFresh(n)') <= redeemed[n] + Cardinality(SawFresh(n))
  <2>1. w \in SawFresh(n) /\ SawFresh(n)' \subseteq SawFresh(n) \ {w}
    BY <1>0, <1>1, <1>3 DEF IssueToken, Ends, Becomes, Free, SawFresh
  <2>2. Cardinality(SawFresh(n) \ {w}) = Cardinality(SawFresh(n)) - 1
    BY <1>2, <2>1, FS_RemoveElement
  <2>3. Cardinality(SawFresh(n)') <= Cardinality(SawFresh(n)) - 1
    <3>1. IsFiniteSet(SawFresh(n) \ {w})
      BY <1>2, FS_RemoveElement
    <3>2. QED
      BY <2>1, <2>2, <3>1, FS_Subset
  <2>4. redeemed'[n] \in {redeemed[n], redeemed[n] + 1}
    BY <1>0, <1>3 DEF IssueToken
  <2>5. redeemed[n] \in Nat
    BY <1>0
  <2>6. QED
    BY <1>2, <2>3, <2>4, <2>5
<1>4. CASE \A w \in Worker : IssueToken(w) => work[w].n # n
  <2>1. redeemed'[n] = redeemed[n] /\ redeemed[n] \in Nat
    BY <1>0, <1>4, RedeemedMoves DEF IssueToken
  <2> DEFINE before == Cardinality(SawFresh(n))
             after == Cardinality(SawFresh(n)')
  <2>2. before \in Nat /\ after \in Nat /\ after <= before
    BY <1>2
  <2> HIDE DEF before, after
  <2>3. redeemed'[n] + after <= redeemed[n] + before
    BY <2>1, <2>2
  <2>4. QED
    BY <1>1, <2>3 DEF before, after
<1>5. QED
  BY <1>1, <1>3, <1>4

(* While a nonce is not consumed, no request that had read it is accepted,
   unless this step is the first to consume it. *)
LEMMA FreshWaits ==
  ASSUME TypeOK, DropSeesIssued, [Next]_vars, NEW n \in NonceId, nonces'[n].st # "spent",
         AcceptedFor(n) = {}
  PROVE  AcceptedFor(n)' = {}
<1> SUFFICES ASSUME NEW v \in Worker, work'[v].pc \in {"user", "issue"}, work'[v].n = n
             PROVE  FALSE
  BY DEF AcceptedFor
<1>1. work[v].pc \notin {"user", "issue"} \/ work[v].n # n
  BY DEF AcceptedFor
<1>2. work'[v] # work[v]
  BY <1>1
<1>3. /\ BurnNonce(v) \/ CheckSignature(v)
      /\ work'[v].n = work[v].n /\ work[v].pc \in {"burn", "user"}
  BY <1>2, LoginMoves
<1>4. BurnNonce(v)
  BY <1>1, <1>3 DEF CheckSignature
<1>5. n \in Kept(nonces) => nonces'[n].st = "spent"
  BY <1>3, <1>4 DEF BurnNonce, TypeOK, NonceType
<1>6. n \notin Kept(nonces) => work'[v] = Free
  BY <1>3, <1>4 DEF BurnNonce, Ends, Becomes, TypeOK
<1>7. QED
  BY <1>5, <1>6 DEF Free

LEMMA StepBurnt ==
  TypeOK /\ DropSeesIssued /\ BurntBeforeUse /\ [Next]_vars => BurntBeforeUse'
<1> SUFFICES ASSUME TypeOK, DropSeesIssued, BurntBeforeUse, [Next]_vars, NEW n \in NonceId
             PROVE  \/ nonces'[n].st # "spent" /\ redeemed'[n] = 0 /\ AcceptedFor(n)' = {}
                    \/ /\ nonces'[n].st \in {"spent", "gone"}
                       /\ redeemed'[n] + Cardinality(SawFresh(n)') <= rivals'[n]
  BY DEF BurntBeforeUse, SawFresh, AcceptedFor
<1>0. /\ redeemed[n] \in Nat /\ rivals[n] \in Nat /\ nonces[n] \in NonceType
      /\ nonces \in [NonceId -> NonceType] /\ redeemed \in [NonceId -> Nat]
  BY DEF TypeOK
<1>1. CASE /\ nonces[n].st \in {"spent", "gone"}
           /\ redeemed[n] + Cardinality(SawFresh(n)) <= rivals[n]
  <2>1. nonces'[n].st \in {"spent", "gone"} /\ rivals'[n] = rivals[n]
    BY <1>1, NonceMoves, RivalsMove
  <2>2. redeemed'[n] + Cardinality(SawFresh(n)') <= redeemed[n] + Cardinality(SawFresh(n))
    BY <1>1, ConsumedDwindles
  <2>3. /\ Cardinality(SawFresh(n)) \in Nat /\ Cardinality(SawFresh(n)') \in Nat
        /\ redeemed'[n] \in Nat
    <3>1. redeemed'[n] \in {redeemed[n], redeemed[n] + 1}
      BY <1>0, RedeemedMoves DEF IssueToken
    <3>2. SawFresh(n)' \subseteq SawFresh(n)
      BY <1>1, ConsumedDwindles
    <3>3. QED
      BY <1>0, <3>1, <3>2, SawFreshFinite, FS_Subset, FS_CardinalityType
  <2>4. QED
    BY <1>0, <1>1, <2>1, <2>2, <2>3
<1>2. CASE nonces[n].st # "spent" /\ redeemed[n] = 0 /\ AcceptedFor(n) = {}
  <2>1. redeemed'[n] = 0
    <3>1. ASSUME NEW w \in Worker, IssueToken(w) PROVE work[w].n # n
      BY <1>2, <3>1 DEF IssueToken, AcceptedFor
    <3>2. QED
      BY <1>0, <1>2, <3>1, RedeemedMoves DEF IssueToken
  <2>2. CASE nonces'[n].st # "spent"
    BY <1>2, <2>1, <2>2, FreshWaits
  <2>3. CASE nonces'[n].st = "spent"
    <3>1. PICK w \in Worker : BurnNonce(w) /\ work[w].n = n /\ nonces[n].st = "live"
      <4>1. nonces'[n] # nonces[n]
        BY <1>2, <2>3
      <4>2. (\E w \in Worker : BurnNonce(w)) \/ Dropping
        BY <4>1, <2>3, NoncesMove, <1>0 DEF Tick, Challenge, rows
      <4>3. ~Dropping
        <5>1. ASSUME NEW w \in Worker, DropAccount(w), Within(Referring, work[w].seen)
              PROVE  nonces'[n] = nonces[n] \/ nonces'[n].st = "gone"
          BY <1>0, <5>1 DEF DropAccount, NonceType
        <5>2. QED
          BY <2>3, <4>1, <5>1 DEF Dropping
      <4>4. PICK w \in Worker : BurnNonce(w)
        BY <4>2, <4>3
      <4>5. work[w].n = n /\ n \in Kept(nonces)
        BY <1>0, <4>1, <4>4 DEF BurnNonce
      <4>6. QED
        BY <1>2, <4>4, <4>5 DEF Kept
    <3>2. rivals'[n] = Cardinality(SawFresh(n))
      BY <3>1, <1>0 DEF BurnNonce, Live, TypeOK
    <3>3. SawFresh(n)' \subseteq SawFresh(n)
      <4>1. ASSUME NEW v \in Worker, work'[v].pc \in {"burn", "user", "issue"}, work'[v].n = n
            PROVE  work[v].pc \in {"burn", "user", "issue"} /\ work[v].n = n
        <5>1. ASSUME NEW k \in Key, ReadNonce(v, n, k) PROVE FALSE
          <6>1. UNCHANGED nonces
            BY <5>1 DEF ReadNonce, rows
          <6>2. QED
            BY <6>1, <1>2, <2>3
        <5>2. QED
          BY <4>1, <5>1, LoginMoves
      <4>2. QED
        BY <4>1 DEF SawFresh
    <3>4. /\ Cardinality(SawFresh(n)') <= Cardinality(SawFresh(n))
          /\ Cardinality(SawFresh(n)') \in Nat
      BY <3>3, SawFreshFinite, FS_Subset, FS_CardinalityType
    <3>5. QED
      BY <2>1, <2>3, <3>2, <3>4, SawFreshFinite
  <2>4. QED
    BY <2>2, <2>3
<1>3. QED
  BY <1>1, <1>2 DEF BurntBeforeUse

-----------------------------------------------------------------------------
(* Paced challenges. *)

LEMMA GrantedFinite ==
  ASSUME NEW a, NEW b
  PROVE  /\ IsFiniteSet(Granted(a, b)) /\ Cardinality(Granted(a, b)) \in Nat
         /\ Window * Cardinality(Granted(a, b)) \in Nat
<1>1. IsFiniteSet(NonceId) /\ Granted(a, b) \subseteq NonceId
  BY FS_Interval DEF NonceId, Granted
<1>2. IsFiniteSet(Granted(a, b)) /\ Cardinality(Granted(a, b)) \in Nat
  BY <1>1, FS_Subset, FS_CardinalityType
<1>3. \A x \in Nat : Window * x \in Nat
  OBVIOUS
<1>4. QED
  BY <1>2, <1>3

(* One more unit of time, one more nonce, in the allowance. *)
LEMMA Allowance ==
  /\ \A d \in Nat : Burst * (Window + d) \in Nat /\ Burst * (Window + (d + 1)) = Burst * (Window + d) + Burst
  /\ \A d \in Nat : Burst * Window <= Burst * (Window + d)
  /\ \A x \in Nat : Window * (x + 1) = Window * x + Window
  /\ \A x \in Nat : (x + 1) * Burst = x * Burst + Burst
OBVIOUS

(* What the bucket holds a moment later, and when it has just been charged. *)
LEMMA RefilledLater ==
  ASSUME TypeOK, NothingAhead, Tick
  PROVE  Refilled(bucket)' <= Refilled(bucket) + Burst /\ Refilled(bucket)' <= Capacity
<1>1. /\ Capacity \in Nat /\ bucket.level \in 0..Capacity
      /\ (clock - bucket.at) * Burst \in Nat
  BY RefilledWithin
<1>2. bucket' = bucket /\ clock' = clock + 1
  BY DEF Tick
<1>3. (clock' - bucket.at) * Burst = (clock - bucket.at) * Burst + Burst
  <2>1. clock - bucket.at \in Nat
    BY DEF TypeOK, NothingAhead
  <2>2. clock' - bucket.at = (clock - bucket.at) + 1
    BY <1>2 DEF TypeOK
  <2>3. QED
    BY <2>1, <2>2, Allowance
<1> DEFINE then == (clock - bucket.at) * Burst
           now == (clock' - bucket.at) * Burst
<1>4. /\ Refilled(bucket) = IF bucket.level + then > Capacity THEN Capacity ELSE bucket.level + then
      /\ Refilled(bucket)' = IF bucket.level + now > Capacity THEN Capacity ELSE bucket.level + now
  BY <1>2 DEF Refilled, Capacity
<1>5. now = then + Burst /\ then \in Nat
  BY <1>1, <1>3
<1> HIDE DEF then, now
<1>6. QED
  BY <1>1, <1>4, <1>5

LEMMA RefilledCharged ==
  ASSUME TypeOK, NothingAhead, Challenge
  PROVE  Refilled(bucket)' = IF Allowed(bucket) THEN Refilled(bucket) - Window ELSE Refilled(bucket)
<1> DEFINE r == Refilled(bucket)
<1>1. r \in 0..Capacity /\ Capacity \in Nat
  BY RefilledWithin
<1>2. bucket' = Charged(bucket) /\ clock' = clock
  BY DEF Challenge
<1>3. bucket'.level = (IF Allowed(bucket) THEN r - Window ELSE r) /\ bucket'.at = clock
  BY <1>2 DEF Charged
<1>4. bucket'.level \in 0..Capacity
  BY <1>1, <1>3 DEF Allowed
<1>5. (clock - clock) * Burst = 0
  BY DEF TypeOK
<1>6. Refilled(bucket)' = IF bucket'.level + (clock - clock) * Burst > Capacity
                          THEN Capacity ELSE bucket'.level + (clock - clock) * Burst
  BY <1>2, <1>3 DEF Refilled, Capacity
<1> HIDE DEF r
<1>7. Refilled(bucket)' = bucket'.level
  BY <1>1, <1>4, <1>5, <1>6
<1>8. QED
  BY <1>3, <1>7 DEF r

(* A stretch gains a nonce only by a challenge let through while it lasts. *)
LEMMA GrantedMoves ==
  ASSUME TypeOK, DropSeesIssued, [Next]_vars, NEW a, NEW b
  PROVE  \/ Granted(a, b)' = Granted(a, b)
         \/ /\ Challenge /\ Allowed(bucket) /\ clock \in a..b
            /\ \E n \in NonceId \ Granted(a, b) : Granted(a, b)' = Granted(a, b) \cup {n}
<1>1. CASE ~Challenge \/ ~Allowed(bucket)
  <2>1. ASSUME NEW n \in NonceId
        PROVE  (nonces'[n].st # "none" <=> nonces[n].st # "none")
               /\ (nonces[n].st # "none" => nonces'[n].at = nonces[n].at)
    <3>1. CASE Challenge
      BY <1>1, <3>1 DEF Challenge
    <3>2. CASE ~Challenge
      BY <3>2, NonceMoves
    <3>3. QED
      BY <3>1, <3>2
  <2>2. QED
    BY <2>1 DEF Granted
<1>2. CASE Challenge /\ Allowed(bucket)
  <2>1. PICK n \in Unused(nonces) : nonces' = [nonces EXCEPT ![n] = [st |-> "live", at |-> clock]]
    BY <1>2 DEF Challenge
  <2>2. n \in NonceId /\ nonces[n].st = "none" /\ nonces'[n] = [st |-> "live", at |-> clock]
    BY <2>1 DEF Unused, TypeOK
  <2>3. \A m \in NonceId \ {n} : nonces'[m] = nonces[m]
    BY <2>1, <2>2 DEF TypeOK
  <2>4. CASE clock \in a..b
    <3>1. Granted(a, b)' = Granted(a, b) \cup {n} /\ n \notin Granted(a, b)
      BY <2>2, <2>3, <2>4 DEF Granted
    <3>2. QED
      BY <1>2, <2>2, <2>4, <3>1
  <2>5. CASE clock \notin a..b
    BY <2>2, <2>3, <2>5 DEF Granted
  <2>6. QED
    BY <2>4, <2>5
<1>3. QED
  BY <1>1, <1>2

LEMMA StepCovers ==
  TypeOK /\ NothingAhead /\ DropSeesIssued /\ BucketCovers /\ [Next]_vars => BucketCovers'
<1> SUFFICES ASSUME TypeOK, NothingAhead, DropSeesIssued, BucketCovers, [Next]_vars,
                    NEW a \in 0..clock'
             PROVE  Window * Cardinality(Granted(a, clock)') + Refilled(bucket)'
                      <= Burst * (Window + clock' - a)
  BY DEF BucketCovers, Granted, Refilled, Capacity
<1> DEFINE before == Window * Cardinality(Granted(a, clock))
           after == Window * Cardinality(Granted(a, clock)')
           R == Refilled(bucket)
           R2 == Refilled(bucket)'
<1>0. clock \in Nat /\ bucket.at \in Nat /\ \A n \in NonceId : nonces[n].at \in Nat
  BY DEF TypeOK, NonceType
<1>1. before \in Nat /\ R \in 0..Capacity /\ Capacity \in Nat /\ Capacity = Burst * Window
  BY GrantedFinite, RefilledWithin DEF Capacity
<1>2. CASE Tick
  <2>1. clock' = clock + 1 /\ UNCHANGED nonces
    BY <1>2 DEF Tick, rows
  <2>2. R2 <= R + Burst /\ R2 <= Capacity
    BY <1>2, RefilledLater
  <2>3. R2 \in Int
    <3>1. Refilled(bucket)' \in 0..Capacity
      <4>1. bucket' = bucket
        BY <1>2 DEF Tick
      <4>2. (clock' - bucket.at) * Burst \in Int /\ bucket.level \in Int
        <5>1. clock' - bucket.at \in Int
          BY <1>0, <2>1
        <5>2. \A x \in Int : x * Burst \in Int
          OBVIOUS
        <5>3. QED
          BY <5>1, <5>2 DEF TypeOK
      <4>3. bucket.level \in 0..Capacity /\ clock' - bucket.at \in Nat
        BY <1>0, <2>1 DEF TypeOK, NothingAhead
      <4>4. (clock' - bucket.at) * Burst \in Nat
        <5>1. \A x \in Nat : x * Burst \in Nat
          OBVIOUS
        <5>2. QED
          BY <4>3, <5>1
      <4>5. QED
        BY <1>1, <4>1, <4>3, <4>4 DEF Refilled, Capacity
    <3>2. QED
      BY <1>1, <3>1
  <2>4. CASE a \in 0..clock
    <3>1. Granted(a, clock)' = Granted(a, clock)
      BY <1>0, <2>1, <2>4 DEF Granted, NothingAhead
    <3>2. before + R <= Burst * (Window + clock - a)
      BY <2>4 DEF BucketCovers
    <3>3. Burst * (Window + clock' - a) = Burst * (Window + clock - a) + Burst
          /\ Burst * (Window + clock - a) \in Nat
      <4>1. clock - a \in Nat /\ clock' - a = (clock - a) + 1
        BY <1>0, <2>1, <2>4
      <4>2. /\ Window + clock - a = Window + (clock - a)
            /\ Window + clock' - a = Window + (clock' - a)
        BY <1>0, <2>1, <2>4
      <4>3. QED
        BY <4>1, <4>2, Allowance
    <3>4. after = before
      BY <3>1
    <3> HIDE DEF before, after, R, R2
    <3>5. QED
      BY <1>1, <2>2, <2>3, <3>2, <3>3, <3>4 DEF after, R2
  <2>5. CASE a = clock + 1
    <3>1. Granted(a, clock)' = {}
      <4>1. \A n \in NonceId : nonces'[n].at < a
        BY <1>0, <2>1, <2>5 DEF NothingAhead
      <4>2. QED
        BY <1>0, <2>1, <2>5, <4>1 DEF Granted, TypeOK, NonceType
    <3>2. after = 0
      BY <3>1, FS_EmptySet
    <3>3. Window + clock' - a = Window
      BY <1>0, <2>1, <2>5
    <3> HIDE DEF before, after, R, R2
    <3>4. QED
      BY <1>1, <2>2, <2>3, <3>2, <3>3 DEF after, R2
  <2>6. QED
    BY <1>0, <2>1, <2>4, <2>5
<1>3. CASE UNCHANGED clock
  <2>1. before + R <= Burst * (Window + clock - a)
    BY <1>3 DEF BucketCovers
  <2>2. CASE Challenge
    <3>1. R2 = IF Allowed(bucket) THEN R - Window ELSE R
      BY <2>2, RefilledCharged
    <3>2. after = before \/ (Allowed(bucket) /\ after = before + Window)
      <4>1. \/ Granted(a, clock)' = Granted(a, clock)
            \/ /\ Allowed(bucket)
               /\ \E n \in NonceId \ Granted(a, clock) : Granted(a, clock)' = Granted(a, clock) \cup {n}
        <5>1. \A b : b = clock => Granted(a, b)' = Granted(a, clock)'
          BY <1>3 DEF Granted
        <5>2. QED
          BY SMTT(20), <1>3, GrantedMoves DEF Granted
      <4>2. ASSUME NEW n \in NonceId \ Granted(a, clock),
                   Granted(a, clock)' = Granted(a, clock) \cup {n}
            PROVE  after = before + Window
        <5>1. Cardinality(Granted(a, clock)') = Cardinality(Granted(a, clock)) + 1
          BY <4>2, GrantedFinite, FS_AddElement
        <5>2. QED
          BY <5>1, GrantedFinite, Allowance
      <4>3. QED
        BY <4>1, <4>2
    <3>3. Burst * (Window + clock - a) \in Nat
      <4>1. clock - a \in Nat /\ Window + clock - a = Window + (clock - a)
        BY <1>0, <1>3
      <4>2. QED
        BY <4>1, Allowance
    <3> HIDE DEF before, after, R, R2
    <3>4. after + R2 <= Burst * (Window + clock - a)
      BY <1>1, <2>1, <3>1, <3>2, <3>3
    <3>5. QED
      BY <1>3, <3>4 DEF after, R2
  <2>3. CASE ~Challenge
    <3>1. UNCHANGED bucket
      BY <1>0, <1>3, <2>3, NoncesMove DEF Tick, BurnNonce, Dropping, DropAccount
    <3>2. R2 = R
      BY <1>3, <3>1 DEF Refilled
    <3>3. Granted(a, clock)' = Granted(a, clock)
      BY <1>3, <2>3, GrantedMoves DEF Granted
    <3>4. QED
      BY <1>3, <2>1, <3>2, <3>3
  <2>4. QED
    BY <2>2, <2>3
<1>4. QED
  BY <1>2, <1>3, NoncesMove DEF Challenge, BurnNonce, Dropping, DropAccount

(* The stretches that end now are within the allowance: so are the earlier
   ones, which no step adds to. *)
PacedSoFar ==
  \A a \in 0..clock : Window * Cardinality(Granted(a, clock)) <= Burst * (Window + clock - a)

LEMMA CoveredPaced == TypeOK /\ NothingAhead /\ BucketCovers => PacedSoFar
<1> SUFFICES ASSUME TypeOK, NothingAhead, BucketCovers, NEW a \in 0..clock
             PROVE  Window * Cardinality(Granted(a, clock)) <= Burst * (Window + clock - a)
  BY DEF PacedSoFar
<1>1. Window * Cardinality(Granted(a, clock)) + Refilled(bucket) <= Burst * (Window + clock - a)
  BY DEF BucketCovers
<1>2. Window * Cardinality(Granted(a, clock)) \in Nat /\ Refilled(bucket) \in Nat
  BY GrantedFinite, RefilledWithin
<1>3. Burst * (Window + clock - a) \in Nat
  <2>1. clock - a \in Nat /\ Window + clock - a = Window + (clock - a)
    BY DEF TypeOK
  <2>2. QED
    BY <2>1, Allowance
<1>4. QED
  BY <1>1, <1>2, <1>3

LEMMA StepPaced ==
  TypeOK /\ NothingAhead /\ DropSeesIssued /\ ChallengesPaced /\ [Next]_vars
    /\ TypeOK' /\ NothingAhead' /\ BucketCovers' => ChallengesPaced'
<1> SUFFICES ASSUME TypeOK, NothingAhead, DropSeesIssued, ChallengesPaced, [Next]_vars,
                    TypeOK', NothingAhead', BucketCovers',
                    NEW a \in 0..clock', NEW b \in a..clock'
             PROVE  Window * Cardinality(Granted(a, b)') <= Burst * (Window + b - a)
  BY DEF ChallengesPaced, Granted
<1>0. clock \in Nat /\ clock' \in Nat /\ (clock' = clock \/ Tick)
  <2>1. clock' = clock \/ Tick
    BY NoncesMove DEF Challenge, BurnNonce, Dropping, DropAccount
  <2>2. QED
    BY <2>1 DEF TypeOK
<1>1. CASE b = clock'
  <2>0. PacedSoFar'
    BY CoveredPaced, PTL
  <2>1. \A x \in 0..clock' :
          Window * Cardinality(Granted(x, clock)') <= Burst * (Window + clock' - x)
    BY <2>0 DEF PacedSoFar, Granted
  <2>2. Granted(a, clock)' = Granted(a, b)'
    BY <1>1 DEF Granted
  <2>3. QED
    BY <1>1, <2>1, <2>2
<1>2. CASE b # clock'
  <2>1. a \in 0..clock /\ b \in a..clock
    BY <1>0, <1>2 DEF Tick
  <2>2. Granted(a, b)' = Granted(a, b)
    <3>1. CASE Tick
      BY <3>1 DEF Tick, rows, Granted
    <3>2. CASE ~Tick
      <4>1. clock \notin a..b
        BY <1>0, <1>2, <2>1, <3>2
      <4>2. QED
        BY <4>1, GrantedMoves
    <3>3. QED
      BY <3>1, <3>2
  <2>3. QED
    BY <2>1, <2>2 DEF ChallengesPaced
<1>3. QED
  BY <1>1, <1>2

-----------------------------------------------------------------------------
(* The invariant, and what it says. *)

LEMMA InitHolds == Init => IInv
<1> SUFFICES ASSUME Init PROVE IInv
  OBVIOUS
<1>1. TypeOK
  BY InitTyped
<1>2. /\ clock = 0 /\ identity = Gone /\ codes = {} /\ spks = {} /\ submitted = 0
      /\ bucket.level = Capacity /\ bucket.at = 0
      /\ \A w \in Worker : work[w] = Free
  BY DEF Init, Capacity
<1>3. /\ \A n \in NonceId : nonces[n].st = "none" /\ nonces[n].at = 0 /\ redeemed[n] = 0
      /\ \A t \in TokenId : tokens[t].st = "none"
      /\ \A o \in PrekeyId : opks[o].st = "none" /\ handed[o] = 0
  BY DEF Init, Unissued, Blank
<1>4. Kept(tokens) = {} /\ Kept(opks) = {} /\ \A w \in Worker : work[w].pc = "free"
  BY <1>1, <1>2, <1>3 DEF Kept, TypeOK, Free
<1>5. NothingAhead /\ SessionsKeyed /\ PrekeyHandedOnce /\ HandedWhenSpent /\ NothingYet
  BY <1>2, <1>3, <1>4
     DEF NothingAhead, SessionsKeyed, PrekeyHandedOnce, HandedWhenSpent, NothingYet
<1>6. OneEmpties /\ SweptButLate /\ ChecksHold /\ CodesMatchIdentity /\ OldIdentityOut /\ DropSeesIssued
  BY <1>2, <1>4
     DEF OneEmpties, Emptying, SweptButLate, ChecksHold, PastChecks, CodesMatchIdentity, OldIdentityOut, DropSeesIssued
<1>7. BurntBeforeUse
  <2>1. \A n \in NonceId : SawFresh(n) = {} /\ AcceptedFor(n) = {}
    BY <1>4 DEF SawFresh, AcceptedFor
  <2>2. QED
    BY <1>3, <2>1 DEF BurntBeforeUse
<1>8. BucketCovers /\ ChallengesPaced
  <2>1. \A a, b : Granted(a, b) = {}
    BY <1>3 DEF Granted
  <2>2. \A a, b : Window * Cardinality(Granted(a, b)) = 0
    BY <2>1, FS_EmptySet
  <2>3. Refilled(bucket) \in Nat /\ Refilled(bucket) <= Burst * Window
    <3>1. Refilled(bucket) \in 0..Capacity /\ Capacity \in Nat
      BY <1>1, <1>5, RefilledWithin
    <3>2. QED
      BY <3>1 DEF Capacity
  <2>4. Burst * (Window + 0 - 0) = Burst * Window /\ Burst * Window \in Nat
    OBVIOUS
  <2>5. QED
    BY <1>2, <2>2, <2>3, <2>4 DEF BucketCovers, ChallengesPaced
<1>9. QED
  BY <1>1, <1>5, <1>6, <1>7, <1>8 DEF IInv

LEMMA StepHolds == IInv /\ [Next]_vars => IInv'
<1> SUFFICES ASSUME IInv, [Next]_vars PROVE IInv'
  OBVIOUS
<1>1. /\ TypeOK /\ NothingAhead /\ SessionsKeyed /\ PrekeyHandedOnce /\ HandedWhenSpent
      /\ NothingYet /\ OneEmpties /\ SweptButLate /\ ChecksHold /\ CodesMatchIdentity
      /\ OldIdentityOut /\ DropSeesIssued /\ BurntBeforeUse /\ ChallengesPaced /\ BucketCovers
  BY DEF IInv
<1>2. TypeOK' /\ NothingAhead' /\ SessionsKeyed' /\ DropSeesIssued' /\ BucketCovers'
  BY <1>1, StepTyped, StepNothingAhead, StepSessionsKeyed, StepDropSees, StepCovers
<1>3. PrekeyHandedOnce' /\ HandedWhenSpent' /\ NothingYet' /\ OneEmpties'
  BY <1>1, StepHanded, StepNothingYet, StepOneEmpties
<1>4. SweptButLate' /\ ChecksHold' /\ CodesMatchIdentity' /\ OldIdentityOut'
  BY <1>1, StepSwept, StepChecks, StepCodesMatch, StepOldOut
<1>5. BurntBeforeUse' /\ ChallengesPaced'
  BY <1>1, <1>2, StepBurnt, StepPaced
<1>6. QED
  BY <1>2, <1>3, <1>4, <1>5 DEF IInv

(* The inductive invariant of the account's tables holds in every reachable
   state, however requests interleave at the server. *)
THEOREM AccountHolds == Spec => []IInv
BY InitHolds, StepHolds, PTL DEF Spec

(* Types of the account's rows, the limiter and the requests in flight. *)
THEOREM TypesHold == Spec => []TypeOK
BY AccountHolds, PTL DEF IInv

(* _claim_opk hands a one-time prekey to one bundle, however many fetches
   race for it and whatever is uploaded, replaced or deleted meanwhile. *)
THEOREM OneBundlePerPrekey == Spec => []PrekeyHandedOnce
BY AccountHolds, PTL DEF IInv

(* The recovery codes in the table are those of the key in place, through
   register, recover and delete_account in any order and interleaving. *)
THEOREM RecoveryStaysPossible == Spec => []CodesMatchIdentity
BY AccountHolds, PTL DEF IInv

(* After recover no session and no prekey is of another key than the one in
   place, but for rows that a request past its checks at that moment, or one
   that met the deletions, committed after them: a request that compares the
   key later is turned away. *)
THEOREM RecoveryForcesOut == Spec => []OldIdentityOut
BY AccountHolds, PTL DEF IInv

(* verify opens for one signed challenge no more sessions than there were
   requests that had read it when it was first consumed: one, unless several
   had. *)
THEOREM NonceOpensOneRound == Spec => []NonceGoodForOneRound
<1>1. IInv => NonceGoodForOneRound
  <2> SUFFICES ASSUME IInv, NEW n \in NonceId
               PROVE  redeemed[n] + Cardinality(AcceptedFor(n)) <= rivals[n]
    BY DEF NonceGoodForOneRound
  <2>1. redeemed[n] \in Nat /\ rivals[n] \in Nat
    BY DEF IInv, TypeOK
  <2>2. CASE redeemed[n] = 0 /\ AcceptedFor(n) = {}
    BY <2>1, <2>2, FS_EmptySet
  <2>3. CASE redeemed[n] + Cardinality(SawFresh(n)) <= rivals[n]
    <3>1. AcceptedFor(n) \subseteq SawFresh(n)
      BY DEF AcceptedFor, SawFresh
    <3>2. /\ Cardinality(AcceptedFor(n)) <= Cardinality(SawFresh(n))
          /\ Cardinality(AcceptedFor(n)) \in Nat
      BY <3>1, SawFreshFinite, FS_Subset, FS_CardinalityType
    <3>3. QED
      BY <2>1, <2>3, <3>2, SawFreshFinite
  <2>4. QED
    BY <2>2, <2>3 DEF IInv, BurntBeforeUse
<1>2. QED
  BY AccountHolds, <1>1, PTL

(* TokenBucketLimiter lets through, in any stretch of time, no more than its
   capacity and what accrues in that stretch. *)
THEOREM LimiterPaces == Spec => []ChallengesPaced
BY AccountHolds, PTL DEF IInv

=============================================================================
