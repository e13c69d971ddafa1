----------------------------- MODULE RatchetOps -----------------------------
(***************************************************************************)
(* The KEM double ratchet of client/src/crypto/ratchet.ts as pure          *)
(* functions: Encrypt and Decrypt map one session record to the next, the  *)
(* way ratchetEncrypt and ratchetDecrypt mutate one RatchetState.          *)
(*                                                                         *)
(* Keys are terms.  A root is the sequence of the KEM secrets mixed into   *)
(* it since the handshake, so two roots are equal exactly when HKDF was    *)
(* fed the same inputs.  A chain is the root it was derived from (its      *)
(* direction is the sender's role), and a message key is a chain and a     *)
(* position in it, so ns and nr are also the positions of cks and ckr.     *)
(* Keypairs and KEM ciphertexts are named for the message that first       *)
(* carried them: `id' below is that message's serial number at its sender. *)
(***************************************************************************)
EXTENDS Naturals, Sequences, FiniteSets

CONSTANTS
  KemStepInterval,   \* KEM_STEP_INTERVAL
  MaxSkip            \* MAX_SKIP

ASSUME RatchetBounds == /\ KemStepInterval \in Nat \ {0}
                        /\ MaxSkip \in Nat

Role == {"initiator", "responder"}
Peer(r) == IF r = "initiator" THEN "responder" ELSE "initiator"

(* A null keypair.  Serial numbers start at 1. *)
NoKey == 0

(* <<r, id>> is the shared secret of message `id' of role r; <<r, 0>> stands
   for what ML-KEM's implicit rejection returns under a wrong secret key: no
   Secret, because no sender ever mixed it in. *)
Secret == Role \X (Nat \ {0})
Root == Seq(Secret)
RootStep(rk, ss) == Append(rk, ss)

(* The skipped map: the key of <<c, n, chain>> is (c, n), the number of a
   receiving chain and a position in it; its value is the message key at
   position n of `chain'.  No position is ever cached twice. *)
SkipEntry == Nat \X Nat \X Root

(* RatchetState.  The optional header root nhkr is a set of at most one. *)
Session == [role: Role, rk: Root, cks: Root, ckr: Root, ns: Nat, nr: Nat,
            pn: Nat, lastAction: {"send", "recv"}, hks: Root, hkr: Root,
            nhkr: SUBSET Root, sendKem: Nat, peerKem: Nat, sinceOffer: Nat,
            recvChainId: Nat, skipped: SUBSET SkipEntry]

(* What the encrypted header carries (n, pn, kemPk, kemCt), together with
   the root that keys the header and the chain that keys the body.  kemTo is
   the offer the ciphertext was encapsulated to; the secret inside it is
   <<from, id>>. *)
Message == [from: Role, id: Nat \ {0}, hk: Root, chain: Root,
            n: Nat, pn: Nat, kemPk: Nat, kemTo: Nat]

-----------------------------------------------------------------------------
(* initRatchet: both chains come from RK0, the empty root. *)
InitRatchet(role) ==
  [role |-> role,
   rk |-> <<>>, cks |-> <<>>, ckr |-> <<>>,
   ns |-> 0, nr |-> 0, pn |-> 0,
   lastAction |-> IF role = "initiator" THEN "send" ELSE "recv",
   hks |-> <<>>, hkr |-> <<>>, nhkr |-> {},
   sendKem |-> NoKey, peerKem |-> NoKey, sinceOffer |-> KemStepInterval,
   recvChainId |-> 0, skipped |-> {}]

-----------------------------------------------------------------------------
(* ratchetEncrypt, step 1: a new turn snapshots the header root and, when an
   offer of the peer is waiting, accepts it: the root rolls and a fresh
   sending chain starts. *)
NewTurn(s) == s.lastAction = "recv"
Accepts(s) == NewTurn(s) /\ s.peerKem # NoKey

\* Mutants (a chain that outlives its root; a next header root forgotten).
MutKeepChain(s, id) ==
  IF Accepts(s)
  THEN [s EXCEPT !.hks = s.rk, !.rk = RootStep(s.rk, <<s.role, id>>),
                 !.pn = s.ns, !.ns = 0, !.peerKem = NoKey,
                 !.nhkr = {RootStep(s.rk, <<s.role, id>>)}]
  ELSE [s EXCEPT !.hks = IF NewTurn(s) THEN s.rk ELSE @]

MutForgetNext(s, id) ==
  LET rolled == RootStep(s.rk, <<s.role, id>>)
  IN  IF Accepts(s)
      THEN [s EXCEPT !.hks = s.rk, !.rk = rolled, !.cks = rolled,
                     !.pn = s.ns, !.ns = 0, !.peerKem = NoKey]
      ELSE [s EXCEPT !.hks = IF NewTurn(s) THEN s.rk ELSE @]

StartTurn(s, id) ==
  LET rolled == RootStep(s.rk, <<s.role, id>>)
  IN  IF Accepts(s)
      THEN [s EXCEPT !.hks = s.rk, !.rk = rolled, !.cks = rolled,
                     !.pn = s.ns, !.ns = 0, !.peerKem = NoKey,
                     !.nhkr = {rolled}]
      ELSE [s EXCEPT !.hks = IF NewTurn(s) THEN s.rk ELSE @]

(* Step 2: a fresh offer replaces the old secret on a new turn and every
   KemStepInterval messages; otherwise the standing offer is repeated. *)
FreshOffer(s) == NewTurn(s) \/ s.sinceOffer >= KemStepInterval

MakeOffer(s, id, fresh) ==
  IF fresh THEN [s EXCEPT !.sendKem = id, !.sinceOffer = 0] ELSE s

(* Steps 3 and 4: spend one message key and seal the message. *)
Encrypt(s, id) ==
  LET t == MakeOffer(StartTurn(s, id), id, FreshOffer(s))
  IN  [state |-> [t EXCEPT !.ns = @ + 1, !.sinceOffer = @ + 1,
                           !.lastAction = "send"],
       msg   |-> [from |-> t.role, id |-> id, hk |-> t.hks, chain |-> t.cks,
                  n |-> t.ns, pn |-> t.pn, kemPk |-> t.sendKem,
                  kemTo |-> IF Accepts(s) THEN s.peerKem ELSE NoKey]]

-----------------------------------------------------------------------------
(* ratchetDecrypt.  The header opens under hkr, else under nhkr. *)
UsesCurrent(s, m) == m.hk = s.hkr
UsesNext(s, m) == ~UsesCurrent(s, m) /\ m.hk \in s.nhkr
Readable(s, m) == UsesCurrent(s, m) \/ UsesNext(s, m)

IsAccept(m) == m.kemTo # NoKey

InCache(s, m) ==
  /\ UsesCurrent(s, m)
  /\ \E e \in s.skipped : e[1] = s.recvChainId /\ e[2] = m.n

(* A message key opens exactly the body that was sealed with it. *)
CacheEntry(s, m) == <<s.recvChainId, m.n, m.chain>>
OpensFromCache(s, m) == CacheEntry(s, m) \in s.skipped

(* skipTo: cache the keys from nr up to target, unless the cache would
   outgrow MaxSkip. *)
SkipFits(s, target) ==
  \/ target <= s.nr
  \/ Cardinality(s.skipped) + (target - s.nr) <= MaxSkip

Gap(s, target) == {<<s.recvChainId, i, s.ckr>> : i \in s.nr..(target - 1)}

SkipTo(s, target) ==
  IF target <= s.nr THEN s
  ELSE [s EXCEPT !.nr = target, !.skipped = @ \cup Gap(s, target)]

\* Mutant: the next turn's header root is used up without being adopted.
MutKeepHeaderRoot(s, m) == s

(* Entering the peer's next turn retires the header root that opened it. *)
EnterTurn(s, m) ==
  IF UsesNext(s, m) THEN [s EXCEPT !.hkr = m.hk, !.nhkr = {}] ELSE s

(* Decapsulation never fails: with any secret but the right one it returns
   an unrelated secret. *)
Decapsulate(s, m) ==
  <<m.from, IF s.sendKem = m.kemTo THEN m.id ELSE 0>>

RollReceiving(s, m) ==
  LET rolled == RootStep(s.rk, Decapsulate(s, m))
  IN  [s EXCEPT !.rk = rolled, !.ckr = rolled, !.nr = 0,
                !.recvChainId = @ + 1, !.nhkr = {rolled}]

(* The scratch state before the body is tried: the tail of the old chain is
   flushed into the cache, then an accept opens the new one. *)
Scratch(s, m) ==
  LET entered == EnterTurn(s, m)
  IN  IF IsAccept(m) THEN RollReceiving(SkipTo(entered, m.pn), m) ELSE entered

(* The checks a message passes before anything is committed.  A new turn is
   entered by its accept only; a position already passed is never rewound
   to; a body opens under the key the sender sealed it with. *)
OpensAhead(s, m) ==
  /\ Readable(s, m)
  /\ UsesNext(s, m) => IsAccept(m)
  /\ IsAccept(m) => s.sendKem # NoKey /\ SkipFits(s, m.pn)
  /\ Scratch(s, m).nr <= m.n
  /\ SkipFits(Scratch(s, m), m.n)
  /\ Scratch(s, m).ckr = m.chain

Decrypts(s, m) ==
  IF InCache(s, m) THEN OpensFromCache(s, m) ELSE OpensAhead(s, m)

\* Mutant: a served key stays in the cache.
MutServeAndKeep(s, m) == s

(* What a successful decrypt commits.  Serving from the cache touches
   nothing but the cache. *)
ServeFromCache(s, m) == [s EXCEPT !.skipped = @ \ {CacheEntry(s, m)}]

Advance(s, m) ==
  [SkipTo(Scratch(s, m), m.n) EXCEPT
     !.nr = m.n + 1,
     !.peerKem = IF m.kemPk # NoKey THEN m.kemPk ELSE @,
     !.lastAction = "recv"]

Decrypt(s, m) == IF InCache(s, m) THEN ServeFromCache(s, m) ELSE Advance(s, m)
=============================================================================
