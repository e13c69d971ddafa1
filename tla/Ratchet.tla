------------------------------- MODULE Ratchet -------------------------------
(***************************************************************************)
(* Two peers talking over one ratchet session, through a store-and-forward *)
(* server.  A send advances and saves the session before the message goes  *)
(* out (messaging.ts, sendRatchetMessage), so a send that fails leaves the *)
(* session advanced; a received envelope is tried and then acknowledged,   *)
(* whether it opened or not (processRatchetMessage).                       *)
(*                                                                         *)
(* Two environments share the actions:                                     *)
(*   Spec          any order, lost sends, envelopes expired or delivered   *)
(*                 again                                                   *)
(*   TurnsSpec     in order, nothing lost, a peer reads before it writes   *)
(***************************************************************************)
EXTENDS RatchetOps

CONSTANT MaxSent   \* bound: how many messages each peer encrypts

ASSUME MaxSentType == MaxSent \in [Role -> Nat]

VARIABLES
  st,       \* st[r]: the session record r keeps in its store
  serial,   \* serial[r]: how many messages r has encrypted
  sent,     \* sent[r]: every message r has encrypted (history)
  net,      \* net[r]: envelopes waiting for r on the server
  got       \* got[r]: messages r has decrypted (history)

vars == <<st, serial, sent, net, got>>

Init ==
  /\ st = [r \in Role |-> InitRatchet(r)]
  /\ serial = [r \in Role |-> 0]
  /\ sent = [r \in Role |-> {}]
  /\ net = [r \in Role |-> {}]
  /\ got = [r \in Role |-> {}]

(* Encrypt, save, and hand the envelope to the server.  The server refuses
   it when the recipient's queue is full, or the request never arrives. *)
SendStep(r, accepted) ==
  LET enc == Encrypt(st[r], serial[r] + 1)
  IN  /\ serial[r] < MaxSent[r]
      /\ st' = [st EXCEPT ![r] = enc.state]
      /\ serial' = [serial EXCEPT ![r] = @ + 1]
      /\ sent' = [sent EXCEPT ![r] = @ \cup {enc.msg}]
      /\ net' = IF accepted THEN [net EXCEPT ![Peer(r)] = @ \cup {enc.msg}]
                            ELSE net
      /\ UNCHANGED got

Send(r) == SendStep(r, TRUE)
SendFails(r) == SendStep(r, FALSE)

(* Try envelope m and acknowledge it; `acked' is FALSE when the
   acknowledgement is lost, and the server will deliver m again. *)
Receive(r, m, acked) ==
  /\ m \in net[r]
  /\ IF Decrypts(st[r], m)
     THEN /\ st' = [st EXCEPT ![r] = Decrypt(@, m)]
          /\ got' = [got EXCEPT ![r] = @ \cup {m}]
     ELSE UNCHANGED <<st, got>>
  /\ net' = IF acked THEN [net EXCEPT ![r] = @ \ {m}] ELSE net
  /\ UNCHANGED <<serial, sent>>

(* An envelope leaves the queue unread: swept after MESSAGE_TTL_SECONDS. *)
Expire(r, m) ==
  /\ m \in net[r]
  /\ net' = [net EXCEPT ![r] = @ \ {m}]
  /\ UNCHANGED <<st, serial, sent, got>>

Next ==
  \E r \in Role :
    \/ Send(r)
    \/ SendFails(r)
    \/ \E m \in net[r], acked \in BOOLEAN : Receive(r, m, acked)
    \/ \E m \in net[r] : Expire(r, m)

Spec == Init /\ [][Next]_vars

-----------------------------------------------------------------------------
(* The calm environment. *)
Oldest(r, m) == \A k \in net[r] : m.id <= k.id
ReceiveOldest(r) == \E m \in net[r] : Oldest(r, m) /\ Receive(r, m, TRUE)
HasReadAll(r) == net[r] = {}

TurnsNext == \E r \in Role : (HasReadAll(r) /\ Send(r)) \/ ReceiveOldest(r)
TurnsSpec == Init /\ [][TurnsNext]_vars

-----------------------------------------------------------------------------
(* Type invariant; it also says that roots are made only of secrets that
   were really encapsulated: the unrelated secret a wrong decapsulation
   returns (serial 0) never leaves the scratch state of ratchetDecrypt. *)
TypeOK ==
  /\ st \in [Role -> Session]
  /\ serial \in [Role -> Nat]
  /\ sent \in [Role -> SUBSET Message]
  /\ net \in [Role -> SUBSET Message]
  /\ got \in [Role -> SUBSET Message]

(* No message key is spent twice by its sender: two messages of one peer
   never share a chain and a position in it, however turns, lost sends and
   accepts interleave (ratchetEncrypt; "can never reuse a message key",
   messaging.ts). *)
NoKeyReuse ==
  \A r \in Role : \A a, b \in sent[r] :
    <<a.chain, a.n>> = <<b.chain, b.n>> => a = b

(* A message that has been decrypted never decrypts again: a second delivery
   of the same envelope, at any later point, opens nothing ("a replay of an
   already-consumed message decrypts to nothing", processRatchetMessage). *)
SpentOnce ==
  \A r \in Role : \A m \in got[r] : ~Decrypts(st[r], m)

(* The skip cache never outgrows MAX_SKIP, over however many chains. *)
SkipBounded ==
  \A r \in Role : Cardinality(st[r].skipped) <= MaxSkip

(* Out-of-order delivery within a chain: as long as r stays on the chain an
   unread message was sealed in, that message opens, unless the gap to it no
   longer fits the cache.  The header root, the chain number and the cache
   all have to stay in step with the chain for this to hold. *)
CurrentChainOpens ==
  \A r \in Role : \A m \in sent[Peer(r)] \ got[r] :
    (m.chain = st[r].ckr /\ SkipFits(st[r], m.n)) => Decrypts(st[r], m)

-----------------------------------------------------------------------------
(* The strengthening that makes the invariants of Spec inductive. *)

(* A root mixes in only secrets of messages already encrypted, so the next
   roll produces a root nobody has seen. *)
Known(count, root) == \A i \in DOMAIN root : root[i][2] <= count[root[i][1]]

Bookkeeping ==
  \A r \in Role :
    /\ st[r].role = r
    /\ net[r] \cup got[r] \subseteq sent[Peer(r)]
    /\ Known(serial, st[r].rk) /\ Known(serial, st[r].cks)
    /\ \A m \in sent[r] :
         /\ Known(serial, m.chain)
         /\ m.chain = st[r].cks => m.n < st[r].ns

(* The receive frontier: roots, and with them receiving chains, only grow;
   what the cache holds for the current chain lies behind nr on that chain;
   a message read lies on an older chain, or behind nr with its cache entry
   gone. *)
Frontier ==
  \A r \in Role :
    /\ Len(st[r].ckr) <= Len(st[r].rk)
    /\ \A e \in st[r].skipped :
         /\ e[1] <= st[r].recvChainId
         /\ e[1] = st[r].recvChainId => e[2] < st[r].nr /\ e[3] = st[r].ckr
    /\ \A m \in got[r] :
         \/ Len(m.chain) < Len(st[r].ckr)
         \/ /\ m.chain = st[r].ckr
            /\ m.n < st[r].nr
            /\ <<st[r].recvChainId, m.n, m.chain>> \notin st[r].skipped

FiniteCache == \A r \in Role : IsFiniteSet(st[r].skipped)

IInv == TypeOK /\ Bookkeeping /\ NoKeyReuse /\ Frontier /\ FiniteCache /\ SkipBounded

(* What CurrentChainOpens needs besides.  The first chains and header roots
   are the empty root; any other chain is opened by one accept, whose secret
   ends it, over the header root of the turn.  Only a peer that has heard
   nothing yet begins a turn with no offer to accept. *)
OpenedBy(r, hk, chain, id) == chain = Append(hk, <<r, id>>)

Turns ==
  \A r \in Role :
    /\ \/ st[r].hks = <<>> /\ st[r].cks = <<>>
       \/ \E id \in 1 .. serial[r] : OpenedBy(r, st[r].hks, st[r].cks, id)
    /\ NewTurn(st[r]) =>
         st[r].peerKem # NoKey \/ (st[r].rk = <<>> /\ st[r].cks = <<>>)
    /\ st[r].sendKem = NoKey => st[r].sinceOffer >= KemStepInterval

Letters ==
  \A r \in Role : \A m \in sent[r] :
    /\ m.from = r /\ m.id <= serial[r] /\ m.kemPk # NoKey
    /\ \A a \in sent[r] : a.id = m.id => a = m
    /\ \/ m.hk = <<>> /\ m.chain = <<>> /\ ~IsAccept(m)
       \/ \E id \in 1 .. serial[r] :
            OpenedBy(r, m.hk, m.chain, id) /\ (IsAccept(m) <=> m.id = id)

(* The accept that opened the current receiving chain has been read, and so
   has the message just behind nr; every earlier one of the chain has been
   read or has its key in the cache. *)
Reception ==
  \A r \in Role :
    /\ \/ st[r].ckr = <<>> /\ st[r].hkr = <<>>
       \/ \E a \in got[r] : /\ IsAccept(a)
                            /\ a.chain = st[r].ckr /\ a.hk = st[r].hkr
    /\ \/ st[r].nr = 0
       \/ \E g \in got[r] : g.chain = st[r].ckr /\ g.n + 1 = st[r].nr
    /\ \A m \in sent[Peer(r)] \ got[r] :
         m.chain = st[r].ckr /\ m.n < st[r].nr =>
           <<st[r].recvChainId, m.n, m.chain>> \in st[r].skipped

OpenInv == IInv /\ Turns /\ Letters /\ Reception

-----------------------------------------------------------------------------
(* A property of the calm environment. *)

(* While the peers take turns and nothing is lost, every envelope opens when
   its turn comes, through every turn change, accept and offer refresh. *)
NextEnvelopeOpens ==
  \A r \in Role : \A m \in net[r] : Oldest(r, m) => Decrypts(st[r], m)

(* Its strengthening.  Only one peer has letters on the way, all of its
   current turn and numbered without a gap up to its ns; the reader's root,
   chain and header root are the writer's, unless the accept that changes
   them is the oldest letter; whoever is about to begin a turn holds the
   offer its peer stands ready for. *)
Accepting(r) == \E a \in net[r] : IsAccept(a)

OneWay == \A r \in Role :
  /\ net[r] = {} \/ net[Peer(r)] = {}
  /\ st[r].skipped = {}

OnTheWay == \A r \in Role : LET w == st[Peer(r)] IN
  /\ \A m \in net[r] :
       /\ m.chain = w.cks /\ m.hk = w.hks
       /\ m.n + serial[Peer(r)] + 1 = w.ns + m.id
       /\ m.id = serial[Peer(r)] => m.kemPk = w.sendKem
       /\ IsAccept(m) =>
            /\ m.n = 0 /\ m.pn = st[r].nr /\ m.kemTo = st[r].sendKem
            /\ w.hks = st[r].rk /\ w.rk = w.cks
            /\ OpenedBy(Peer(r), w.hks, w.cks, m.id)
            /\ st[r].lastAction = "send"
  /\ IF Accepting(r)
     THEN {m.n : m \in net[r]} = 0 .. (w.ns - 1)
     ELSE /\ st[r].nr <= w.ns
          /\ {m.n : m \in net[r]} = st[r].nr .. (w.ns - 1)
          /\ st[r].ckr = w.cks
          /\ ~NewTurn(w) => st[r].hkr = w.hks

InTouch == \A r \in Role : LET w == st[Peer(r)] IN
  /\ ~Accepting(r) /\ ~Accepting(Peer(r)) => st[r].rk = w.rk
  /\ st[r].lastAction = "send" =>
       st[r].rk = st[r].hkr \/ st[r].rk \in st[r].nhkr
  /\ NewTurn(st[r]) => /\ net[Peer(r)] = {} /\ ~NewTurn(w)
                       /\ st[r].peerKem # NoKey /\ net[r] = {} =>
                            st[r].peerKem = w.sendKem
  /\ st[r].peerKem = NoKey /\ NewTurn(st[r]) =>
       st[r].rk = <<>> /\ {st[r].hks, st[r].hkr, w.hkr} = {<<>>}

CalmInv == OpenInv /\ OneWay /\ OnTheWay /\ InTouch
=============================================================================
