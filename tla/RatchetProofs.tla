---------------------------- MODULE RatchetProofs ----------------------------
(***************************************************************************)
(* Proofs about Ratchet, for any number of messages, any skip bound and    *)
(* any offer interval.                                                     *)
(***************************************************************************)
EXTENDS MCRatchet, FiniteSetTheorems, TLAPS

-----------------------------------------------------------------------------
(* The operators of RatchetOps return session records and messages. *)

LEMMA PeerIsRole == \A r \in Role : Peer(r) \in Role /\ Peer(r) # r
  BY DEF Peer, Role

(* A fresh session is a session record. *)
LEMMA InitRatchetType == \A r \in Role : InitRatchet(r) \in Session
  <1>1. <<>> \in Root
    BY DEF Root
  <1> QED
    BY <1>1, RatchetBounds DEF InitRatchet, Session, NoKey, SkipEntry

(* ratchetEncrypt keeps a session record one, and makes a message. *)
LEMMA EncryptType ==
  ASSUME NEW s \in Session, NEW id \in Nat \ {0}
  PROVE  /\ Encrypt(s, id).state \in Session
         /\ Encrypt(s, id).state.role = s.role
         /\ Encrypt(s, id).msg \in Message
  <1> DEFINE t == StartTurn(s, id)
             u == MakeOffer(t, id, FreshOffer(s))
  <1>1. RootStep(s.rk, <<s.role, id>>) \in Root
    BY DEF RootStep, Root, Secret, Session
  <1>2. t \in Session /\ t.role = s.role
    BY <1>1 DEF StartTurn, Session, NoKey
  <1>3. u \in Session /\ u.role = s.role
    BY <1>2 DEF MakeOffer, Session
  <1> HIDE DEF t, u
  <1>4. Encrypt(s, id).state = [u EXCEPT !.ns = @ + 1, !.sinceOffer = @ + 1,
                                         !.lastAction = "send"]
    BY DEF Encrypt, u, t
  <1>5. Encrypt(s, id).msg =
          [from |-> u.role, id |-> id, hk |-> u.hks, chain |-> u.cks,
           n |-> u.ns, pn |-> u.pn, kemPk |-> u.sendKem,
           kemTo |-> IF Accepts(s) THEN s.peerKem ELSE NoKey]
    BY DEF Encrypt, u, t
  <1>6. Encrypt(s, id).state \in Session /\ Encrypt(s, id).state.role = s.role
    <2> DEFINE ns1 == u.ns + 1
               so1 == u.sinceOffer + 1
    <2>1. ns1 \in Nat /\ so1 \in Nat
      BY <1>3 DEF Session
    <2>2. Encrypt(s, id).state = [u EXCEPT !.ns = ns1, !.sinceOffer = so1,
                                           !.lastAction = "send"]
      BY <1>4
    <2> HIDE DEF ns1, so1
    <2> QED
      BY ZenonT(40), <1>3, <2>1, <2>2 DEF Session
  <1>7. Encrypt(s, id).msg \in Message
    BY <1>3, <1>5 DEF Session, Message, NoKey
  <1> QED
    BY <1>6, <1>7

(* skipTo keeps a session record one. *)
LEMMA SkipToType ==
  ASSUME NEW s \in Session, NEW target \in Nat
  PROVE  SkipTo(s, target) \in Session
  <1>1. Gap(s, target) \subseteq SkipEntry
    BY DEF Gap, SkipEntry, Session
  <1> QED
    BY <1>1 DEF SkipTo, Session

(* So does a decrypt that succeeds: the only root it adopts is the one the
   body was sealed under. *)
LEMMA DecryptType ==
  ASSUME NEW s \in Session, NEW m \in Message, Decrypts(s, m)
  PROVE  Decrypt(s, m) \in Session /\ Decrypt(s, m).role = s.role
  <1>1. CASE InCache(s, m)
    BY <1>1 DEF Decrypt, ServeFromCache, Session
  <1>2. CASE ~InCache(s, m)
    <2> DEFINE e == EnterTurn(s, m)
               f == SkipTo(e, m.pn)
               c == Scratch(s, m)
    <2>1. e \in Session /\ e.role = s.role
      BY DEF EnterTurn, Session, Message
    <2>2. f \in Session /\ f.role = s.role
      BY <2>1, SkipToType DEF Message, SkipTo, Session
    <2>3. c.ckr = m.chain
      BY <1>2 DEF Decrypts, OpensAhead
    <2>4. c \in Session /\ c.role = s.role
      <3>1. CASE IsAccept(m)
        <4>1. c = RollReceiving(f, m)
          BY <3>1 DEF Scratch
        <4> HIDE DEF c, f
        <4> DEFINE rolled == RootStep(f.rk, Decapsulate(f, m))
                   next == f.recvChainId + 1
        <4>2. c = [f EXCEPT !.rk = rolled, !.ckr = rolled, !.nr = 0,
                            !.recvChainId = next, !.nhkr = {rolled}]
          BY <4>1 DEF RollReceiving
        <4>4. next \in Nat
          BY <2>2 DEF Session
        <4> HIDE DEF rolled, next
        <4>3. rolled = m.chain
          BY <4>2, <2>2, <2>3 DEF Session
        <4> QED
          BY ZenonT(40), <4>2, <4>3, <4>4, <2>2 DEF Session, Message
      <3>2. CASE ~IsAccept(m)
        BY <3>2, <2>1 DEF Scratch
      <3> QED
        BY <3>1, <3>2
    <2> HIDE DEF c
    <2>5. SkipTo(c, m.n) \in Session /\ SkipTo(c, m.n).role = s.role
      BY <2>4, SkipToType DEF Message, SkipTo, Session
    <2> DEFINE w == SkipTo(c, m.n)
               nr1 == m.n + 1
               pk1 == IF m.kemPk # NoKey THEN m.kemPk ELSE w.peerKem
    <2>6. Decrypt(s, m) = [w EXCEPT !.nr = nr1, !.peerKem = pk1,
                                    !.lastAction = "recv"]
      BY <1>2 DEF Decrypt, Advance, c
    <2>7. nr1 \in Nat /\ pk1 \in Nat
      BY <2>5 DEF Session, Message
    <2> HIDE DEF w, nr1, pk1
    <2> QED
      BY ZenonT(40), <2>5, <2>6, <2>7 DEF Session, w
  <1> QED
    BY <1>1, <1>2

-----------------------------------------------------------------------------
(* What the two operations do to the fields the invariants speak of. *)

(* The receiving side is untouched by a send, the sending chain either goes
   on or is replaced by one derived from a root that ends in a new secret. *)
LEMMA EncryptEffect ==
  ASSUME NEW s \in Session, NEW id \in Nat \ {0}
  PROVE  LET t == Encrypt(s, id).state
             m == Encrypt(s, id).msg
             rolled == Append(s.rk, <<s.role, id>>)
         IN  /\ t.ckr = s.ckr /\ t.nr = s.nr /\ t.skipped = s.skipped
             /\ t.recvChainId = s.recvChainId
             /\ m.from = s.role /\ m.id = id
             /\ m.chain = t.cks /\ t.ns = m.n + 1
             /\ \/ t.rk = s.rk /\ t.cks = s.cks /\ m.n = s.ns
                \/ t.rk = rolled /\ t.cks = rolled
  <1> DEFINE t == StartTurn(s, id)
             u == MakeOffer(t, id, FreshOffer(s))
  <1>1. /\ t.ckr = s.ckr /\ t.nr = s.nr /\ t.skipped = s.skipped
        /\ t.recvChainId = s.recvChainId /\ t.role = s.role
        /\ \/ t.rk = s.rk /\ t.cks = s.cks /\ t.ns = s.ns
           \/ /\ t.rk = Append(s.rk, <<s.role, id>>)
              /\ t.cks = Append(s.rk, <<s.role, id>>)
        /\ DOMAIN t = DOMAIN s
    BY DEF StartTurn, RootStep, Session
  <1> HIDE DEF t
  <1>2. /\ u.ckr = t.ckr /\ u.nr = t.nr /\ u.skipped = t.skipped
        /\ u.recvChainId = t.recvChainId /\ u.role = t.role
        /\ u.rk = t.rk /\ u.cks = t.cks /\ u.ns = t.ns
        /\ DOMAIN u = DOMAIN s
    BY <1>1 DEF MakeOffer, Session
  <1> HIDE DEF u
  <1>3. Encrypt(s, id).state = [u EXCEPT !.ns = @ + 1, !.sinceOffer = @ + 1,
                                         !.lastAction = "send"]
    BY DEF Encrypt, u, t
  <1>4. Encrypt(s, id).msg =
          [from |-> u.role, id |-> id, hk |-> u.hks, chain |-> u.cks,
           n |-> u.ns, pn |-> u.pn, kemPk |-> u.sendKem,
           kemTo |-> IF Accepts(s) THEN s.peerKem ELSE NoKey]
    BY DEF Encrypt, u, t
  <1>5. /\ Encrypt(s, id).state.ckr = u.ckr
        /\ Encrypt(s, id).state.nr = u.nr
        /\ Encrypt(s, id).state.skipped = u.skipped
        /\ Encrypt(s, id).state.recvChainId = u.recvChainId
        /\ Encrypt(s, id).state.rk = u.rk
        /\ Encrypt(s, id).state.cks = u.cks
        /\ Encrypt(s, id).state.ns = u.ns + 1
    BY <1>2, <1>3 DEF Session
  <1>6. /\ Encrypt(s, id).msg.from = u.role
        /\ Encrypt(s, id).msg.id = id
        /\ Encrypt(s, id).msg.chain = u.cks
        /\ Encrypt(s, id).msg.n = u.ns
    BY <1>4
  <1> QED
    BY <1>1, <1>2, <1>5, <1>6

(* skipTo moves nr forward to the target and caches the positions passed. *)
LEMMA SkipToEffect ==
  ASSUME NEW s \in Session, NEW target \in Nat
  PROVE  LET t == SkipTo(s, target)
         IN  /\ t.rk = s.rk /\ t.ckr = s.ckr /\ t.cks = s.cks /\ t.ns = s.ns
             /\ t.recvChainId = s.recvChainId /\ t.sendKem = s.sendKem
             /\ t.nr = IF target <= s.nr THEN s.nr ELSE target
             /\ t.skipped = s.skipped \cup Gap(s, target)
  <1>1. target <= s.nr => Gap(s, target) = {}
    BY DEF Gap, Session
  <1> QED
    BY <1>1 DEF SkipTo, Session

(* A decrypt from the cache removes the one entry it used. *)
LEMMA CacheEffect ==
  ASSUME NEW s \in Session, NEW m \in Message, Decrypts(s, m), InCache(s, m)
  PROVE  LET t == Decrypt(s, m)
         IN  /\ t.ckr = s.ckr /\ t.nr = s.nr /\ t.recvChainId = s.recvChainId
             /\ t.rk = s.rk /\ t.cks = s.cks /\ t.ns = s.ns
             /\ <<s.recvChainId, m.n, m.chain>> \in s.skipped
             /\ t.skipped = s.skipped \ {<<s.recvChainId, m.n, m.chain>>}
  BY DEF Decrypt, Decrypts, OpensFromCache, ServeFromCache, CacheEntry, Session

(* Any other decrypt moves the frontier just past m on m's own chain, which
   is the current one, or the one an accept has just opened. *)
LEMMA AdvanceEffect ==
  ASSUME NEW s \in Session, NEW m \in Message, Decrypts(s, m), ~InCache(s, m)
  PROVE  LET t == Decrypt(s, m)
         IN  /\ t.cks = s.cks /\ t.ns = s.ns
             /\ t.ckr = m.chain /\ t.nr = m.n + 1
             /\ \/ /\ ~IsAccept(m)
                   /\ t.ckr = s.ckr /\ t.rk = s.rk /\ s.nr <= m.n
                   /\ t.recvChainId = s.recvChainId
                   /\ t.skipped = s.skipped \cup Gap(s, m.n)
                   /\ SkipFits(s, m.n)
                \/ /\ IsAccept(m)
                   /\ t.rk = m.chain /\ Len(m.chain) = Len(s.rk) + 1
                   /\ t.recvChainId = s.recvChainId + 1
                   /\ SkipFits(s, m.pn)
                   /\ t.skipped = (s.skipped \cup Gap(s, m.pn)) \cup
                        {<<s.recvChainId + 1, i, m.chain>> : i \in 0..(m.n - 1)}
                   /\ \/ m.n = 0
                      \/ Cardinality(s.skipped \cup Gap(s, m.pn)) + m.n <= MaxSkip
  <1> DEFINE e == EnterTurn(s, m)
             f == SkipTo(e, m.pn)
             c == Scratch(s, m)
             w == SkipTo(c, m.n)
             t == Decrypt(s, m)
  <1>1. /\ Readable(s, m)
        /\ UsesNext(s, m) => IsAccept(m)
        /\ IsAccept(m) => SkipFits(s, m.pn)
        /\ c.nr <= m.n
        /\ SkipFits(c, m.n)
        /\ c.ckr = m.chain
    BY DEF Decrypts, OpensAhead
  <1>2. /\ e \in Session /\ e.rk = s.rk /\ e.ckr = s.ckr /\ e.cks = s.cks
        /\ e.ns = s.ns /\ e.recvChainId = s.recvChainId /\ e.nr = s.nr
        /\ e.skipped = s.skipped
    BY DEF EnterTurn, Session, Message
  <1>3. c \in Session
    <2>1. CASE IsAccept(m)
      <3>1. f \in Session
        BY <1>2, SkipToType DEF Message
      <3>2. c = RollReceiving(f, m)
        BY <2>1 DEF Scratch
      <3> HIDE DEF c, f
      <3> DEFINE rolled == RootStep(f.rk, Decapsulate(f, m))
                 next == f.recvChainId + 1
      <3>3. c = [f EXCEPT !.rk = rolled, !.ckr = rolled, !.nr = 0,
                          !.recvChainId = next, !.nhkr = {rolled}]
        BY <3>2 DEF RollReceiving
      <3>4. next \in Nat
        BY <3>1 DEF Session
      <3> HIDE DEF rolled, next
      <3>5. rolled = m.chain
        BY <3>1, <3>3, <1>1 DEF Session
      <3> QED
        BY ZenonT(40), <3>1, <3>3, <3>4, <3>5 DEF Session, Message
    <2>2. CASE ~IsAccept(m)
      BY <2>2, <1>2 DEF Scratch
    <2> QED
      BY <2>1, <2>2
  <1>4. t = [w EXCEPT !.nr = m.n + 1,
                      !.peerKem = IF m.kemPk # NoKey THEN m.kemPk ELSE @,
                      !.lastAction = "recv"]
    BY DEF Decrypt, Advance
  <1>5. w \in Session
    BY <1>3, SkipToType DEF Message
  <1> HIDE DEF w, t, c
  <1>6. /\ t.cks = w.cks /\ t.ns = w.ns /\ t.ckr = w.ckr /\ t.nr = m.n + 1
        /\ t.rk = w.rk /\ t.recvChainId = w.recvChainId
        /\ t.skipped = w.skipped
    BY <1>4, <1>5 DEF Session
  <1>7. /\ w.cks = c.cks /\ w.ns = c.ns /\ w.ckr = c.ckr /\ w.rk = c.rk
        /\ w.recvChainId = c.recvChainId
        /\ w.skipped = c.skipped \cup Gap(c, m.n)
    BY <1>3, SkipToEffect DEF Message, w
  <1>8. CASE IsAccept(m)
    <2>1. f \in Session
      BY <1>2, SkipToType DEF Message
    <2>2. c = RollReceiving(f, m)
      BY <1>8 DEF Scratch, c
    <2>3. /\ f.rk = s.rk /\ f.ckr = s.ckr /\ f.cks = s.cks /\ f.ns = s.ns
          /\ f.recvChainId = s.recvChainId
          /\ f.skipped = s.skipped \cup Gap(s, m.pn)
      BY <1>2, SkipToEffect DEF Message, Gap
    <2> HIDE DEF f
    <2>4. /\ c.cks = f.cks /\ c.ns = f.ns /\ c.nr = 0
          /\ c.recvChainId = f.recvChainId + 1 /\ c.skipped = f.skipped
          /\ c.rk = c.ckr /\ c.ckr = Append(f.rk, Decapsulate(f, m))
      BY <2>1, <2>2 DEF RollReceiving, RootStep, Session
    <2>5. Len(m.chain) = Len(s.rk) + 1
      <3>1. s.rk \in Seq(Role \X Nat)
        BY DEF Session, Root, Secret
      <3>2. Decapsulate(f, m) \in Role \X Nat
        BY DEF Decapsulate, Message
      <3>3. m.chain = Append(s.rk, Decapsulate(f, m))
        BY <2>3, <2>4, <1>1
      <3> DEFINE S == Role \X Nat
                 d == Decapsulate(f, m)
      <3>4. s.rk \in Seq(S) /\ d \in S
        BY <3>1, <3>2
      <3> HIDE DEF S, d
      <3>5. Len(Append(s.rk, d)) = Len(s.rk) + 1
        BY <3>4
      <3> QED
        BY <3>3, <3>5 DEF d
    <2>6. Gap(c, m.n) = {<<s.recvChainId + 1, i, m.chain>> : i \in 0..(m.n - 1)}
      BY <1>1, <2>3, <2>4 DEF Gap
    <2>7. m.n = 0 \/ Cardinality(c.skipped) + m.n <= MaxSkip
      <3>1. m.n - c.nr = m.n /\ (m.n <= c.nr => m.n = 0)
        BY <2>4 DEF Message
      <3> QED
        BY <1>1, <3>1 DEF SkipFits
    <2>8. /\ t.ckr = m.chain /\ t.rk = m.chain
          /\ t.recvChainId = s.recvChainId + 1
          /\ t.cks = s.cks /\ t.ns = s.ns
      BY <1>1, <1>6, <1>7, <2>3, <2>4
    <2>9. t.skipped = (s.skipped \cup Gap(s, m.pn)) \cup
                       {<<s.recvChainId + 1, i, m.chain>> : i \in 0..(m.n - 1)}
      BY <1>6, <1>7, <2>3, <2>4, <2>6
    <2>10. \/ m.n = 0
           \/ Cardinality(s.skipped \cup Gap(s, m.pn)) + m.n <= MaxSkip
      BY <2>3, <2>4, <2>7
    <2>11. SkipFits(s, m.pn)
      BY <1>1, <1>8
    <2> QED
      BY <1>6, <1>8, <2>5, <2>8, <2>9, <2>10, <2>11 DEF t
  <1>9. CASE ~IsAccept(m)
    <2>1. c = s
      BY <1>1, <1>9 DEF Scratch, EnterTurn, c
    <2>2. /\ t.ckr = s.ckr /\ t.ckr = m.chain /\ t.rk = s.rk /\ s.nr <= m.n
          /\ t.recvChainId = s.recvChainId
          /\ t.cks = s.cks /\ t.ns = s.ns
      BY <1>1, <1>6, <1>7, <2>1
    <2>3. t.skipped = s.skipped \cup Gap(s, m.n)
      BY <1>6, <1>7, <2>1
    <2>4. SkipFits(s, m.n)
      BY <1>1, <2>1
    <2> QED
      BY <1>6, <1>9, <2>2, <2>3, <2>4 DEF t
  <1> QED
    BY <1>8, <1>9
-----------------------------------------------------------------------------
(* Sizes of what skipTo puts in the cache. *)

Span(c, chain, a, b) == {<<c, i, chain>> : i \in a..(b - 1)}

LEMMA SpanSize ==
  ASSUME NEW c, NEW chain, NEW a \in Nat, NEW b \in Nat
  PROVE  /\ IsFiniteSet(Span(c, chain, a, b)) /\ Cardinality(Span(c, chain, a, b)) \in Nat
         /\ Cardinality(Span(c, chain, a, b)) <= IF b <= a THEN 0 ELSE b - a
  <1> DEFINE S == a..(b - 1)
             T == {<<c, i, chain>> : i \in S}
             f == [i \in S |-> <<c, i, chain>>]
  <1>1. IsFiniteSet(S) /\ Cardinality(S) = IF b <= a THEN 0 ELSE b - a
    <2>1. a \in Int /\ b - 1 \in Int
      OBVIOUS
    <2>2. IsFiniteSet(S) /\ Cardinality(S) = IF a > b - 1 THEN 0 ELSE (b - 1) - a + 1
      BY <2>1, FS_Interval
    <2> QED
      BY <2>2
  <1>2. f \in Surjection(S, T)
    BY DEF Surjection
  <1> HIDE DEF S, T, f
  <1>3. IsFiniteSet(T) /\ Cardinality(T) <= Cardinality(S)
    BY <1>1, <1>2, FS_Surjection
  <1>4. Cardinality(T) \in Nat
    BY <1>3, FS_CardinalityType
  <1> QED
    BY <1>1, <1>3, <1>4 DEF S, T, Span

LEMMA UnionSize ==
  ASSUME NEW S, IsFiniteSet(S), NEW T, IsFiniteSet(T)
  PROVE  /\ IsFiniteSet(S \cup T)
         /\ Cardinality(S \cup T) <= Cardinality(S) + Cardinality(T)
         /\ {Cardinality(S), Cardinality(T), Cardinality(S \cup T)} \subseteq Nat
  <1>1. IsFiniteSet(S \cap T)
    BY FS_Subset
  <1>2. /\ Cardinality(S) \in Nat /\ Cardinality(T) \in Nat
        /\ Cardinality(S \cap T) \in Nat
    BY <1>1, FS_CardinalityType
  <1>3. /\ IsFiniteSet(S \cup T)
        /\ Cardinality(S \cup T) =
             Cardinality(S) + Cardinality(T) - Cardinality(S \cap T)
    BY FS_Union
  <1>4. Cardinality(S \cup T) \in Nat
    BY <1>3, FS_CardinalityType
  <1> QED
    BY <1>2, <1>3, <1>4

(* A gap that fits keeps the cache within its bound. *)
LEMMA GapSize ==
  ASSUME NEW s \in Session, NEW target \in Nat, IsFiniteSet(s.skipped),
         Cardinality(s.skipped) <= MaxSkip, SkipFits(s, target)
  PROVE  /\ IsFiniteSet(s.skipped \cup Gap(s, target))
         /\ Cardinality(s.skipped \cup Gap(s, target)) <= MaxSkip
  <1>1. s.nr \in Nat
    BY DEF Session
  <1>2. /\ IsFiniteSet(Gap(s, target)) /\ Cardinality(Gap(s, target)) \in Nat
        /\ Cardinality(Gap(s, target)) <= IF target <= s.nr THEN 0 ELSE target - s.nr
    <2>1. Gap(s, target) = Span(s.recvChainId, s.ckr, s.nr, target)
      BY DEF Gap, Span
    <2> QED
      BY <1>1, <2>1, SpanSize
  <1> DEFINE G == Gap(s, target)
  <1> HIDE DEF G
  <1>3. /\ IsFiniteSet(s.skipped \cup G)
        /\ Cardinality(s.skipped \cup G) <= Cardinality(s.skipped) + Cardinality(G)
        /\ Cardinality(s.skipped) \in Nat
        /\ Cardinality(s.skipped \cup G) \in Nat
    BY <1>2, UnionSize DEF G
  <1>4. Cardinality(s.skipped) + Cardinality(G) <= MaxSkip
    <2>1. CASE target <= s.nr
      BY <1>1, <1>2, <1>3, <2>1, RatchetBounds DEF G
    <2>2. CASE ~(target <= s.nr)
      <3>1. Cardinality(s.skipped) + (target - s.nr) <= MaxSkip
        BY <2>2 DEF SkipFits
      <3> QED
        BY <1>1, <1>2, <1>3, <2>2, <3>1, RatchetBounds DEF G
    <2> QED
      BY <2>1, <2>2
  <1> QED
    BY <1>2, <1>3, <1>4, RatchetBounds DEF G

-----------------------------------------------------------------------------
(* The inductive invariant, one lemma per action. *)

LEMMA InitIInv == Init => IInv
  <1> SUFFICES ASSUME Init PROVE IInv
    OBVIOUS
  <1>1. \A r \in Role : InitRatchet(r) \in Session
    BY InitRatchetType
  <1>2. \A r \in Role :
          /\ st[r].role = r
          /\ st[r].rk = <<>> /\ st[r].cks = <<>> /\ st[r].ckr = <<>>
          /\ st[r].skipped = {} /\ sent[r] = {} /\ net[r] = {} /\ got[r] = {}
    BY DEF Init, InitRatchet
  <1>3. TypeOK
    BY <1>1 DEF Init, TypeOK
  <1>4. Bookkeeping
    BY <1>2, PeerIsRole DEF Bookkeeping, Known
  <1>5. NoKeyReuse
    BY <1>2 DEF NoKeyReuse
  <1>6. Frontier
    <2>1. Len(<<>>) <= Len(<<>>)
      OBVIOUS
    <2> QED
      BY <1>2, <2>1 DEF Frontier
  <1>7. FiniteCache /\ SkipBounded
    <2>1. IsFiniteSet({}) /\ Cardinality({}) = 0
      BY FS_EmptySet
    <2>2. \A r \in Role : IsFiniteSet(st[r].skipped) /\ Cardinality(st[r].skipped) = 0
      BY <1>2, <2>1, Zenon
    <2> QED
      BY <2>2, RatchetBounds DEF FiniteCache, SkipBounded
  <1> QED
    BY <1>3, <1>4, <1>5, <1>6, <1>7 DEF IInv

(* A send: the new message sits on the current chain past every earlier one,
   or on a chain whose root ends in a secret no earlier root contains. *)
LEMMA SendIInv ==
  ASSUME IInv, NEW r \in Role, NEW accepted \in BOOLEAN, SendStep(r, accepted)
  PROVE  IInv'
  <1> DEFINE s == st[r]
             id == serial[r] + 1
             t == Encrypt(s, id).state
             m == Encrypt(s, id).msg
             rolled == Append(s.rk, <<r, id>>)
  <1>1. s \in Session /\ s.role = r /\ id \in Nat \ {0} /\ serial[r] \in Nat
    BY DEF IInv, TypeOK, Bookkeeping
  <1>2. /\ st' = [st EXCEPT ![r] = t] /\ serial' = [serial EXCEPT ![r] = id]
        /\ sent' = [sent EXCEPT ![r] = @ \cup {m}] /\ got' = got
        /\ net' = [net EXCEPT ![Peer(r)] = @ \cup {m}] \/ net' = net
    BY DEF SendStep
  <1>3. t \in Session /\ t.role = r /\ m \in Message
    BY <1>1, EncryptType
  <1>4. /\ t.ckr = s.ckr /\ t.nr = s.nr /\ t.skipped = s.skipped
        /\ t.recvChainId = s.recvChainId
        /\ m.chain = t.cks /\ t.ns = m.n + 1
        /\ \/ t.rk = s.rk /\ t.cks = s.cks /\ m.n = s.ns
           \/ t.rk = rolled /\ t.cks = rolled
    <2> DEFINE grown == Append(s.rk, <<s.role, id>>)
    <2>1. /\ t.ckr = s.ckr /\ t.nr = s.nr /\ t.skipped = s.skipped
          /\ t.recvChainId = s.recvChainId
          /\ m.chain = t.cks /\ t.ns = m.n + 1
          /\ \/ t.rk = s.rk /\ t.cks = s.cks /\ m.n = s.ns
             \/ t.rk = grown /\ t.cks = grown
      <3> HIDE DEF s, id
      <3> QED
        BY <1>1, EncryptEffect
    <2>2. grown = rolled
      BY <1>1
    <2> HIDE DEF grown, rolled, t, m
    <2> QED
      BY <2>1, <2>2
  <1> HIDE DEF t, m
  <1>5. TypeOK'
    BY <1>1, <1>2, <1>3, PeerIsRole DEF IInv, TypeOK
  <1>6. st'[r] = t /\ \A q \in Role : q # r => st'[q] = st[q]
    BY <1>2 DEF IInv, TypeOK
  <1>7. FiniteCache' /\ SkipBounded'
    BY <1>4, <1>6 DEF IInv, FiniteCache, SkipBounded
  <1>8. Frontier'
    <2>1. Len(s.rk) \in Nat /\ Len(t.rk) >= Len(s.rk)
      <3>1. s.rk \in Root /\ <<r, id>> \in Secret
        BY <1>1 DEF Session, Secret
      <3>2. Len(s.rk) \in Nat /\ Len(rolled) = Len(s.rk) + 1
        BY <3>1 DEF Root
      <3> QED
        BY <1>4, <3>2
    <2>2. Len(s.ckr) \in Nat
      BY <1>1 DEF Session, Root
    <2>3. /\ st'[r].ckr = s.ckr /\ st'[r].nr = s.nr /\ st'[r].skipped = s.skipped
          /\ st'[r].recvChainId = s.recvChainId /\ got' = got
      BY <1>2, <1>4, <1>6
    <2>4. Len(s.ckr) <= Len(s.rk)
      BY DEF IInv, Frontier
    <2>5. Len(st'[r].ckr) <= Len(st'[r].rk)
      BY <1>6, <2>1, <2>2, <2>3, <2>4
    <2>6. \A q \in Role : Len(st'[q].ckr) <= Len(st'[q].rk)
      BY <1>6, <2>5 DEF IInv, Frontier
    <2>7. \A q \in Role : /\ st'[q].ckr = st[q].ckr /\ st'[q].nr = st[q].nr
                          /\ st'[q].skipped = st[q].skipped
                          /\ st'[q].recvChainId = st[q].recvChainId
      BY <1>6, <2>3
    <2> HIDE DEF s
    <2> QED
      BY <2>3, <2>6, <2>7 DEF IInv, Frontier
  <1>9. \A root \in Root : Known(serial, root) => Known(serial', root) /\ root # rolled
    <2> SUFFICES ASSUME NEW root \in Root, Known(serial, root)
                 PROVE  Known(serial', root) /\ root # rolled
      OBVIOUS
    <2>1. \A i \in DOMAIN root : root[i] \in Secret
      BY DEF Root
    <2>2. \A q \in Role : serial[q] \in Nat /\ serial[q] <= serial'[q]
      BY <1>1, <1>2 DEF IInv, TypeOK
    <2>3. Known(serial', root)
      BY <2>1, <2>2, <1>2 DEF Known, Secret, IInv, TypeOK
    <2>4. root # rolled
      <3>1. s.rk \in Root /\ <<r, id>> \in Secret
        BY <1>1 DEF Session, Secret
      <3>2. Len(rolled) \in DOMAIN rolled /\ rolled[Len(rolled)] = <<r, id>>
        BY <3>1 DEF Root
      <3> QED
        BY <3>2, <1>1 DEF Known
    <2> QED
      BY <2>3, <2>4
  <1>10. rolled \in Root /\ Known(serial', rolled)
    <2>1. s.rk \in Root /\ <<r, id>> \in Secret /\ Known(serial, s.rk)
      BY <1>1 DEF Session, Secret, IInv, Bookkeeping
    <2>2. rolled \in Root
      BY <2>1 DEF Root
    <2>3. Known(serial', s.rk) /\ serial'[r] = id
      BY <2>1, <1>2, <1>9 DEF IInv, TypeOK
    <2>4. ASSUME NEW i \in DOMAIN rolled
          PROVE  \/ rolled[i] = <<r, id>>
                 \/ i \in DOMAIN s.rk /\ rolled[i] = s.rk[i]
      BY <2>1 DEF Root
    <2>5. id <= id
      BY <1>1
    <2> QED
      BY <2>2, <2>3, <2>4, <2>5 DEF Known
  <1>11. \A q \in Role : Known(serial', st'[q].rk) /\ Known(serial', st'[q].cks)
    <2> SUFFICES ASSUME NEW q \in Role
                 PROVE  Known(serial', st'[q].rk) /\ Known(serial', st'[q].cks)
      OBVIOUS
    <2>1. /\ st[q].rk \in Root /\ Known(serial, st[q].rk)
          /\ st[q].cks \in Root /\ Known(serial, st[q].cks)
      BY DEF IInv, Bookkeeping, TypeOK, Session
    <2>2. Known(serial', st[q].rk) /\ Known(serial', st[q].cks)
      BY <2>1, <1>9
    <2> QED
      BY <2>2, <1>4, <1>6, <1>10
  <1>12. \A a \in sent[r] : a.chain = t.cks => a.n < m.n
    <2> SUFFICES ASSUME NEW a \in sent[r], a.chain = t.cks PROVE a.n < m.n
      OBVIOUS
    <2>1. a.chain \in Root /\ Known(serial, a.chain) /\ (a.chain = s.cks => a.n < s.ns)
      BY DEF IInv, Bookkeeping, TypeOK, Message
    <2> QED
      BY <2>1, <1>4, <1>9
  <1>13. Bookkeeping'
    <2> SUFFICES ASSUME NEW q \in Role
                 PROVE  /\ st'[q].role = q
                        /\ net'[q] \cup got'[q] \subseteq sent'[Peer(q)]
                        /\ \A a \in sent'[q] :
                             /\ Known(serial', a.chain)
                             /\ a.chain = st'[q].cks => a.n < st'[q].ns
      BY <1>11 DEF Bookkeeping
    <2>1. st'[q].role = q
      BY <1>3, <1>6 DEF IInv, Bookkeeping
    <2>2. net'[q] \cup got'[q] \subseteq sent'[Peer(q)]
      <3>1. net[q] \cup got[q] \subseteq sent[Peer(q)]
        BY DEF IInv, Bookkeeping
      <3>2. Peer(r) \in Role /\ Peer(Peer(r)) = r /\ Peer(q) \in Role
        BY DEF Peer, Role
      <3> QED
        BY <1>2, <3>1, <3>2 DEF IInv, TypeOK
    <2>3. ASSUME NEW a \in sent'[q]
          PROVE  /\ Known(serial', a.chain)
                 /\ a.chain = st'[q].cks => a.n < st'[q].ns
      <3>1. CASE a \in sent[q]
        <4>1. /\ a.chain \in Root /\ Known(serial, a.chain) /\ a.n \in Nat
              /\ a.chain = st[q].cks => a.n < st[q].ns
          BY <3>1 DEF IInv, Bookkeeping, TypeOK, Message
        <4>2. Known(serial', a.chain)
          BY <4>1, <1>9
        <4>3. m.n \in Nat
          BY <1>3 DEF Message
        <4> QED
          BY <3>1, <4>1, <4>2, <4>3, <1>4, <1>6, <1>12
      <3>2. CASE a \notin sent[q]
        <4>1. q = r /\ a = m
          BY <3>2, <1>2 DEF IInv, TypeOK
        <4>2. m.n \in Nat
          BY <1>3 DEF Message
        <4> QED
          BY <4>1, <4>2, <1>4, <1>6, <1>11
      <3> QED
        BY <3>1, <3>2
    <2> QED
      BY <2>1, <2>2, <2>3
  <1>14. NoKeyReuse'
    <2> SUFFICES ASSUME NEW q \in Role, NEW a \in sent'[q], NEW b \in sent'[q],
                        a.chain = b.chain, a.n = b.n
                 PROVE  a = b
      BY DEF NoKeyReuse
    <2>1. CASE a \in sent[q] /\ b \in sent[q]
      BY <2>1 DEF IInv, NoKeyReuse
    <2>2. CASE ~(a \in sent[q] /\ b \in sent[q])
      <3>1. q = r /\ a \in sent[r] \cup {m} /\ b \in sent[r] \cup {m}
        BY <2>2, <1>2 DEF IInv, TypeOK
      <3>2. m.n \in Nat
        BY <1>3 DEF Message
      <3> QED
        BY <2>2, <3>1, <3>2, <1>4, <1>12
    <2> QED
      BY <2>1, <2>2
  <1> QED
    BY <1>5, <1>7, <1>8, <1>13, <1>14 DEF IInv
(* What a successful decrypt does to the frontier: the cases of the cache,
   of the current chain and of an accept. *)
LEMMA FrontierStep ==
  ASSUME IInv, NEW r \in Role, NEW m \in net[r], Decrypts(st[r], m)
  PROVE  LET s == st[r]
             t == Decrypt(s, m)
         IN  /\ Len(t.ckr) <= Len(t.rk)
             /\ \A e \in t.skipped :
                  /\ e[1] <= t.recvChainId
                  /\ e[1] = t.recvChainId => e[2] < t.nr /\ e[3] = t.ckr
             /\ \A g \in got[r] \cup {m} :
                  \/ Len(g.chain) < Len(t.ckr)
                  \/ /\ g.chain = t.ckr
                     /\ g.n < t.nr
                     /\ <<t.recvChainId, g.n, g.chain>> \notin t.skipped
             /\ IsFiniteSet(t.skipped) /\ Cardinality(t.skipped) <= MaxSkip
             /\ Known(serial, t.rk) /\ t.cks = s.cks /\ t.ns = s.ns
  <1> DEFINE s == st[r]
             t == Decrypt(s, m)
  <1>1. s \in Session /\ m \in Message /\ Known(serial, m.chain) /\ Known(serial, s.rk)
    <2>1. Peer(r) \in Role /\ m \in sent[Peer(r)]
      BY PeerIsRole DEF IInv, Bookkeeping
    <2> QED
      BY <2>1 DEF IInv, TypeOK, Bookkeeping
  <1> HIDE DEF t
  <1>2. /\ Len(s.ckr) \in Nat /\ Len(s.rk) \in Nat /\ Len(s.ckr) <= Len(s.rk)
        /\ s.nr \in Nat /\ s.recvChainId \in Nat /\ m.n \in Nat /\ m.pn \in Nat
        /\ s.skipped \subseteq SkipEntry
    <2>1. /\ s.ckr \in Root /\ s.rk \in Root
          /\ s.nr \in Nat /\ s.recvChainId \in Nat /\ m.n \in Nat /\ m.pn \in Nat
          /\ s.skipped \subseteq SkipEntry
      BY <1>1 DEF Session, Message
    <2>2. Len(s.ckr) \in Nat /\ Len(s.rk) \in Nat
      BY <2>1 DEF Root
    <2>3. Len(s.ckr) <= Len(s.rk)
      BY DEF IInv, Frontier
    <2> QED
      BY <2>1, <2>2, <2>3
  <1>3. /\ \A e \in s.skipped :
             /\ e[1] <= s.recvChainId
             /\ e[1] = s.recvChainId => e[2] < s.nr /\ e[3] = s.ckr
        /\ \A g \in got[r] :
             /\ g \in Message
             /\ \/ Len(g.chain) < Len(s.ckr)
                \/ /\ g.chain = s.ckr
                   /\ g.n < s.nr
                   /\ <<s.recvChainId, g.n, g.chain>> \notin s.skipped
        /\ IsFiniteSet(s.skipped) /\ Cardinality(s.skipped) <= MaxSkip
    BY DEF IInv, TypeOK, Frontier, FiniteCache, SkipBounded
  <1>4. CASE InCache(s, m)
    <2> DEFINE x == <<s.recvChainId, m.n, m.chain>>
    <2>1. /\ t.ckr = s.ckr /\ t.nr = s.nr /\ t.recvChainId = s.recvChainId
          /\ t.rk = s.rk /\ t.cks = s.cks /\ t.ns = s.ns
          /\ x \in s.skipped /\ t.skipped = s.skipped \ {x}
      BY <1>1, <1>4, CacheEffect DEF t
    <2> HIDE DEF s
    <2>2. m.chain = s.ckr /\ m.n < s.nr
      BY <1>3, <2>1
    <2>3. IsFiniteSet(t.skipped) /\ Cardinality(t.skipped) <= MaxSkip
      <3>1. /\ IsFiniteSet(t.skipped) /\ Cardinality(t.skipped) \in Nat
            /\ Cardinality(t.skipped) <= Cardinality(s.skipped)
            /\ Cardinality(s.skipped) \in Nat
        BY <1>3, <2>1, FS_Subset, FS_CardinalityType
      <3> QED
        BY <3>1, <1>3, RatchetBounds
    <2> QED
      BY <1>1, <1>2, <1>3, <2>1, <2>2, <2>3 DEF s, t
  <1>5. CASE ~InCache(s, m) /\ ~IsAccept(m)
    <2>1. /\ t.cks = s.cks /\ t.ns = s.ns
          /\ t.ckr = m.chain /\ t.nr = m.n + 1
          /\ t.ckr = s.ckr /\ t.rk = s.rk /\ s.nr <= m.n
          /\ t.recvChainId = s.recvChainId
          /\ t.skipped = s.skipped \cup Gap(s, m.n)
          /\ SkipFits(s, m.n)
      BY <1>1, <1>5, AdvanceEffect DEF t
    <2>2. IsFiniteSet(t.skipped) /\ Cardinality(t.skipped) <= MaxSkip
      BY <1>1, <1>2, <1>3, <2>1, GapSize
    <2>3. \A e \in Gap(s, m.n) : /\ e[1] = s.recvChainId /\ e[3] = s.ckr
                                 /\ s.nr <= e[2] /\ e[2] < m.n
      BY <1>2 DEF Gap
    <2> HIDE DEF s
    <2>4. \A e \in t.skipped :
            /\ e[1] <= t.recvChainId
            /\ e[1] = t.recvChainId => e[2] < t.nr /\ e[3] = t.ckr
      <3>1. ASSUME NEW e \in s.skipped
            PROVE  /\ e[1] <= t.recvChainId
                   /\ e[1] = t.recvChainId => e[2] < t.nr /\ e[3] = t.ckr
        BY <1>2, <1>3, <2>1 DEF SkipEntry
      <3>2. ASSUME NEW e \in Gap(s, m.n)
            PROVE  /\ e[1] <= t.recvChainId /\ e[2] < t.nr /\ e[3] = t.ckr
        <4>1. e[2] \in Nat
          BY <1>2 DEF Gap
        <4> QED
          BY <1>2, <2>1, <2>3, <4>1
      <3> QED
        BY <2>1, <3>1, <3>2
    <2>5. \A g \in got[r] \cup {m} :
            \/ Len(g.chain) < Len(t.ckr)
            \/ /\ g.chain = t.ckr
               /\ g.n < t.nr
               /\ <<t.recvChainId, g.n, g.chain>> \notin t.skipped
      <3>1. ASSUME NEW g \in got[r]
            PROVE  \/ Len(g.chain) < Len(t.ckr)
                   \/ /\ g.chain = t.ckr /\ g.n < t.nr
                      /\ <<t.recvChainId, g.n, g.chain>> \notin t.skipped
        <4> DEFINE x == <<s.recvChainId, g.n, g.chain>>
        <4>1. CASE Len(g.chain) < Len(s.ckr)
          BY <2>1, <4>1
        <4>2. CASE g.chain = s.ckr /\ g.n < s.nr /\ x \notin s.skipped
          <5>1. x \notin Gap(s, m.n)
            BY <1>2, <1>3, <2>3, <4>2 DEF Message
          <5>2. g.n \in Nat
            BY <1>3 DEF Message
          <5>3. g.n < t.nr
            BY <1>2, <2>1, <4>2, <5>2
          <5> QED
            BY <2>1, <4>2, <5>1, <5>3
        <4> QED
          BY <1>3, <4>1, <4>2
      <3>2. <<s.recvChainId, m.n, m.chain>> \notin t.skipped
        BY <1>2, <1>3, <2>1, <2>3
      <3>3. m.chain = t.ckr /\ m.n < t.nr
        BY <1>2, <2>1
      <3>4. t.recvChainId = s.recvChainId
        BY <2>1
      <3> QED
        BY <3>1, <3>2, <3>3, <3>4
    <2> QED
      BY <1>1, <1>2, <2>1, <2>2, <2>4, <2>5 DEF s, t
  <1>6. CASE ~InCache(s, m) /\ IsAccept(m)
    <2> DEFINE next == s.recvChainId + 1
               old == s.skipped \cup Gap(s, m.pn)
               new == {<<next, i, m.chain>> : i \in 0..(m.n - 1)}
    <2>1. /\ t.cks = s.cks /\ t.ns = s.ns
          /\ t.ckr = m.chain /\ t.nr = m.n + 1
          /\ t.rk = m.chain /\ Len(m.chain) = Len(s.rk) + 1
          /\ t.recvChainId = next
          /\ SkipFits(s, m.pn)
          /\ t.skipped = old \cup new
          /\ \/ m.n = 0
             \/ Cardinality(old) + m.n <= MaxSkip
      BY <1>1, <1>6, AdvanceEffect DEF t
    <2>2. IsFiniteSet(old) /\ Cardinality(old) <= MaxSkip
      BY <1>1, <1>2, <1>3, <2>1, GapSize
    <2>3. \A e \in old : e[1] <= s.recvChainId
      <3>1. \A e \in Gap(s, m.pn) : e[1] = s.recvChainId
        BY DEF Gap
      <3> QED
        BY <1>2, <1>3, <3>1
    <2>4. \A e \in new : e[1] = next /\ e[2] \in Nat /\ e[2] < m.n /\ e[3] = m.chain
      BY SMTT(20), <1>2
    <2>5. /\ IsFiniteSet(new) /\ Cardinality(new) \in Nat
          /\ Cardinality(new) <= m.n
      <3> HIDE DEF next
      <3>1. /\ IsFiniteSet(new) /\ Cardinality(new) \in Nat
            /\ Cardinality(new) <= IF m.n <= 0 THEN 0 ELSE m.n - 0
        <4>1. 0 \in Nat /\ m.n \in Nat
          BY <1>2
        <4>2. new = Span(next, m.chain, 0, m.n)
          BY DEF Span
        <4> HIDE DEF new
        <4> QED
          BY <4>1, <4>2, SpanSize
      <3> HIDE DEF new
      <3> QED
        BY <1>2, <3>1
    <2>6. next \in Nat /\ s.recvChainId < next
      BY <1>2
    <2> HIDE DEF s, next, old, new
    <2>7. IsFiniteSet(t.skipped) /\ Cardinality(t.skipped) <= MaxSkip
      <3>1. /\ IsFiniteSet(t.skipped)
            /\ Cardinality(t.skipped) <= Cardinality(old) + Cardinality(new)
            /\ Cardinality(old) \in Nat /\ Cardinality(t.skipped) \in Nat
        BY <2>1, <2>2, <2>5, UnionSize
      <3> QED
        BY <1>2, <2>1, <2>2, <2>5, <3>1, RatchetBounds
    <2>8. \A e \in t.skipped :
            /\ e[1] <= t.recvChainId
            /\ e[1] = t.recvChainId => e[2] < t.nr /\ e[3] = t.ckr
      <3>1. ASSUME NEW e \in old
            PROVE  e[1] <= next /\ e[1] # next
        <4>1. e[1] \in Nat
          <5>1. \A x \in s.skipped : x[1] \in Nat
            BY <1>2 DEF SkipEntry
          <5>2. \A x \in Gap(s, m.pn) : x[1] \in Nat
            BY <1>2 DEF Gap
          <5> QED
            BY <5>1, <5>2 DEF old
        <4> QED
          BY <1>2, <2>3, <2>6, <4>1
      <3>2. ASSUME NEW e \in new
            PROVE  e[1] <= next /\ e[2] < m.n + 1 /\ e[3] = m.chain
        BY <1>2, <2>4, <2>6
      <3> QED
        BY <2>1, <3>1, <3>2
    <2>9. \A g \in got[r] : Len(g.chain) < Len(t.ckr)
      <3> SUFFICES ASSUME NEW g \in got[r] PROVE Len(g.chain) < Len(t.ckr)
        OBVIOUS
      <3>1. Len(g.chain) \in Nat
        BY <1>3 DEF Message, Root
      <3>2. Len(g.chain) < Len(s.ckr) \/ g.chain = s.ckr
        BY <1>3 DEF s
      <3> QED
        BY <1>2, <2>1, <3>1, <3>2
    <2>10. /\ m.chain = t.ckr /\ m.n < t.nr
           /\ <<t.recvChainId, m.n, m.chain>> \notin t.skipped
      <3>1. <<next, m.n, m.chain>> \notin old
        BY <1>2, <2>3, <2>6
      <3>2. <<next, m.n, m.chain>> \notin new
        BY <1>2, <2>4
      <3> QED
        BY <1>2, <2>1, <3>1, <3>2
    <2>11. Len(t.ckr) <= Len(t.rk)
      BY <1>2, <2>1
    <2> QED
      BY <1>1, <2>1, <2>7, <2>8, <2>9, <2>10, <2>11 DEF s, t
  <1> QED
    BY <1>4, <1>5, <1>6

(* A receive: by FrontierStep when the envelope opens; a failed one changes
   nothing but the queue. *)
LEMMA ReceiveIInv ==
  ASSUME IInv, NEW r \in Role, NEW m \in net[r], NEW acked \in BOOLEAN,
         Receive(r, m, acked)
  PROVE  IInv'
  <1> DEFINE s == st[r]
             t == Decrypt(s, m)
  <1>1. /\ serial' = serial /\ sent' = sent
        /\ \A q \in Role : net'[q] \subseteq net[q]
        /\ net' \in [Role -> SUBSET Message]
    BY DEF Receive, IInv, TypeOK
  <1>2. m \in Message /\ s \in Session /\ m \in sent[Peer(r)]
    BY DEF IInv, TypeOK, Bookkeeping
  <1>3. CASE ~Decrypts(s, m)
    <2>1. st' = st /\ got' = got
      BY <1>3 DEF Receive
    <2> QED
      BY <1>1, <2>1 DEF IInv, TypeOK, Bookkeeping, NoKeyReuse, Frontier,
                        FiniteCache, SkipBounded
  <1>4. CASE Decrypts(s, m)
    <2>1. /\ st' = [st EXCEPT ![r] = t]
          /\ got' = [got EXCEPT ![r] = @ \cup {m}]
      BY <1>4 DEF Receive
    <2>2. t \in Session /\ t.role = r
      BY <1>2, <1>4, DecryptType DEF IInv, Bookkeeping
    <2>3. /\ Len(t.ckr) <= Len(t.rk)
          /\ \A e \in t.skipped :
               /\ e[1] <= t.recvChainId
               /\ e[1] = t.recvChainId => e[2] < t.nr /\ e[3] = t.ckr
          /\ \A g \in got[r] \cup {m} :
               \/ Len(g.chain) < Len(t.ckr)
               \/ /\ g.chain = t.ckr
                  /\ g.n < t.nr
                  /\ <<t.recvChainId, g.n, g.chain>> \notin t.skipped
          /\ IsFiniteSet(t.skipped) /\ Cardinality(t.skipped) <= MaxSkip
          /\ Known(serial, t.rk) /\ t.cks = s.cks /\ t.ns = s.ns
      BY <1>4, FrontierStep
    <2> HIDE DEF t
    <2>4. /\ st'[r] = t /\ \A q \in Role : q # r => st'[q] = st[q]
          /\ got'[r] = got[r] \cup {m} /\ \A q \in Role : q # r => got'[q] = got[q]
      BY <2>1 DEF IInv, TypeOK
    <2>5. TypeOK'
      BY <1>1, <1>2, <2>1, <2>2 DEF IInv, TypeOK
    <2>6. NoKeyReuse'
      BY <1>1 DEF IInv, NoKeyReuse
    <2>7. Frontier'
      BY <2>3, <2>4 DEF IInv, Frontier
    <2>8. FiniteCache' /\ SkipBounded'
      BY <2>3, <2>4 DEF IInv, FiniteCache, SkipBounded
    <2>9. Bookkeeping'
      BY <1>1, <1>2, <2>2, <2>3, <2>4 DEF IInv, Bookkeeping
    <2> QED
      BY <2>5, <2>6, <2>7, <2>8, <2>9 DEF IInv
  <1> QED
    BY <1>3, <1>4

(* Every step of Spec, and every stuttering step, preserves the invariant. *)
LEMMA NextIInv == IInv /\ [Next]_vars => IInv'
  <1> SUFFICES ASSUME IInv, [Next]_vars PROVE IInv'
    OBVIOUS
  <1>1. ASSUME NEW r \in Role, Send(r) PROVE IInv'
    BY <1>1, SendIInv DEF Send
  <1>2. ASSUME NEW r \in Role, SendFails(r) PROVE IInv'
    BY <1>2, SendIInv DEF SendFails
  <1>3. ASSUME NEW r \in Role, NEW m \in net[r], NEW acked \in BOOLEAN,
               Receive(r, m, acked)
        PROVE  IInv'
    BY <1>3, ReceiveIInv
  <1>4. ASSUME NEW r \in Role, NEW m \in net[r], Expire(r, m) PROVE IInv'
    <2>1. /\ UNCHANGED <<st, serial, sent, got>>
          /\ \A q \in Role : net'[q] \subseteq net[q]
          /\ net' \in [Role -> SUBSET Message]
      BY <1>4 DEF Expire, IInv, TypeOK
    <2> QED
      BY <2>1 DEF IInv, TypeOK, Bookkeeping, NoKeyReuse, Frontier,
                  FiniteCache, SkipBounded
  <1>5. CASE UNCHANGED vars
    BY <1>5 DEF vars, IInv, TypeOK, Bookkeeping, NoKeyReuse, Frontier,
                FiniteCache, SkipBounded
  <1> QED
    BY <1>1, <1>2, <1>3, <1>4, <1>5 DEF Next

-----------------------------------------------------------------------------
(* The theorems. *)

(* What the sessions, the queues and the histories of two peers always
   satisfy, for every number of messages and every size of the cache. *)
THEOREM InvariantHolds == Spec => []IInv
  BY InitIInv, NextIInv, PTL DEF Spec

(* Type correctness: sessions stay well-formed and no root ever mixes in
   what a failed decapsulation returned. *)
THEOREM TypeCorrect == Spec => []TypeOK
  <1>1. IInv => TypeOK
    BY DEF IInv
  <1> QED
    BY <1>1, InvariantHolds, PTL

(* No message key is used for two messages (ratchetEncrypt). *)
THEOREM KeysNeverReused == Spec => []NoKeyReuse
  <1>1. IInv => NoKeyReuse
    BY DEF IInv
  <1> QED
    BY <1>1, InvariantHolds, PTL

(* The skip cache stays within MAX_SKIP (skipTo). *)
THEOREM SkipCacheBounded == Spec => []SkipBounded
  <1>1. IInv => SkipBounded
    BY DEF IInv
  <1> QED
    BY <1>1, InvariantHolds, PTL

(* What has been read lies behind the frontier, where nothing decrypts. *)
LEMMA ReadIsSpent == IInv => SpentOnce
  <1> SUFFICES ASSUME IInv, NEW r \in Role, NEW m \in got[r], Decrypts(st[r], m)
               PROVE  FALSE
    BY DEF SpentOnce
  <1> DEFINE s == st[r]
             t == Decrypt(s, m)
  <1>1. s \in Session /\ m \in Message
    BY DEF IInv, TypeOK
  <1>2. \/ Len(m.chain) < Len(s.ckr)
        \/ /\ m.chain = s.ckr
           /\ m.n < s.nr
           /\ <<s.recvChainId, m.n, m.chain>> \notin s.skipped
    BY DEF IInv, Frontier
  <1>3. Len(s.ckr) <= Len(s.rk)
    BY DEF IInv, Frontier
  <1>4. /\ Len(m.chain) \in Nat /\ Len(s.ckr) \in Nat /\ Len(s.rk) \in Nat
        /\ m.n \in Nat /\ s.nr \in Nat
    <2>1. m.chain \in Root /\ s.ckr \in Root /\ s.rk \in Root
          /\ m.n \in Nat /\ s.nr \in Nat
      BY <1>1 DEF Session, Message
    <2> QED
      BY <2>1 DEF Root
  <1>5. CASE InCache(s, m)
    <2>1. <<s.recvChainId, m.n, m.chain>> \in s.skipped
      BY <1>1, <1>5, CacheEffect
    <2>2. \A e \in s.skipped : e[1] = s.recvChainId => e[2] < s.nr /\ e[3] = s.ckr
      BY DEF IInv, Frontier
    <2>3. m.chain = s.ckr
      BY <2>1, <2>2
    <2> QED
      BY <1>2, <1>4, <2>1, <2>3
  <1>6. CASE ~InCache(s, m)
    <2> HIDE DEF s, t
    <2>1. \/ m.chain = s.ckr /\ s.nr <= m.n
          \/ Len(m.chain) = Len(s.rk) + 1
      <3>1. Decrypts(s, m)
        BY DEF s
      <3> QED
        BY <1>1, <1>6, <3>1, AdvanceEffect
    <2> QED
      BY <1>2, <1>3, <1>4, <2>1
  <1> QED
    BY <1>5, <1>6

(* A message that was read never decrypts again (ratchetDecrypt; the replay
   rule of processRatchetMessage). *)
THEOREM ReplayOpensNothing == Spec => []SpentOnce
  BY InvariantHolds, ReadIsSpent, PTL

-----------------------------------------------------------------------------
(* The fields the earlier lemmas leave out: a send. *)
LEMMA EncryptFields ==
  ASSUME NEW s \in Session, NEW id \in Nat \ {0}
  PROVE  LET t == Encrypt(s, id).state
             m == Encrypt(s, id).msg
             rolled == Append(s.rk, <<s.role, id>>)
         IN  /\ t.hkr = s.hkr /\ t.lastAction = "send"
             /\ m.hk = t.hks /\ m.kemPk = t.sendKem /\ m.pn = t.pn
             /\ IF Accepts(s)
                THEN /\ t.rk = rolled /\ t.cks = rolled /\ t.hks = s.rk
                     /\ t.nhkr = {rolled} /\ t.pn = s.ns /\ m.n = 0
                     /\ m.kemTo = s.peerKem
                ELSE /\ t.rk = s.rk /\ t.cks = s.cks /\ t.nhkr = s.nhkr
                     /\ t.hks = (IF NewTurn(s) THEN s.rk ELSE s.hks)
                     /\ m.n = s.ns /\ m.kemTo = NoKey
             /\ t.sendKem = (IF FreshOffer(s) THEN id ELSE s.sendKem)
  <1> DEFINE t == StartTurn(s, id)
             u == MakeOffer(t, id, FreshOffer(s))
             rolled == Append(s.rk, <<s.role, id>>)
  <1>1. /\ t.hkr = s.hkr /\ t.sendKem = s.sendKem
        /\ IF Accepts(s)
           THEN /\ t.rk = rolled /\ t.cks = rolled /\ t.hks = s.rk
                /\ t.nhkr = {rolled} /\ t.pn = s.ns /\ t.ns = 0
           ELSE /\ t.rk = s.rk /\ t.cks = s.cks /\ t.nhkr = s.nhkr
                /\ t.hks = (IF NewTurn(s) THEN s.rk ELSE s.hks)
                /\ t.ns = s.ns
        /\ DOMAIN t = DOMAIN s
    BY DEF StartTurn, RootStep, Session
  <1> HIDE DEF t, rolled
  <1>2. /\ u.hkr = t.hkr /\ u.rk = t.rk /\ u.cks = t.cks /\ u.hks = t.hks
        /\ u.nhkr = t.nhkr /\ u.pn = t.pn /\ u.ns = t.ns
        /\ u.sendKem = (IF FreshOffer(s) THEN id ELSE t.sendKem)
        /\ DOMAIN u = DOMAIN s
    BY <1>1 DEF MakeOffer, Session
  <1> HIDE DEF u
  <1>3. Encrypt(s, id).state = [u EXCEPT !.ns = @ + 1, !.sinceOffer = @ + 1,
                                         !.lastAction = "send"]
    BY DEF Encrypt, u, t
  <1>4. Encrypt(s, id).msg =
          [from |-> u.role, id |-> id, hk |-> u.hks, chain |-> u.cks,
           n |-> u.ns, pn |-> u.pn, kemPk |-> u.sendKem,
           kemTo |-> IF Accepts(s) THEN s.peerKem ELSE NoKey]
    BY DEF Encrypt, u, t
  <1> DEFINE v == Encrypt(s, id).state
             m == Encrypt(s, id).msg
  <1>5. /\ v.hkr = u.hkr /\ v.lastAction = "send" /\ v.hks = u.hks
        /\ v.sendKem = u.sendKem /\ v.pn = u.pn /\ v.rk = u.rk
        /\ v.cks = u.cks /\ v.nhkr = u.nhkr
    BY <1>2, <1>3 DEF Session
  <1>6. /\ m.hk = u.hks /\ m.kemPk = u.sendKem /\ m.pn = u.pn /\ m.n = u.ns
        /\ m.kemTo = IF Accepts(s) THEN s.peerKem ELSE NoKey
    BY <1>4
  <1> HIDE DEF v, m
  <1>7. v.sendKem = (IF FreshOffer(s) THEN id ELSE s.sendKem)
    BY <1>1, <1>2, <1>5
  <1>8. IF Accepts(s)
        THEN /\ v.rk = rolled /\ v.cks = rolled /\ v.hks = s.rk
             /\ v.nhkr = {rolled} /\ v.pn = s.ns /\ m.n = 0
             /\ m.kemTo = s.peerKem
        ELSE /\ v.rk = s.rk /\ v.cks = s.cks /\ v.nhkr = s.nhkr
             /\ v.hks = (IF NewTurn(s) THEN s.rk ELSE s.hks)
             /\ m.n = s.ns /\ m.kemTo = NoKey
    <2>1. CASE Accepts(s)
      BY <1>1, <1>2, <1>5, <1>6, <2>1
    <2>2. CASE ~Accepts(s)
      BY <1>1, <1>2, <1>5, <1>6, <2>2
    <2> QED
      BY <2>1, <2>2
  <1>9. /\ v.hkr = s.hkr /\ v.lastAction = "send"
        /\ m.hk = v.hks /\ m.kemPk = v.sendKem /\ m.pn = v.pn
    BY <1>1, <1>2, <1>5, <1>6
  <1> QED
    BY <1>7, <1>8, <1>9 DEF v, m, rolled

(* A decrypt leaves the sender's side alone, and one that is not served from
   the cache ends on the header root of the message. *)
LEMMA DecryptFields ==
  ASSUME NEW s \in Session, NEW m \in Message, Decrypts(s, m)
  PROVE  LET t == Decrypt(s, m)
         IN  /\ t.hks = s.hks /\ t.cks = s.cks /\ t.ns = s.ns /\ t.pn = s.pn
             /\ t.sendKem = s.sendKem /\ t.sinceOffer = s.sinceOffer
             /\ InCache(s, m) => /\ t.hkr = s.hkr /\ t.nhkr = s.nhkr
                                 /\ t.peerKem = s.peerKem
                                 /\ t.lastAction = s.lastAction
             /\ ~InCache(s, m) =>
                  /\ t.hkr = m.hk /\ t.lastAction = "recv"
                  /\ m.kemPk # NoKey => t.peerKem = m.kemPk
  <1> DEFINE t == Decrypt(s, m)
  <1>1. CASE InCache(s, m)
    BY <1>1 DEF Decrypt, ServeFromCache, Session
  <1>2. CASE ~InCache(s, m)
    <2> DEFINE e == EnterTurn(s, m)
               f == SkipTo(e, m.pn)
               c == Scratch(s, m)
               w == SkipTo(c, m.n)
    <2>1. Readable(s, m)
      BY <1>2 DEF Decrypts, OpensAhead
    <2>2. /\ e.hks = s.hks /\ e.cks = s.cks /\ e.ns = s.ns /\ e.pn = s.pn
          /\ e.sendKem = s.sendKem /\ e.sinceOffer = s.sinceOffer
          /\ e.hkr = m.hk /\ DOMAIN e = DOMAIN s
      BY <2>1 DEF EnterTurn, Session, Readable, UsesNext, UsesCurrent
    <2>3. /\ f.hks = e.hks /\ f.cks = e.cks /\ f.ns = e.ns /\ f.pn = e.pn
          /\ f.sendKem = e.sendKem /\ f.sinceOffer = e.sinceOffer
          /\ f.hkr = e.hkr /\ DOMAIN f = DOMAIN s
      <3> HIDE DEF e
      <3> QED
        BY <2>2 DEF SkipTo, Session
    <2> HIDE DEF e, f
    <2>4. /\ c.hks = s.hks /\ c.cks = s.cks /\ c.ns = s.ns /\ c.pn = s.pn
          /\ c.sendKem = s.sendKem /\ c.sinceOffer = s.sinceOffer
          /\ c.hkr = m.hk /\ DOMAIN c = DOMAIN s
      <3>1. CASE IsAccept(m)
        <4>1. c = RollReceiving(f, m)
          BY <3>1 DEF Scratch, f, e
        <4> HIDE DEF c
        <4> QED
          BY <2>2, <2>3, <4>1 DEF RollReceiving, Session
      <3>2. CASE ~IsAccept(m)
        <4>1. c = e
          BY <3>2 DEF Scratch, e
        <4> QED
          BY <2>2, <4>1
      <3> QED
        BY <3>1, <3>2
    <2> HIDE DEF c
    <2>5. /\ w.hks = c.hks /\ w.cks = c.cks /\ w.ns = c.ns /\ w.pn = c.pn
          /\ w.sendKem = c.sendKem /\ w.sinceOffer = c.sinceOffer
          /\ w.hkr = c.hkr /\ DOMAIN w = DOMAIN s
      BY <2>4 DEF SkipTo, Session
    <2>6. t = [w EXCEPT !.nr = m.n + 1,
                        !.peerKem = IF m.kemPk # NoKey THEN m.kemPk ELSE @,
                        !.lastAction = "recv"]
      BY <1>2 DEF Decrypt, Advance, c
    <2> HIDE DEF w, t
    <2>7. /\ t.hks = w.hks /\ t.cks = w.cks /\ t.ns = w.ns /\ t.pn = w.pn
          /\ t.sendKem = w.sendKem /\ t.sinceOffer = w.sinceOffer
          /\ t.hkr = w.hkr /\ t.lastAction = "recv"
          /\ m.kemPk # NoKey => t.peerKem = m.kemPk
      BY <2>5, <2>6 DEF Session
    <2>8. /\ t.hks = s.hks /\ t.cks = s.cks /\ t.ns = s.ns /\ t.pn = s.pn
          /\ t.sendKem = s.sendKem /\ t.sinceOffer = s.sinceOffer
          /\ t.hkr = m.hk
      BY <2>4, <2>5, <2>7
    <2> QED
      BY <1>2, <2>7, <2>8 DEF t
  <1> QED
    BY <1>1, <1>2

-----------------------------------------------------------------------------
(* The current chain opens: the strengthening, one lemma per action. *)

LEMMA InitOpen == Init => OpenInv
  <1> SUFFICES ASSUME Init PROVE OpenInv
    OBVIOUS
  <1>1. \A r \in Role :
          /\ st[r].rk = <<>> /\ st[r].cks = <<>> /\ st[r].ckr = <<>>
          /\ st[r].hks = <<>> /\ st[r].hkr = <<>> /\ st[r].nr = 0
          /\ st[r].sendKem = NoKey /\ st[r].sinceOffer = KemStepInterval
          /\ sent[r] = {}
    BY DEF Init, InitRatchet
  <1>2. IInv
    BY InitIInv
  <1>3. KemStepInterval >= KemStepInterval
    BY RatchetBounds
  <1> QED
    BY <1>1, <1>2, <1>3, PeerIsRole DEF OpenInv, Turns, Letters, Reception

(* A send: the new letter carries an offer and the header root of its turn;
   it is an accept exactly when its own secret ends its chain. *)
LEMMA SendOpen ==
  ASSUME OpenInv, NEW r \in Role, NEW accepted \in BOOLEAN, SendStep(r, accepted)
  PROVE  OpenInv'
  <1> DEFINE s == st[r]
             id == serial[r] + 1
             t == Encrypt(s, id).state
             m == Encrypt(s, id).msg
             rolled == Append(s.rk, <<r, id>>)
  <1>1. s \in Session /\ s.role = r /\ id \in Nat \ {0} /\ serial[r] \in Nat
    BY DEF OpenInv, IInv, TypeOK, Bookkeeping
  <1>2. IInv'
    BY SendIInv DEF OpenInv
  <1>3. /\ st' = [st EXCEPT ![r] = t] /\ serial' = [serial EXCEPT ![r] = id]
        /\ sent' = [sent EXCEPT ![r] = @ \cup {m}] /\ got' = got
    BY DEF SendStep
  <1>4. /\ t.ckr = s.ckr /\ t.nr = s.nr /\ t.skipped = s.skipped
        /\ t.recvChainId = s.recvChainId /\ t.hkr = s.hkr
        /\ m.from = r /\ m.id = id /\ m.chain = t.cks /\ t.ns = m.n + 1
    <2> HIDE DEF s, id
    <2> QED
      BY <1>1, EncryptEffect, EncryptFields
  <1>5. /\ t.lastAction = "send" /\ m.hk = t.hks /\ m.kemPk = t.sendKem
        /\ IF Accepts(s)
           THEN /\ t.cks = Append(s.rk, <<s.role, id>>) /\ t.hks = s.rk
                /\ m.kemTo = s.peerKem
           ELSE /\ t.cks = s.cks /\ m.kemTo = NoKey
                /\ t.hks = (IF NewTurn(s) THEN s.rk ELSE s.hks)
        /\ t.sendKem = (IF FreshOffer(s) THEN id ELSE s.sendKem)
    <2> HIDE DEF s, id
    <2> QED
      BY <1>1, EncryptFields
  <1> HIDE DEF t, m
  <1>6. /\ st'[r] = t /\ serial'[r] = id /\ sent'[r] = sent[r] \cup {m}
        /\ \A q \in Role : q # r =>
             st'[q] = st[q] /\ serial'[q] = serial[q] /\ sent'[q] = sent[q]
    BY <1>3 DEF OpenInv, IInv, TypeOK
  <1>7. /\ \/ s.hks = <<>> /\ s.cks = <<>>
           \/ \E k \in 1 .. serial[r] : OpenedBy(r, s.hks, s.cks, k)
        /\ NewTurn(s) => s.peerKem # NoKey \/ (s.rk = <<>> /\ s.cks = <<>>)
        /\ s.sendKem = NoKey => s.sinceOffer >= KemStepInterval
    BY DEF OpenInv, Turns
  <1>8. t.sendKem # NoKey
    BY <1>1, <1>5, <1>7 DEF FreshOffer, NoKey
  <1>9. \/ /\ OpenedBy(r, t.hks, t.cks, id) /\ IsAccept(m)
        \/ /\ t.hks = <<>> /\ t.cks = <<>> /\ ~IsAccept(m)
        \/ /\ \E k \in 1 .. serial[r] : OpenedBy(r, t.hks, t.cks, k)
           /\ ~IsAccept(m)
    <2>1. CASE Accepts(s)
      BY <1>1, <1>5, <2>1 DEF OpenedBy, IsAccept, Accepts
    <2>2. CASE ~Accepts(s) /\ NewTurn(s)
      BY <1>5, <1>7, <2>2 DEF IsAccept, Accepts
    <2>3. CASE ~Accepts(s) /\ ~NewTurn(s)
      BY <1>5, <1>7, <2>3 DEF IsAccept
    <2> QED
      BY <2>1, <2>2, <2>3
  <1>10. /\ id \in 1 .. id /\ id <= id
        /\ \A k \in 1 .. serial[r] : k \in 1 .. id /\ k # id
    BY <1>1
  <1>11. Turns'
    <2>1. \/ t.hks = <<>> /\ t.cks = <<>>
          \/ \E k \in 1 .. id : OpenedBy(r, t.hks, t.cks, k)
      BY <1>9, <1>10
    <2>2. ~NewTurn(t)
      BY <1>5 DEF NewTurn
    <2> QED
      BY <1>6, <1>8, <2>1, <2>2 DEF OpenInv, Turns
  <1>12. Letters'
    <2> SUFFICES ASSUME NEW q \in Role, NEW a \in sent'[q]
                 PROVE  /\ a.from = q /\ a.id <= serial'[q] /\ a.kemPk # NoKey
                        /\ \A b \in sent'[q] : b.id = a.id => b = a
                        /\ \/ a.hk = <<>> /\ a.chain = <<>> /\ ~IsAccept(a)
                           \/ \E k \in 1 .. serial'[q] :
                                /\ OpenedBy(q, a.hk, a.chain, k)
                                /\ IsAccept(a) <=> a.id = k
      BY DEF Letters
    <2>1. CASE q # r
      BY <1>6, <2>1 DEF OpenInv, Letters
    <2>2. CASE q = r /\ a \in sent[r]
      <3>1. /\ a.from = r /\ a.id <= serial[r] /\ a.kemPk # NoKey
            /\ \A b \in sent[r] : b.id = a.id => b = a
            /\ \/ a.hk = <<>> /\ a.chain = <<>> /\ ~IsAccept(a)
               \/ \E k \in 1 .. serial[r] :
                    OpenedBy(r, a.hk, a.chain, k) /\ (IsAccept(a) <=> a.id = k)
        BY <2>2 DEF OpenInv, Letters
      <3>2. a.id \in Nat
        BY <2>2 DEF OpenInv, IInv, TypeOK, Message
      <3>3. a.id <= id /\ a.id # id
        BY <1>1, <3>1, <3>2
      <3> QED
        BY <1>4, <1>6, <1>10, <2>2, <3>1, <3>3
    <2>3. CASE q = r /\ a = m
      <3>1. \A b \in sent[r] : b.id # id
        <4> SUFFICES ASSUME NEW b \in sent[r], b.id = id PROVE FALSE
          OBVIOUS
        <4>1. b.id <= serial[r]
          BY DEF OpenInv, Letters
        <4> QED
          BY <1>1, <4>1
      <3>2. \/ a.hk = <<>> /\ a.chain = <<>> /\ ~IsAccept(a)
            \/ \E k \in 1 .. id :
                 OpenedBy(r, a.hk, a.chain, k) /\ (IsAccept(a) <=> a.id = k)
        BY <1>4, <1>5, <1>9, <1>10, <2>3
      <3> QED
        BY <1>4, <1>5, <1>6, <1>8, <1>10, <2>3, <3>1, <3>2
    <2> QED
      BY <1>6, <2>1, <2>2, <2>3
  <1>13. \A a \in sent[r] : a.chain = t.cks => a.n < m.n
    <2> SUFFICES ASSUME NEW a \in sent[r], a.chain = t.cks PROVE a.n < m.n
      OBVIOUS
    <2>1. a \in sent'[r] /\ m \in sent'[r] /\ a.n \in Nat /\ m.n \in Nat
      BY <1>2, <1>6 DEF IInv, TypeOK, Message
    <2>2. a.n < m.n + 1
      BY <1>2, <1>4, <1>6, <2>1 DEF IInv, Bookkeeping
    <2>3. a # m
      <3>1. a.id <= serial[r]
        BY DEF OpenInv, Letters
      <3> QED
        BY <1>1, <1>4, <3>1
    <2>4. a.n # m.n
      BY <1>2, <1>4, <2>1, <2>3 DEF IInv, NoKeyReuse
    <2> QED
      BY <2>1, <2>2, <2>4
  <1>14. Reception'
    <2>1. \A q \in Role :
            /\ st'[q].ckr = st[q].ckr /\ st'[q].hkr = st[q].hkr
            /\ st'[q].nr = st[q].nr /\ st'[q].skipped = st[q].skipped
            /\ st'[q].recvChainId = st[q].recvChainId /\ got'[q] = got[q]
      BY <1>3, <1>4, <1>6
    <2>2. ASSUME NEW q \in Role, NEW a \in sent'[Peer(q)], a \notin got[q],
                 a.chain = st[q].ckr, a.n < st[q].nr
          PROVE  <<st[q].recvChainId, a.n, a.chain>> \in st[q].skipped
      <3>1. CASE a \in sent[Peer(q)]
        BY <2>2, <3>1 DEF OpenInv, Reception
      <3>2. CASE a \notin sent[Peer(q)]
        <4>1. Peer(q) = r /\ a = m
          BY <1>6, <2>2, <3>2, PeerIsRole
        <4>2. m.n \in Nat /\ st[q].nr \in Nat
          BY <1>2, <1>6 DEF IInv, OpenInv, TypeOK, Message, Session
        <4>3. st[q].nr # 0
          BY <2>2, <4>1, <4>2
        <4>4. PICK g \in got[q] : g.chain = st[q].ckr /\ g.n + 1 = st[q].nr
          BY <4>3 DEF OpenInv, Reception
        <4>5. g \in sent[r] /\ g.n \in Nat
          BY <4>1 DEF OpenInv, IInv, TypeOK, Bookkeeping, Message
        <4>6. g.n < m.n
          BY <1>4, <1>13, <2>2, <4>1, <4>4, <4>5
        <4> QED
          BY <2>2, <4>1, <4>2, <4>4, <4>5, <4>6
      <3> QED
        BY <3>1, <3>2
    <2> QED
      BY <2>1, <2>2 DEF OpenInv, Reception
  <1> QED
    BY <1>2, <1>11, <1>12, <1>14 DEF OpenInv

(* A receive: the letter read becomes the witness of what Reception says,
   and what the cache takes in or gives out is exactly what is now behind nr
   and unread, or read. *)
LEMMA ReceiveOpen ==
  ASSUME OpenInv, NEW r \in Role, NEW m \in net[r], NEW acked \in BOOLEAN,
         Receive(r, m, acked)
  PROVE  OpenInv'
  <1> DEFINE s == st[r]
             t == Decrypt(s, m)
  <1>1. IInv'
    BY ReceiveIInv DEF OpenInv
  <1>2. serial' = serial /\ sent' = sent
    BY DEF Receive
  <1>3. m \in Message /\ s \in Session /\ m \in sent[Peer(r)] /\ Peer(r) \in Role
    BY PeerIsRole DEF OpenInv, IInv, TypeOK, Bookkeeping
  <1>4. Letters'
    BY <1>2 DEF OpenInv, Letters
  <1>5. CASE ~Decrypts(s, m)
    <2>1. st' = st /\ got' = got
      BY <1>5 DEF Receive
    <2> QED
      BY <1>1, <1>2, <1>4, <2>1 DEF OpenInv, Turns, Reception
  <1>6. CASE Decrypts(s, m)
    <2>1. /\ st' = [st EXCEPT ![r] = t]
          /\ got' = [got EXCEPT ![r] = @ \cup {m}]
      BY <1>6 DEF Receive
    <2>2. /\ t.hks = s.hks /\ t.cks = s.cks
          /\ t.sendKem = s.sendKem /\ t.sinceOffer = s.sinceOffer
          /\ InCache(s, m) => /\ t.hkr = s.hkr /\ t.peerKem = s.peerKem
                              /\ t.lastAction = s.lastAction
          /\ ~InCache(s, m) => /\ t.hkr = m.hk /\ t.lastAction = "recv"
                               /\ m.kemPk # NoKey => t.peerKem = m.kemPk
      BY <1>3, <1>6, DecryptFields
    <2>3. ASSUME InCache(s, m)
          PROVE  /\ t.ckr = s.ckr /\ t.nr = s.nr /\ t.recvChainId = s.recvChainId
                 /\ t.rk = s.rk
                 /\ t.skipped = s.skipped \ {<<s.recvChainId, m.n, m.chain>>}
      BY <1>3, <1>6, <2>3, CacheEffect
    <2>4. ASSUME ~InCache(s, m)
          PROVE  /\ t.ckr = m.chain /\ t.nr = m.n + 1
                 /\ \/ /\ ~IsAccept(m) /\ t.ckr = s.ckr
                       /\ t.recvChainId = s.recvChainId
                       /\ t.skipped = s.skipped \cup Gap(s, m.n)
                    \/ /\ IsAccept(m) /\ t.recvChainId = s.recvChainId + 1
                       /\ {<<s.recvChainId + 1, i, m.chain>> : i \in 0 .. (m.n - 1)}
                            \subseteq t.skipped
      BY <1>3, <1>6, <2>4, AdvanceEffect
    <2>5. ASSUME ~InCache(s, m), ~IsAccept(m) PROVE m.hk = s.hkr
      BY <1>6, <2>5 DEF Decrypts, OpensAhead, Readable, UsesCurrent
    <2> HIDE DEF t
    <2>6. /\ st'[r] = t /\ got'[r] = got[r] \cup {m}
          /\ \A q \in Role : q # r => st'[q] = st[q] /\ got'[q] = got[q]
      BY <2>1 DEF OpenInv, IInv, TypeOK
    <2>7. m.kemPk # NoKey
      BY <1>3 DEF OpenInv, Letters
    <2>8. Turns'
      <3>1. NewTurn(t) => t.peerKem # NoKey \/ (t.rk = <<>> /\ t.cks = <<>>)
        BY <2>2, <2>3, <2>7 DEF NewTurn, OpenInv, Turns
      <3> QED
        BY <1>2, <2>2, <2>6, <3>1 DEF OpenInv, Turns
    <2>9. /\ \/ t.ckr = <<>> /\ t.hkr = <<>>
             \/ \E a \in got[r] \cup {m} :
                  IsAccept(a) /\ a.chain = t.ckr /\ a.hk = t.hkr
          /\ \/ t.nr = 0
             \/ \E g \in got[r] \cup {m} : g.chain = t.ckr /\ g.n + 1 = t.nr
      <3>1. /\ \/ s.ckr = <<>> /\ s.hkr = <<>>
               \/ \E a \in got[r] : IsAccept(a) /\ a.chain = s.ckr /\ a.hk = s.hkr
            /\ \/ s.nr = 0
               \/ \E g \in got[r] : g.chain = s.ckr /\ g.n + 1 = s.nr
        BY DEF OpenInv, Reception
      <3>2. CASE InCache(s, m)
        BY <2>2, <2>3, <3>1, <3>2
      <3>3. CASE ~InCache(s, m) /\ IsAccept(m)
        BY <2>2, <2>4, <3>3
      <3>4. CASE ~InCache(s, m) /\ ~IsAccept(m)
        BY <2>2, <2>4, <2>5, <3>1, <3>4
      <3> QED
        BY <3>2, <3>3, <3>4
    <2>10. ASSUME NEW x \in sent[Peer(r)], x \notin got[r], x # m,
                  x.chain = t.ckr, x.n < t.nr
           PROVE  <<t.recvChainId, x.n, x.chain>> \in t.skipped
      <3>1. x.n \in Nat /\ m.n \in Nat /\ s.nr \in Nat
        BY <1>3 DEF OpenInv, IInv, TypeOK, Message, Session
      <3>2. <<x.chain, x.n>> # <<m.chain, m.n>>
        BY <1>3, <2>10 DEF OpenInv, IInv, NoKeyReuse
      <3>3. x.chain = s.ckr /\ x.n < s.nr =>
              <<s.recvChainId, x.n, x.chain>> \in s.skipped
        BY <2>10 DEF OpenInv, Reception
      <3>4. CASE InCache(s, m)
        BY <2>3, <2>10, <3>2, <3>3, <3>4
      <3>5. CASE ~InCache(s, m) /\ ~IsAccept(m)
        <4>1. x.n < m.n
          BY <2>4, <2>10, <3>1, <3>2, <3>5
        <4>2. CASE x.n < s.nr
          BY <2>4, <2>10, <3>3, <3>5, <4>2
        <4>3. CASE ~(x.n < s.nr)
          <5>1. x.n \in s.nr .. (m.n - 1)
            BY <3>1, <4>1, <4>3
          <5>2. <<s.recvChainId, x.n, s.ckr>> \in Gap(s, m.n)
            BY <5>1 DEF Gap
          <5> QED
            BY <2>4, <2>10, <3>5, <5>2
        <4> QED
          BY <4>2, <4>3
      <3>6. CASE ~InCache(s, m) /\ IsAccept(m)
        <4>1. x.n \in 0 .. (m.n - 1)
          BY <2>4, <2>10, <3>1, <3>2, <3>6
        <4> QED
          BY <2>4, <2>10, <3>6, <4>1
      <3> QED
        BY <3>4, <3>5, <3>6
    <2>11. Reception'
      <3> SUFFICES ASSUME NEW q \in Role
                   PROVE  /\ \/ st'[q].ckr = <<>> /\ st'[q].hkr = <<>>
                             \/ \E a \in got'[q] :
                                  /\ IsAccept(a) /\ a.chain = st'[q].ckr
                                  /\ a.hk = st'[q].hkr
                          /\ \/ st'[q].nr = 0
                             \/ \E g \in got'[q] :
                                  g.chain = st'[q].ckr /\ g.n + 1 = st'[q].nr
                          /\ \A x \in sent[Peer(q)] \ got'[q] :
                               x.chain = st'[q].ckr /\ x.n < st'[q].nr =>
                                 <<st'[q].recvChainId, x.n, x.chain>>
                                   \in st'[q].skipped
        BY <1>2 DEF Reception
      <3>1. CASE q = r
        BY <2>6, <2>9, <2>10, <3>1
      <3>2. CASE q # r
        BY <2>6, <3>2 DEF OpenInv, Reception
      <3> QED
        BY <3>1, <3>2
    <2> QED
      BY <1>1, <1>4, <2>8, <2>11 DEF OpenInv
  <1> QED
    BY <1>5, <1>6

LEMMA NextOpen == OpenInv /\ [Next]_vars => OpenInv'
  <1> SUFFICES ASSUME OpenInv, [Next]_vars PROVE OpenInv'
    OBVIOUS
  <1>1. ASSUME NEW r \in Role, Send(r) PROVE OpenInv'
    BY <1>1, SendOpen DEF Send
  <1>2. ASSUME NEW r \in Role, SendFails(r) PROVE OpenInv'
    BY <1>2, SendOpen DEF SendFails
  <1>3. ASSUME NEW r \in Role, NEW m \in net[r], NEW acked \in BOOLEAN,
               Receive(r, m, acked)
        PROVE  OpenInv'
    BY <1>3, ReceiveOpen
  <1>4. IInv'
    BY NextIInv DEF OpenInv
  <1>5. ASSUME UNCHANGED <<st, serial, sent, got>> PROVE OpenInv'
    BY <1>4, <1>5 DEF OpenInv, Turns, Letters, Reception
  <1>6. ASSUME NEW r \in Role, NEW m \in net[r], Expire(r, m) PROVE OpenInv'
    BY <1>5, <1>6 DEF Expire
  <1>7. CASE UNCHANGED vars
    BY <1>5, <1>7 DEF vars
  <1> QED
    BY <1>1, <1>2, <1>3, <1>6, <1>7 DEF Next

(* Two sequences that end in an element are equal only part by part. *)
LEMMA AppendParts ==
  ASSUME NEW S, NEW a \in Seq(S), NEW b \in Seq(S), NEW x \in S, NEW y \in S
  PROVE  /\ Append(a, x) # <<>>
         /\ Append(a, x) = Append(b, y) => a = b /\ x = y
  <1> DEFINE c == Append(a, x)
             d == Append(b, y)
  <1>1. /\ Len(a) \in Nat /\ Len(b) \in Nat
        /\ Len(c) = Len(a) + 1 /\ c[Len(a) + 1] = x
        /\ Len(d) = Len(b) + 1 /\ d[Len(b) + 1] = y
        /\ \A i \in 1 .. Len(a) : c[i] = a[i]
        /\ \A i \in 1 .. Len(b) : d[i] = b[i]
    OBVIOUS
  <1>2. Len(<<>>) = 0
    OBVIOUS
  <1> HIDE DEF c, d
  <1>3. c # <<>>
    BY <1>1, <1>2
  <1>4. ASSUME c = d PROVE a = b /\ x = y
    <2>1. Len(a) = Len(b)
      BY <1>1, <1>4
    <2>2. \A i \in 1 .. Len(a) : a[i] = b[i]
      BY <1>1, <1>4, <2>1
    <2>3. x = y
      BY <1>1, <1>4, <2>1
    <2>4. a = b
      BY <2>1, <2>2
    <2> QED
      BY <2>3, <2>4
  <1> QED
    BY <1>3, <1>4 DEF c, d

(* On its chain, an unread letter is either in the cache, or ahead of nr
   under the header root the reader holds. *)
LEMMA UnreadOpens == OpenInv => CurrentChainOpens
  <1> SUFFICES ASSUME OpenInv, NEW r \in Role,
                      NEW m \in sent[Peer(r)], m \notin got[r],
                      m.chain = st[r].ckr, SkipFits(st[r], m.n)
               PROVE  Decrypts(st[r], m)
    BY DEF CurrentChainOpens
  <1> DEFINE s == st[r]
             p == Peer(r)
  <1>1. p \in Role
    BY PeerIsRole
  <1>2. m \in Message /\ s \in Session
    BY <1>1 DEF OpenInv, IInv, TypeOK
  <1>3. m.n \in Nat /\ s.nr \in Nat
    BY <1>2 DEF Message, Session
  <1>4. m.hk = s.hkr /\ ~IsAccept(m)
    <2>1. \/ m.hk = <<>> /\ m.chain = <<>> /\ ~IsAccept(m)
          \/ \E k \in 1 .. serial[p] :
               OpenedBy(p, m.hk, m.chain, k) /\ (IsAccept(m) <=> m.id = k)
      BY <1>1 DEF OpenInv, Letters
    <2>2. ASSUME NEW k \in 1 .. serial[p], NEW hk \in Root, NEW chain,
                 OpenedBy(p, hk, chain, k)
          PROVE  /\ chain # <<>>
                 /\ \A k2 \in 1 .. serial[p], hk2 \in Root :
                      OpenedBy(p, hk2, chain, k2) => hk = hk2 /\ k = k2
      <3>1. serial[p] \in Nat
        BY <1>1 DEF OpenInv, IInv, TypeOK
      <3>2. \A i \in 1 .. serial[p] : <<p, i>> \in Secret
        BY <1>1, <3>1 DEF Secret
      <3>3. chain # <<>>
        BY <2>2, <3>2, AppendParts DEF OpenedBy, Root
      <3>4. ASSUME NEW k2 \in 1 .. serial[p], NEW hk2 \in Root,
                   OpenedBy(p, hk2, chain, k2)
            PROVE  hk = hk2 /\ k = k2
        <4>1. Append(hk, <<p, k>>) = Append(hk2, <<p, k2>>)
          BY <2>2, <3>4 DEF OpenedBy
        <4>2. hk = hk2 /\ <<p, k>> = <<p, k2>>
          BY <3>2, <4>1, AppendParts DEF Root
        <4> QED
          BY <4>2
      <3> QED
        BY <3>3, <3>4
    <2>3. CASE s.ckr = <<>> /\ s.hkr = <<>>
      <3>1. m.hk \in Root
        BY <1>2 DEF Message
      <3> QED
        BY <2>1, <2>2, <2>3, <3>1
    <2>4. ASSUME NEW a \in got[r], IsAccept(a), a.chain = s.ckr, a.hk = s.hkr
          PROVE  m.hk = s.hkr /\ ~IsAccept(m)
      <3>1. a \in sent[p]
        BY DEF OpenInv, IInv, Bookkeeping
      <3>2. a.hk \in Root /\ m.hk \in Root
        BY <1>2, <2>4 DEF OpenInv, IInv, TypeOK, Message
      <3>3. PICK k \in 1 .. serial[p] : OpenedBy(p, a.hk, a.chain, k) /\ a.id = k
        BY <1>1, <2>4, <3>1 DEF OpenInv, Letters
      <3>4. PICK k2 \in 1 .. serial[p] :
              OpenedBy(p, m.hk, m.chain, k2) /\ (IsAccept(m) <=> m.id = k2)
        <4>1. m.chain # <<>>
          BY <2>2, <2>4, <3>2, <3>3
        <4> QED
          BY <2>1, <4>1
      <3>5. m.hk = a.hk /\ k = k2
        BY <2>2, <2>4, <3>2, <3>3, <3>4
      <3>6. ~IsAccept(m)
        BY <1>1, <2>4, <3>1, <3>3, <3>4, <3>5 DEF OpenInv, Letters
      <3> QED
        BY <2>4, <3>5, <3>6
    <2> QED
      BY <2>3, <2>4 DEF OpenInv, Reception
  <1>5. CASE InCache(s, m)
    <2>1. PICK e \in s.skipped : e[1] = s.recvChainId /\ e[2] = m.n
      BY <1>5 DEF InCache
    <2>2. e[3] = s.ckr /\ e \in SkipEntry
      BY <1>2, <2>1 DEF OpenInv, IInv, Frontier, Session
    <2>3. e = <<s.recvChainId, m.n, m.chain>>
      BY <2>1, <2>2 DEF SkipEntry
    <2> QED
      BY <1>5, <2>1, <2>3 DEF Decrypts, OpensFromCache, CacheEntry
  <1>6. CASE ~InCache(s, m)
    <2>1. s.nr <= m.n
      <3>1. CASE m.n < s.nr
        <4>1. <<s.recvChainId, m.n, m.chain>> \in s.skipped
          BY <3>1 DEF OpenInv, Reception
        <4>2. InCache(s, m)
          BY <1>4, <4>1 DEF InCache, UsesCurrent
        <4> QED
          BY <1>6, <4>2
      <3> QED
        BY <1>3, <3>1
    <2>2. UsesCurrent(s, m) /\ Readable(s, m) /\ ~UsesNext(s, m)
      BY <1>4 DEF UsesCurrent, UsesNext, Readable
    <2>3. Scratch(s, m) = s
      BY <1>4, <2>2 DEF Scratch, EnterTurn
    <2> QED
      BY <1>4, <1>6, <2>1, <2>2, <2>3 DEF Decrypts, OpensAhead
  <1> QED
    BY <1>5, <1>6

(* Out-of-order delivery: on the current chain, every unread message whose
   gap still fits the cache opens (ratchetDecrypt, skipTo). *)
THEOREM UnreadOnChainOpens == Spec => []CurrentChainOpens
  BY InitOpen, NextOpen, UnreadOpens, PTL DEF Spec

-----------------------------------------------------------------------------
(* The calm environment. *)

LEMMA InitCalm == Init => CalmInv
  <1> SUFFICES ASSUME Init PROVE CalmInv
    OBVIOUS
  <1>1. \A r \in Role :
          /\ st[r].rk = <<>> /\ st[r].cks = <<>> /\ st[r].ckr = <<>>
          /\ st[r].hks = <<>> /\ st[r].hkr = <<>> /\ st[r].nr = 0
          /\ st[r].ns = 0 /\ st[r].skipped = {} /\ net[r] = {}
          /\ st[r].peerKem = NoKey
          /\ NewTurn(st[r]) <=> r = "responder"
    BY DEF Init, InitRatchet, NewTurn, Role
  <1>2. OneWay
    BY <1>1 DEF OneWay
  <1>3. \A r \in Role : ~Accepting(r) /\ {m.n : m \in net[r]} = {}
    BY <1>1 DEF Accepting
  <1>4. 0 .. (0 - 1) = {} /\ 0 <= 0
    OBVIOUS
  <1>5. OnTheWay
    BY <1>1, <1>3, <1>4, PeerIsRole DEF OnTheWay
  <1>6. InTouch
    BY <1>1, PeerIsRole DEF InTouch, Peer, Role
  <1> QED
    BY <1>2, <1>5, <1>6, InitOpen DEF CalmInv

(* The oldest letter opens, and brings the reader level with the writer. *)
LEMMA OldestOpens ==
  ASSUME CalmInv, NEW r \in Role, NEW m \in net[r], Oldest(r, m)
  PROVE  LET s == st[r]
             w == st[Peer(r)]
             t == Decrypt(s, m)
         IN  /\ Decrypts(s, m) /\ ~NewTurn(w) /\ net[Peer(r)] = {}
             /\ t.rk = w.rk /\ t.ckr = w.cks /\ t.hkr = w.hks
             /\ t.nr = m.n + 1 /\ t.skipped = {}
             /\ t.lastAction = "recv" /\ t.peerKem = m.kemPk
             /\ \A k \in net[r] \ {m} : ~IsAccept(k)
             /\ m.n < w.ns
             /\ {k.n : k \in net[r] \ {m}} = (m.n + 1) .. (w.ns - 1)
  <1> DEFINE p == Peer(r)
             s == st[r]
             w == st[p]
             t == Decrypt(s, m)
  <1>1. p \in Role /\ Peer(p) = r /\ p # r
    BY DEF Peer, Role
  <1>2. /\ s \in Session /\ w \in Session /\ m \in Message /\ serial[p] \in Nat
        /\ \A k \in net[r] : k \in Message /\ k \in sent[p]
    BY <1>1 DEF CalmInv, OpenInv, IInv, TypeOK, Bookkeeping
  <1>3. /\ s.nr \in Nat /\ w.ns \in Nat /\ m.n \in Nat /\ m.id \in Nat
        /\ s.skipped = {} /\ net[p] = {}
    BY <1>1, <1>2 DEF CalmInv, OneWay, Session, Message
  <1>4. ~NewTurn(w)
    <2>1. NewTurn(w) => net[r] = {}
      BY <1>1 DEF CalmInv, InTouch
    <2> QED
      BY <2>1
  <1>5. \A k \in net[r] :
          /\ k.chain = w.cks /\ k.hk = w.hks /\ k.n \in Nat /\ k.id \in Nat
          /\ k.n + serial[p] + 1 = w.ns + k.id
          /\ IsAccept(k) => /\ k.n = 0 /\ k.pn = s.nr /\ k.kemTo = s.sendKem
                            /\ w.hks = s.rk /\ w.rk = w.cks
                            /\ OpenedBy(p, w.hks, w.cks, k.id)
                            /\ s.lastAction = "send"
    BY <1>2 DEF CalmInv, OnTheWay, Message
  <1>6. \A k \in net[r] : m.n <= k.n
    <2> SUFFICES ASSUME NEW k \in net[r] PROVE m.n <= k.n
      OBVIOUS
    <2>1. m.id <= k.id
      BY DEF Oldest
    <2> QED
      BY <1>2, <1>3, <1>5, <2>1
  <1>7. \A k \in net[r] : k.n = m.n => k = m
    BY <1>1, <1>2, <1>5 DEF CalmInv, OpenInv, IInv, NoKeyReuse
  <1>8. ~InCache(s, m)
    BY <1>3 DEF InCache
  <1>9. m.kemPk # NoKey /\ m.from = p
    BY <1>1, <1>2 DEF CalmInv, OpenInv, Letters
  <1>10. \A k \in net[r] \ {m} : ~IsAccept(k)
    BY <1>3, <1>5, <1>6, <1>7
  <1>11. CASE IsAccept(m)
    <2>1. /\ m.n = 0 /\ m.pn = s.nr /\ m.kemTo = s.sendKem
          /\ w.hks = s.rk /\ w.rk = w.cks /\ s.lastAction = "send"
          /\ m.chain = Append(s.rk, <<p, m.id>>) /\ m.hk = s.rk
      BY <1>5, <1>11 DEF OpenedBy
    <2>2. s.rk = s.hkr \/ s.rk \in s.nhkr
      BY <2>1 DEF CalmInv, InTouch
    <2>3. Readable(s, m) /\ s.sendKem # NoKey
      BY <1>11, <2>1, <2>2 DEF Readable, UsesCurrent, UsesNext, IsAccept
    <2>4. SkipFits(s, m.pn)
      BY <1>3, <2>1 DEF SkipFits
    <2> DEFINE e == EnterTurn(s, m)
               c == Scratch(s, m)
    <2>5. /\ e.rk = s.rk /\ e.nr = s.nr /\ e.sendKem = s.sendKem
          /\ DOMAIN e = DOMAIN s
      BY <1>2 DEF EnterTurn, Session
    <2>6. c = RollReceiving(e, m)
      BY <1>3, <1>11, <2>1, <2>5 DEF Scratch, SkipTo
    <2> HIDE DEF e, c
    <2>7. c.nr = 0 /\ c.ckr = Append(s.rk, <<p, m.id>>)
      BY <1>2, <1>9, <2>1, <2>5, <2>6
         DEF RollReceiving, RootStep, Decapsulate, Session
    <2>8. Decrypts(s, m)
      <3>1. c.nr <= m.n /\ SkipFits(c, m.n)
        BY <1>3, <2>1, <2>7 DEF SkipFits
      <3> QED
        BY <1>8, <1>11, <2>1, <2>3, <2>4, <2>7, <3>1 DEF Decrypts, OpensAhead, c
    <2>9. /\ t.ckr = m.chain /\ t.nr = m.n + 1 /\ t.rk = m.chain
          /\ t.skipped = (s.skipped \cup Gap(s, m.pn)) \cup
               {<<s.recvChainId + 1, i, m.chain>> : i \in 0..(m.n - 1)}
      BY <1>2, <1>8, <1>11, <2>8, AdvanceEffect
    <2>10. t.skipped = {}
      <3>1. s.nr .. (s.nr - 1) = {} /\ 0 .. (0 - 1) = {}
        BY <1>3
      <3> QED
        BY <1>3, <2>1, <2>9, <3>1 DEF Gap
    <2>11. t.hkr = m.hk /\ t.lastAction = "recv" /\ t.peerKem = m.kemPk
      BY <1>2, <1>8, <1>9, <2>8, DecryptFields
    <2>12. {k.n : k \in net[r]} = 0 .. (w.ns - 1)
      <3>1. Accepting(r)
        BY <1>11 DEF Accepting
      <3> QED
        BY <3>1 DEF CalmInv, OnTheWay
    <2>13. /\ m.n < w.ns
           /\ {k.n : k \in net[r] \ {m}} = (m.n + 1) .. (w.ns - 1)
      <3> DEFINE N == {k.n : k \in net[r]}
                 M == {k.n : k \in net[r] \ {m}}
      <3>1. m.n \in N
        OBVIOUS
      <3>2. M = N \ {m.n}
        BY <1>7
      <3> HIDE DEF N, M
      <3>3. N = 0 .. (w.ns - 1)
        BY <2>12 DEF N
      <3>4. M = (m.n + 1) .. (w.ns - 1)
        BY <1>3, <2>1, <3>2, <3>3
      <3>5. m.n < w.ns
        BY <1>3, <3>1, <3>3
      <3> QED
        BY <3>4, <3>5 DEF M
    <2> HIDE DEF p, s, w, t
    <2>14. /\ t.rk = w.rk /\ t.ckr = w.cks /\ t.hkr = w.hks
           /\ t.nr = m.n + 1 /\ t.skipped = {}
           /\ t.lastAction = "recv" /\ t.peerKem = m.kemPk
      BY <1>5, <2>1, <2>9, <2>10, <2>11
    <2> QED
      BY <1>3, <1>4, <1>10, <2>8, <2>13, <2>14 DEF p, s, w, t
  <1>12. CASE ~IsAccept(m)
    <2>1. ~Accepting(r)
      <3>1. ASSUME NEW a \in net[r], IsAccept(a) PROVE FALSE
        <4>1. a.n = 0
          BY <1>5, <3>1
        <4>2. a = m
          BY <1>3, <1>6, <1>7, <4>1
        <4> QED
          BY <1>12, <3>1, <4>2
      <3> QED
        BY <3>1 DEF Accepting
    <2>2. /\ {k.n : k \in net[r]} = s.nr .. (w.ns - 1)
          /\ s.ckr = w.cks /\ s.hkr = w.hks /\ s.rk = w.rk
      <3>1. /\ {k.n : k \in net[r]} = s.nr .. (w.ns - 1)
            /\ s.ckr = w.cks /\ s.hkr = w.hks
        BY <1>4, <2>1 DEF CalmInv, OnTheWay
      <3>2. ~Accepting(p)
        BY <1>3 DEF Accepting
      <3>3. s.rk = w.rk
        BY <2>1, <3>2 DEF CalmInv, InTouch
      <3> QED
        BY <3>1, <3>3
    <2>3. m.n = s.nr
      <3> DEFINE N == {k.n : k \in net[r]}
      <3>1. m.n \in N /\ \A n \in N : m.n <= n
        BY <1>6
      <3> HIDE DEF N
      <3>2. N = s.nr .. (w.ns - 1)
        BY <2>2 DEF N
      <3> QED
        BY <1>3, <3>1, <3>2
    <2>4. UsesCurrent(s, m) /\ Readable(s, m) /\ ~UsesNext(s, m)
      BY <1>5, <2>2 DEF UsesCurrent, UsesNext, Readable
    <2>5. Scratch(s, m) = s
      BY <1>12, <2>4 DEF Scratch, EnterTurn
    <2>6. Decrypts(s, m)
      <3>1. s.nr <= m.n /\ SkipFits(s, m.n) /\ s.ckr = m.chain
        BY <1>3, <1>5, <2>2, <2>3 DEF SkipFits
      <3> QED
        BY <1>8, <1>12, <2>4, <2>5, <3>1 DEF Decrypts, OpensAhead
    <2>7. /\ t.ckr = m.chain /\ t.nr = m.n + 1 /\ t.rk = s.rk
          /\ t.skipped = s.skipped \cup Gap(s, m.n)
      BY <1>2, <1>8, <1>12, <2>6, AdvanceEffect
    <2>8. t.skipped = {}
      <3>1. s.nr .. (s.nr - 1) = {}
        BY <1>3
      <3> QED
        BY <1>3, <2>3, <2>7, <3>1 DEF Gap
    <2>9. t.hkr = m.hk /\ t.lastAction = "recv" /\ t.peerKem = m.kemPk
      BY <1>2, <1>8, <1>9, <2>6, DecryptFields
    <2>10. /\ m.n < w.ns
           /\ {k.n : k \in net[r] \ {m}} = (m.n + 1) .. (w.ns - 1)
      <3> DEFINE N == {k.n : k \in net[r]}
                 M == {k.n : k \in net[r] \ {m}}
      <3>1. m.n \in N
        OBVIOUS
      <3>2. M = N \ {m.n}
        BY <1>7
      <3> HIDE DEF N, M
      <3>3. N = s.nr .. (w.ns - 1)
        BY <2>2 DEF N
      <3>4. M = (m.n + 1) .. (w.ns - 1)
        BY <1>3, <2>3, <3>2, <3>3
      <3>5. m.n < w.ns
        BY <1>3, <3>1, <3>3
      <3> QED
        BY <3>4, <3>5 DEF M
    <2> HIDE DEF p, s, w, t
    <2>11. /\ t.rk = w.rk /\ t.ckr = w.cks /\ t.hkr = w.hks
           /\ t.nr = m.n + 1 /\ t.skipped = {}
           /\ t.lastAction = "recv" /\ t.peerKem = m.kemPk
      BY <1>5, <2>2, <2>7, <2>8, <2>9
    <2> QED
      BY <1>3, <1>4, <1>10, <2>6, <2>10, <2>11 DEF p, s, w, t
  <1> QED
    BY <1>11, <1>12

(* Reading the oldest letter. *)
LEMMA ReadCalm ==
  ASSUME CalmInv, NEW r \in Role, NEW m \in net[r], Oldest(r, m),
         Receive(r, m, TRUE)
  PROVE  CalmInv'
  <1> DEFINE p == Peer(r)
             s == st[r]
             w == st[p]
             t == Decrypt(s, m)
  <1>1. p \in Role /\ Peer(p) = r /\ p # r /\ \A q \in Role : q = r \/ q = p
    BY DEF Peer, Role
  <1>2. /\ Decrypts(s, m) /\ ~NewTurn(w) /\ net[p] = {}
        /\ t.rk = w.rk /\ t.ckr = w.cks /\ t.hkr = w.hks
        /\ t.nr = m.n + 1 /\ t.skipped = {}
        /\ t.lastAction = "recv" /\ t.peerKem = m.kemPk
        /\ \A k \in net[r] \ {m} : ~IsAccept(k)
        /\ m.n < w.ns
        /\ {k.n : k \in net[r] \ {m}} = (m.n + 1) .. (w.ns - 1)
    BY OldestOpens
  <1>3. /\ s \in Session /\ w \in Session /\ m \in Message /\ m \in sent[p]
        /\ serial[p] \in Nat
    BY <1>1 DEF CalmInv, OpenInv, IInv, TypeOK, Bookkeeping
  <1>4. /\ t.hks = s.hks /\ t.cks = s.cks /\ t.ns = s.ns
        /\ t.sendKem = s.sendKem
    BY <1>2, <1>3, DecryptFields
  <1>5. /\ st' = [st EXCEPT ![r] = t]
        /\ net' = [net EXCEPT ![r] = @ \ {m}]
        /\ serial' = serial
    BY <1>2 DEF Receive
  <1>6. m.kemPk # NoKey
    BY <1>1, <1>3 DEF CalmInv, OpenInv, Letters
  <1>7. m.n \in Nat /\ w.ns \in Nat /\ m.id \in Nat
    BY <1>3 DEF Message, Session
  <1> HIDE DEF t
  <1>8. /\ st'[r] = t /\ st'[p] = w /\ net'[r] = net[r] \ {m} /\ net'[p] = {}
    BY <1>1, <1>2, <1>5 DEF CalmInv, OpenInv, IInv, TypeOK
  <1>9. OpenInv'
    BY ReceiveOpen DEF CalmInv
  <1>10. OneWay'
    BY <1>1, <1>2, <1>8 DEF CalmInv, OneWay
  <1>11. ~Accepting(r)' /\ ~Accepting(p)' /\ ~Accepting(p)
    BY <1>2, <1>8 DEF Accepting
  <1>12. \A k \in net[r] :
           /\ k.chain = w.cks /\ k.hk = w.hks
           /\ k.n + serial[p] + 1 = w.ns + k.id
           /\ k.id = serial[p] => k.kemPk = w.sendKem
    BY DEF CalmInv, OnTheWay
  <1>13. /\ s.nr \in Nat /\ s.ns \in Nat /\ w.nr <= s.ns /\ w.ckr = s.cks
         /\ {k.n : k \in net[p]} = w.nr .. (s.ns - 1)
    BY <1>1, <1>3, <1>11 DEF CalmInv, OnTheWay, Session
  <1>14. OnTheWay'
    <2> SUFFICES ASSUME NEW q \in Role
                 PROVE  LET v == st'[Peer(q)] IN
          /\ \A k \in net'[q] :
               /\ k.chain = v.cks /\ k.hk = v.hks
               /\ k.n + serial'[Peer(q)] + 1 = v.ns + k.id
               /\ k.id = serial'[Peer(q)] => k.kemPk = v.sendKem
               /\ ~IsAccept(k)
          /\ ~Accepting(q)'
          /\ st'[q].nr <= v.ns
          /\ {k.n : k \in net'[q]} = st'[q].nr .. (v.ns - 1)
          /\ st'[q].ckr = v.cks
          /\ ~NewTurn(v) => st'[q].hkr = v.hks
      BY DEF OnTheWay
    <2>1. CASE q = r
      <3>1. m.n + 1 <= w.ns
        BY <1>2, <1>7
      <3> QED
        BY <1>2, <1>5, <1>8, <1>11, <1>12, <2>1, <3>1
    <2>2. CASE q = p
      <3>1. NewTurn(t)
        BY <1>2 DEF NewTurn
      <3> QED
        BY <1>1, <1>2, <1>4, <1>8, <1>11, <1>13, <2>2, <3>1
    <2> QED
      BY <1>1, <2>1, <2>2
  <1>15. net'[r] = {} => t.peerKem = w.sendKem
    <2> SUFFICES ASSUME net[r] \ {m} = {} PROVE m.kemPk = w.sendKem
      BY <1>2, <1>8
    <2>1. (m.n + 1) .. (w.ns - 1) = {}
      BY <1>2
    <2>2. m.n = w.ns - 1
      <3>1. m.n + 1 <= w.ns - 1 => m.n + 1 \in (m.n + 1) .. (w.ns - 1)
        BY <1>7
      <3> QED
        BY <1>2, <1>7, <2>1, <3>1
    <2>3. m.id = serial[p]
      BY <1>3, <1>7, <1>12, <2>2
    <2> QED
      BY <1>12, <2>3
  <1>16. InTouch'
    <2> SUFFICES ASSUME NEW q \in Role
                 PROVE  LET v == st'[Peer(q)] IN
          /\ ~Accepting(q)' /\ ~Accepting(Peer(q))' => st'[q].rk = v.rk
          /\ st'[q].lastAction = "send" =>
               st'[q].rk = st'[q].hkr \/ st'[q].rk \in st'[q].nhkr
          /\ NewTurn(st'[q]) =>
               /\ net'[Peer(q)] = {} /\ ~NewTurn(v)
               /\ st'[q].peerKem # NoKey /\ net'[q] = {} =>
                    st'[q].peerKem = v.sendKem
          /\ st'[q].peerKem = NoKey /\ NewTurn(st'[q]) =>
               st'[q].rk = <<>> /\ {st'[q].hks, st'[q].hkr, v.hkr} = {<<>>}
      BY DEF InTouch
    <2>1. CASE q = r
      BY <1>2, <1>6, <1>8, <1>15, <2>1
    <2>2. CASE q = p
      <3>1. w.lastAction = "send" => w.rk = w.hkr \/ w.rk \in w.nhkr
        BY <1>1 DEF CalmInv, InTouch
      <3> QED
        BY <1>1, <1>2, <1>8, <2>2, <3>1
    <2> QED
      BY <1>1, <2>1, <2>2
  <1> QED
    BY <1>9, <1>10, <1>14, <1>16 DEF CalmInv

(* Writing, with everything read. *)
LEMMA WriteCalm ==
  ASSUME CalmInv, NEW r \in Role, HasReadAll(r), Send(r)
  PROVE  CalmInv'
  <1> DEFINE p == Peer(r)
             s == st[r]
             l == st[p]
             id == serial[r] + 1
             t == Encrypt(s, id).state
             m == Encrypt(s, id).msg
             rolled == Append(s.rk, <<r, id>>)
  <1>1. p \in Role /\ Peer(p) = r /\ p # r /\ \A q \in Role : q = r \/ q = p
    BY DEF Peer, Role
  <1>2. /\ s \in Session /\ s.role = r /\ l \in Session
        /\ id \in Nat \ {0} /\ serial[r] \in Nat
    BY <1>1 DEF CalmInv, OpenInv, IInv, TypeOK, Bookkeeping
  <1>3. /\ st' = [st EXCEPT ![r] = t] /\ serial' = [serial EXCEPT ![r] = id]
        /\ net' = [net EXCEPT ![p] = @ \cup {m}]
    BY DEF Send, SendStep
  <1>4. /\ t.ckr = s.ckr /\ t.nr = s.nr /\ t.skipped = s.skipped
        /\ t.hkr = s.hkr /\ m.id = id /\ m.chain = t.cks /\ t.ns = m.n + 1
    <2> HIDE DEF s, id
    <2> QED
      BY <1>2, EncryptEffect, EncryptFields
  <1>5. /\ t.lastAction = "send"
        /\ m.hk = t.hks /\ m.kemPk = t.sendKem /\ m.pn = t.pn
        /\ Accepts(s) => /\ t.rk = rolled /\ t.cks = rolled /\ t.hks = s.rk
                         /\ t.nhkr = {rolled} /\ t.pn = s.ns /\ m.n = 0
                         /\ m.kemTo = s.peerKem
        /\ ~Accepts(s) => /\ t.rk = s.rk /\ t.cks = s.cks /\ t.nhkr = s.nhkr
                          /\ t.hks = (IF NewTurn(s) THEN s.rk ELSE s.hks)
                          /\ m.n = s.ns /\ m.kemTo = NoKey
    <2> HIDE DEF s, id
    <2> QED
      BY <1>2, EncryptFields
  <1>6. OpenInv'
    <2>1. SendStep(r, TRUE)
      BY DEF Send
    <2> QED
      BY <2>1, SendOpen DEF CalmInv
  <1> HIDE DEF t, m, rolled
  <1>7. /\ st'[r] = t /\ st'[p] = l /\ net'[r] = {} /\ net'[p] = net[p] \cup {m}
        /\ serial'[r] = id /\ net[r] = {} /\ serial'[p] = serial[p]
    BY <1>1, <1>3 DEF CalmInv, OpenInv, IInv, TypeOK, HasReadAll
  <1>8. OneWay'
    BY <1>1, <1>4, <1>7 DEF CalmInv, OneWay
  <1>9. ~Accepting(r) /\ ~Accepting(r)'
    BY <1>7 DEF Accepting
  <1>10. /\ NewTurn(s) => /\ net[p] = {} /\ ~NewTurn(l)
                          /\ s.peerKem # NoKey => s.peerKem = l.sendKem
         /\ s.peerKem = NoKey /\ NewTurn(s) =>
              s.rk = <<>> /\ s.hks = <<>> /\ s.hkr = <<>> /\ l.hkr = <<>>
         /\ s.lastAction = "send" => s.rk = s.hkr \/ s.rk \in s.nhkr
         /\ l.lastAction = "send" => l.rk = l.hkr \/ l.rk \in l.nhkr
         /\ ~Accepting(p) => s.rk = l.rk
         /\ NewTurn(l) => ~NewTurn(s)
         /\ l.peerKem = NoKey /\ NewTurn(l) =>
              l.rk = <<>> /\ {l.hks, l.hkr, s.hkr} = {<<>>}
    <2>1. /\ NewTurn(s) => /\ net[p] = {} /\ ~NewTurn(l)
                           /\ s.peerKem # NoKey => s.peerKem = l.sendKem
          /\ s.peerKem = NoKey /\ NewTurn(s) =>
               s.rk = <<>> /\ {s.hks, s.hkr, l.hkr} = {<<>>}
          /\ s.lastAction = "send" => s.rk = s.hkr \/ s.rk \in s.nhkr
          /\ ~Accepting(p) => s.rk = l.rk
      BY <1>7, <1>9 DEF CalmInv, InTouch
    <2>2. /\ l.lastAction = "send" => l.rk = l.hkr \/ l.rk \in l.nhkr
          /\ NewTurn(l) => ~NewTurn(s)
          /\ l.peerKem = NoKey /\ NewTurn(l) =>
               l.rk = <<>> /\ {l.hks, l.hkr, s.hkr} = {<<>>}
      BY <1>1 DEF CalmInv, InTouch
    <2>3. {s.hks, s.hkr, l.hkr} = {<<>>} =>
            s.hks = <<>> /\ s.hkr = <<>> /\ l.hkr = <<>>
      <3> HIDE DEF s, l
      <3> QED
        OBVIOUS
    <2> HIDE DEF s, l, p
    <2> QED
      BY <2>1, <2>2, <2>3
  <1>11. /\ \A k \in net[p] :
              /\ k.chain = s.cks /\ k.hk = s.hks
              /\ k.n + serial[r] + 1 = s.ns + k.id
              /\ IsAccept(k) =>
                   /\ k.n = 0 /\ k.pn = l.nr /\ k.kemTo = l.sendKem
                   /\ s.hks = l.rk /\ s.rk = s.cks
                   /\ OpenedBy(r, s.hks, s.cks, k.id)
                   /\ l.lastAction = "send"
         /\ IF Accepting(p)
            THEN {k.n : k \in net[p]} = 0 .. (s.ns - 1)
            ELSE /\ l.nr <= s.ns
                 /\ {k.n : k \in net[p]} = l.nr .. (s.ns - 1)
                 /\ l.ckr = s.cks
                 /\ ~NewTurn(s) => l.hkr = s.hks
    BY <1>1 DEF CalmInv, OnTheWay
  <1>12. /\ s.nr <= l.ns /\ {k.n : k \in net[r]} = s.nr .. (l.ns - 1)
         /\ s.ckr = l.cks
         /\ ~NewTurn(l) => s.hkr = l.hks
    BY <1>1, <1>9 DEF CalmInv, OnTheWay
  <1>13. /\ s.ns \in Nat /\ l.nr \in Nat
         /\ \A k \in net[p] : k.n \in Nat /\ k.id \in Nat /\ k.id <= serial[r]
    <2>1. s.ns \in Nat /\ l.nr \in Nat
      BY <1>2 DEF Session
    <2>2. \A k \in net[p] : k \in sent[r] /\ k \in Message
      BY <1>1 DEF CalmInv, OpenInv, IInv, TypeOK, Bookkeeping
    <2>3. \A k \in sent[r] : k.id <= serial[r]
      BY DEF CalmInv, OpenInv, Letters
    <2> QED
      BY <2>1, <2>2, <2>3 DEF Message
  <1>14. /\ {s.lastAction, l.lastAction} \subseteq {"send", "recv"}
    BY <1>2 DEF Session
  <1>15. CASE Accepts(s)
    <2>1. /\ NewTurn(s) /\ s.peerKem # NoKey /\ net[p] = {} /\ net'[p] = {m}
          /\ s.peerKem = l.sendKem /\ ~NewTurn(l) /\ l.lastAction = "send"
      BY <1>7, <1>10, <1>14, <1>15 DEF Accepts, NewTurn
    <2>2. l.nr = s.ns /\ l.rk = s.rk
      <3>1. ~Accepting(p)
        BY <2>1 DEF Accepting
      <3>2. l.nr <= s.ns /\ l.nr .. (s.ns - 1) = {} /\ s.rk = l.rk
        BY <1>10, <1>11, <2>1, <3>1
      <3> QED
        BY <1>13, <3>2
    <2>3. IsAccept(m) /\ Accepting(p)'
      BY <1>5, <1>15, <2>1 DEF IsAccept, Accepting
    <2>4. /\ m.chain = t.cks /\ m.hk = t.hks /\ m.n + id + 1 = t.ns + m.id
          /\ m.kemPk = t.sendKem
          /\ m.n = 0 /\ m.pn = l.nr /\ m.kemTo = l.sendKem
          /\ t.hks = l.rk /\ t.rk = t.cks
          /\ OpenedBy(r, t.hks, t.cks, m.id)
          /\ t.ns = 1
      <3>1. OpenedBy(r, t.hks, t.cks, m.id)
        BY <1>4, <1>5, <1>15 DEF OpenedBy, rolled
      <3>2. m.n + id + 1 = t.ns + m.id /\ t.ns = 1
        BY <1>2, <1>4, <1>5, <1>15
      <3> HIDE DEF s, l, id
      <3> QED
        BY <1>4, <1>5, <1>15, <2>1, <2>2, <3>1, <3>2
    <2>5. {k.n : k \in net'[p]} = 0 .. (t.ns - 1)
      <3>1. {k.n : k \in net'[p]} = {0}
        BY <2>1, <2>4
      <3>2. t.ns - 1 = 0 /\ 0 .. 0 = {0}
        BY <2>4
      <3> QED
        BY <3>1, <3>2
    <2> HIDE DEF s, l, id, p
    <2>6. OnTheWay'
      <3> SUFFICES ASSUME NEW q \in Role
                   PROVE  LET v == st'[Peer(q)] IN
            /\ \A k \in net'[q] :
                 /\ k.chain = v.cks /\ k.hk = v.hks
                 /\ k.n + serial'[Peer(q)] + 1 = v.ns + k.id
                 /\ k.id = serial'[Peer(q)] => k.kemPk = v.sendKem
                 /\ IsAccept(k) =>
                      /\ k.n = 0 /\ k.pn = st'[q].nr
                      /\ k.kemTo = st'[q].sendKem
                      /\ v.hks = st'[q].rk /\ v.rk = v.cks
                      /\ OpenedBy(Peer(q), v.hks, v.cks, k.id)
                      /\ st'[q].lastAction = "send"
            /\ IF Accepting(q)'
               THEN {k.n : k \in net'[q]} = 0 .. (v.ns - 1)
               ELSE /\ st'[q].nr <= v.ns
                    /\ {k.n : k \in net'[q]} = st'[q].nr .. (v.ns - 1)
                    /\ st'[q].ckr = v.cks
                    /\ ~NewTurn(v) => st'[q].hkr = v.hks
        BY DEF OnTheWay
      <3>1. CASE q = p
        BY <1>1, <1>7, <2>1, <2>3, <2>4, <2>5, <3>1
      <3>2. CASE q = r
        BY <1>1, <1>4, <1>7, <1>9, <1>12, <3>2 DEF p, l, s
      <3> QED
        BY <1>1, <3>1, <3>2
    <2>7. InTouch'
      <3> SUFFICES ASSUME NEW q \in Role
                   PROVE  LET v == st'[Peer(q)] IN
            /\ ~Accepting(q)' /\ ~Accepting(Peer(q))' => st'[q].rk = v.rk
            /\ st'[q].lastAction = "send" =>
                 st'[q].rk = st'[q].hkr \/ st'[q].rk \in st'[q].nhkr
            /\ NewTurn(st'[q]) =>
                 /\ net'[Peer(q)] = {} /\ ~NewTurn(v)
                 /\ st'[q].peerKem # NoKey /\ net'[q] = {} =>
                      st'[q].peerKem = v.sendKem
            /\ st'[q].peerKem = NoKey /\ NewTurn(st'[q]) =>
                 st'[q].rk = <<>> /\ {st'[q].hks, st'[q].hkr, v.hkr} = {<<>>}
        BY DEF InTouch
      <3>1. ~NewTurn(t)
        BY <1>5 DEF NewTurn
      <3>2. CASE q = p
        BY <1>1, <1>7, <1>10, <2>1, <2>3, <3>2
      <3>3. CASE q = r
        BY <1>1, <1>5, <1>7, <1>15, <2>3, <3>1, <3>3 DEF p
      <3> QED
        BY <1>1, <3>2, <3>3
    <2> QED
      BY <1>6, <1>8, <2>6, <2>7 DEF CalmInv
  <1>16. CASE ~Accepts(s)
    <2>1. /\ t.rk = s.rk /\ t.cks = s.cks /\ t.nhkr = s.nhkr /\ t.hks = s.hks
          /\ m.n = s.ns /\ ~IsAccept(m) /\ t.ns = s.ns + 1
      BY <1>4, <1>5, <1>10, <1>16 DEF Accepts, IsAccept
    <2>2. Accepting(p)' <=> Accepting(p)
      BY <1>7, <2>1 DEF Accepting
    <2>3. ASSUME NEW k \in net'[p]
          PROVE  /\ k.chain = t.cks /\ k.hk = t.hks
                 /\ k.n + id + 1 = t.ns + k.id
                 /\ k.id = id => k.kemPk = t.sendKem
                 /\ IsAccept(k) =>
                      /\ k.n = 0 /\ k.pn = l.nr /\ k.kemTo = l.sendKem
                      /\ t.hks = l.rk /\ t.rk = t.cks
                      /\ OpenedBy(r, t.hks, t.cks, k.id)
                      /\ l.lastAction = "send"
      <3>1. CASE k \in net[p]
        <4>1. k.n + id + 1 = t.ns + k.id /\ k.id # id
          BY <1>2, <1>11, <1>13, <2>1, <3>1
        <4> QED
          BY <1>11, <2>1, <3>1, <4>1
      <3>2. CASE k = m
        <4>1. m.n + id + 1 = t.ns + id
          BY <1>2, <1>13, <2>1
        <4> QED
          BY <1>4, <1>5, <2>1, <3>2, <4>1
      <3> QED
        BY <1>7, <3>1, <3>2
    <2>4. \A a \in {0, l.nr} :
            a <= s.ns /\ {k.n : k \in net[p]} = a .. (s.ns - 1) =>
              a <= t.ns /\ {k.n : k \in net'[p]} = a .. (t.ns - 1)
      <3> DEFINE N == {k.n : k \in net[p]}
                 M == {k.n : k \in net'[p]}
      <3>1. M = N \cup {s.ns}
        BY <1>7, <2>1
      <3> HIDE DEF N, M
      <3> SUFFICES ASSUME NEW a \in {0, l.nr}, a <= s.ns, N = a .. (s.ns - 1)
                   PROVE  a <= t.ns /\ M = a .. (t.ns - 1)
        BY DEF N, M
      <3>2. a \in Nat
        BY <1>13
      <3> QED
        BY <1>13, <2>1, <3>1, <3>2
    <2>5. IF Accepting(p)'
          THEN {k.n : k \in net'[p]} = 0 .. (t.ns - 1)
          ELSE /\ l.nr <= t.ns
               /\ {k.n : k \in net'[p]} = l.nr .. (t.ns - 1)
               /\ l.ckr = t.cks
               /\ ~NewTurn(t) => l.hkr = t.hks
      <3>1. CASE Accepting(p)
        <4>1. 0 <= s.ns
          BY <1>13
        <4> QED
          BY <1>11, <2>2, <2>4, <3>1, <4>1
      <3>2. CASE ~Accepting(p)
        <4>1. l.hkr = t.hks
          BY <1>10, <1>11, <1>16, <2>1, <3>2 DEF Accepts
        <4> QED
          BY <1>11, <2>1, <2>2, <2>4, <3>2, <4>1
      <3> QED
        BY <3>1, <3>2
    <2>6. s.rk = s.hkr \/ s.rk \in s.nhkr
      <3>1. CASE NewTurn(s)
        BY <1>10, <1>16, <3>1 DEF Accepts
      <3>2. CASE ~NewTurn(s)
        BY <1>10, <1>14, <3>2 DEF NewTurn
      <3> QED
        BY <3>1, <3>2
    <2> HIDE DEF s, l, id, p
    <2>7. OnTheWay'
      <3> SUFFICES ASSUME NEW q \in Role
                   PROVE  LET v == st'[Peer(q)] IN
            /\ \A k \in net'[q] :
                 /\ k.chain = v.cks /\ k.hk = v.hks
                 /\ k.n + serial'[Peer(q)] + 1 = v.ns + k.id
                 /\ k.id = serial'[Peer(q)] => k.kemPk = v.sendKem
                 /\ IsAccept(k) =>
                      /\ k.n = 0 /\ k.pn = st'[q].nr
                      /\ k.kemTo = st'[q].sendKem
                      /\ v.hks = st'[q].rk /\ v.rk = v.cks
                      /\ OpenedBy(Peer(q), v.hks, v.cks, k.id)
                      /\ st'[q].lastAction = "send"
            /\ IF Accepting(q)'
               THEN {k.n : k \in net'[q]} = 0 .. (v.ns - 1)
               ELSE /\ st'[q].nr <= v.ns
                    /\ {k.n : k \in net'[q]} = st'[q].nr .. (v.ns - 1)
                    /\ st'[q].ckr = v.cks
                    /\ ~NewTurn(v) => st'[q].hkr = v.hks
        BY DEF OnTheWay
      <3>1. CASE q = p
        BY <1>1, <1>7, <2>3, <2>5, <3>1
      <3>2. CASE q = r
        BY <1>1, <1>4, <1>7, <1>9, <1>12, <3>2 DEF p, l, s
      <3> QED
        BY <1>1, <3>1, <3>2
    <2>8. InTouch'
      <3> SUFFICES ASSUME NEW q \in Role
                   PROVE  LET v == st'[Peer(q)] IN
            /\ ~Accepting(q)' /\ ~Accepting(Peer(q))' => st'[q].rk = v.rk
            /\ st'[q].lastAction = "send" =>
                 st'[q].rk = st'[q].hkr \/ st'[q].rk \in st'[q].nhkr
            /\ NewTurn(st'[q]) =>
                 /\ net'[Peer(q)] = {} /\ ~NewTurn(v)
                 /\ st'[q].peerKem # NoKey /\ net'[q] = {} =>
                      st'[q].peerKem = v.sendKem
            /\ st'[q].peerKem = NoKey /\ NewTurn(st'[q]) =>
                 st'[q].rk = <<>> /\ {st'[q].hks, st'[q].hkr, v.hkr} = {<<>>}
        BY DEF InTouch
      <3>1. ~NewTurn(t)
        BY <1>5 DEF NewTurn
      <3>2. net'[p] # {}
        BY <1>7
      <3>3. CASE q = p
        BY <1>1, <1>4, <1>7, <1>9, <1>10, <2>1, <2>2, <3>1, <3>2, <3>3
      <3>4. CASE q = r
        BY <1>1, <1>4, <1>7, <1>9, <1>10, <2>1, <2>2, <2>6, <3>1, <3>4 DEF p
      <3> QED
        BY <1>1, <3>3, <3>4
    <2> QED
      BY <1>6, <1>8, <2>7, <2>8 DEF CalmInv
  <1> QED
    BY <1>15, <1>16

LEMMA TurnCalm == CalmInv /\ [TurnsNext]_vars => CalmInv'
  <1> SUFFICES ASSUME CalmInv, [TurnsNext]_vars PROVE CalmInv'
    OBVIOUS
  <1>1. ASSUME NEW r \in Role, HasReadAll(r), Send(r) PROVE CalmInv'
    BY <1>1, WriteCalm
  <1>2. ASSUME NEW r \in Role, ReceiveOldest(r) PROVE CalmInv'
    <2>1. PICK m \in net[r] : Oldest(r, m) /\ Receive(r, m, TRUE)
      BY <1>2 DEF ReceiveOldest
    <2> QED
      BY <2>1, ReadCalm
  <1>3. CASE UNCHANGED vars
    <2>1. OpenInv'
      BY <1>3, NextOpen DEF CalmInv
    <2>2. UNCHANGED <<st, serial, net>>
      BY <1>3 DEF vars
    <2>3. \A r \in Role : Accepting(r)' <=> Accepting(r)
      BY <2>2 DEF Accepting
    <2>4. OneWay' /\ InTouch'
      BY <2>2, <2>3, PeerIsRole DEF CalmInv, OneWay, InTouch
    <2>5. OnTheWay'
      BY <2>2, <2>3, PeerIsRole DEF CalmInv, OnTheWay
    <2> QED
      BY <2>1, <2>4, <2>5 DEF CalmInv
  <1> QED
    BY <1>1, <1>2, <1>3 DEF TurnsNext

LEMMA CalmOpensNext == CalmInv => NextEnvelopeOpens
  BY OldestOpens DEF NextEnvelopeOpens

(* Peers who take turns lose nothing: every envelope opens when its turn
   comes, through every accept and offer refresh (ratchetEncrypt and
   ratchetDecrypt at a change of turn). *)
THEOREM TurnsReadEverything == TurnsSpec => []NextEnvelopeOpens
  BY InitCalm, TurnCalm, CalmOpensNext, PTL DEF TurnsSpec

(* The same of the instances the run checks, whose `calm' picks between the
   two environments. *)
THEOREM CalmRunReadsEverything == MCSpec => []CalmOpens
  <1> DEFINE MCInv == OpenInv /\ (calm => CalmInv)
  <1>1. MCInit => MCInv
    BY InitOpen, InitCalm DEF MCInit
  <1>2. MCInv /\ [MCNext]_<<vars, calm>> => MCInv'
    <2> SUFFICES ASSUME MCInv, [MCNext]_<<vars, calm>> PROVE MCInv'
      OBVIOUS
    <2>1. calm' = calm /\ IF calm THEN [TurnsNext]_vars ELSE [Next]_vars
      BY DEF MCNext
    <2>2. CASE calm
      <3>1. CalmInv'
        BY <2>1, <2>2, TurnCalm
      <3> QED
        BY <2>1, <2>2, <3>1 DEF CalmInv
    <2>3. CASE ~calm
      BY <2>1, <2>3, NextOpen
    <2> QED
      BY <2>2, <2>3
  <1>3. MCInv => CalmOpens
    BY CalmOpensNext DEF CalmOpens
  <1> QED
    BY <1>1, <1>2, <1>3, PTL DEF MCSpec
=============================================================================
