--------------------------- MODULE Mempool_proofs ---------------------------
(***************************************************************************)
(* Whatever is received, connected and disconnected, the pool passes the   *)
(* checks of CTxMemPool::check, for any transactions, any blocks and any   *)
(* reorganisation; and the index of the orphans is exact.                  *)
(*                                                                         *)
(* Removal with descendants is a least closed set, so it needs no          *)
(* induction; removeForBlock does, over the transactions of the block.  It *)
(* is done with sets of naturals and their least element.                  *)
(***************************************************************************)
EXTENDS Mempool, TLAPS

-----------------------------------------------------------------------------
(* The pool *)

LEMMA TxFacts == NoTx \notin Txs /\ Spends \in [Txs -> SUBSET Outpoints]
  BY ConstantsAssumption

USE TxFacts

Pools == [tx: SUBSET Txs, next: [Outpoints -> Txs \cup {NoTx}]]

Agrees(m) ==
    \A out \in Outpoints : {t \in m.tx : out \in Spends[t]} = {m.next[out]} \ {NoTx}

LEMMA OutpointTx == \A out \in Outpoints : out[1] \in Txs
  BY DEF Outpoints

LEMMA SpendsOutpoints == \A t \in Txs : \A out \in Spends[t] : out \in Outpoints /\ out[1] \in Txs
  BY OutpointTx

\* What Agrees says of one transaction, and of one entry of mapNextTx
LEMMA AgreesNext ==
    ASSUME NEW m \in Pools, Agrees(m)
    PROVE  /\ \A t \in m.tx : \A out \in Spends[t] : m.next[out] = t
           /\ \A out \in Outpoints : m.next[out] # NoTx =>
                 m.next[out] \in m.tx /\ out \in Spends[m.next[out]]
<1>1. ASSUME NEW t \in m.tx, NEW out \in Spends[t] PROVE m.next[out] = t
  <2>1. out \in Outpoints /\ t \in Txs
    BY SpendsOutpoints DEF Pools
  <2> QED
    BY <2>1 DEF Agrees
<1>2. ASSUME NEW out \in Outpoints, m.next[out] # NoTx
      PROVE  m.next[out] \in m.tx /\ out \in Spends[m.next[out]]
  BY <1>2 DEF Agrees
<1> QED
  BY <1>1, <1>2

LEMMA NextAgrees ==
    ASSUME NEW m \in Pools,
           \A t \in m.tx : \A out \in Spends[t] : m.next[out] = t,
           \A out \in Outpoints : m.next[out] # NoTx =>
              m.next[out] \in m.tx /\ out \in Spends[m.next[out]]
    PROVE  Agrees(m)
<1> SUFFICES ASSUME NEW out \in Outpoints
             PROVE  {t \in m.tx : out \in Spends[t]} = {m.next[out]} \ {NoTx}
  BY DEF Agrees
<1>1. \A t \in m.tx : t # NoTx
  BY DEF Pools
<1> QED
  BY <1>1

LEMMA WithoutOK ==
    ASSUME NEW m \in Pools, Agrees(m), NEW S
    PROVE  /\ Without(m, S) \in Pools /\ Agrees(Without(m, S))
           /\ Without(m, S).tx = m.tx \ S
<1> DEFINE gone == S \cap m.tx
           r    == Without(m, S)
<1>1. r = [tx |-> m.tx \ gone,
           next |-> [out \in Outpoints |->
                       IF \E t \in gone : out \in Spends[t] THEN NoTx ELSE m.next[out]]]
  BY DEF Without
<1>2. r \in Pools /\ r.tx = m.tx \ S
  BY <1>1 DEF Pools
<1>3. \A out \in Outpoints :
         r.next[out] = IF \E t \in gone : out \in Spends[t] THEN NoTx ELSE m.next[out]
  BY <1>1
<1> HIDE DEF r
<1>4. ASSUME NEW t \in r.tx, NEW out \in Spends[t] PROVE r.next[out] = t
  <2>0. t \in m.tx /\ t \notin gone
    BY <1>2
  <2>1. out \in Outpoints /\ m.next[out] = t
    BY <2>0, SpendsOutpoints, AgreesNext DEF Pools
  <2>2. ~ \E u \in gone : out \in Spends[u]
    BY <2>0, <2>1, AgreesNext
  <2> QED
    BY <1>3, <2>1, <2>2
<1>5. ASSUME NEW out \in Outpoints, r.next[out] # NoTx
      PROVE  r.next[out] \in r.tx /\ out \in Spends[r.next[out]]
  <2>1. r.next[out] = m.next[out] /\ ~ \E u \in gone : out \in Spends[u]
    BY <1>3, <1>5
  <2>2. m.next[out] \in m.tx /\ out \in Spends[m.next[out]]
    BY <1>5, <2>1, AgreesNext
  <2> QED
    BY <1>2, <2>1, <2>2
<1>6. Agrees(r)
  BY <1>2, <1>4, <1>5, NextAgrees
<1> QED
  BY <1>2, <1>6 DEF r

\* Whatever a transaction that stays spends, it spends from one that stays.
LEMMA RemoveRecursiveOK ==
    ASSUME NEW m \in Pools, Agrees(m), NEW S
    PROVE  LET r == RemoveRecursive(m, S)
           IN  /\ r \in Pools /\ Agrees(r)
               /\ r.tx \subseteq m.tx /\ r.tx \cap S = {}
               /\ \A u \in r.tx : \A out \in Spends[u] :
                     out[1] \notin S /\ (out[1] \in m.tx => out[1] \in r.tx)
<1> DEFINE Closed(D) == Spenders(m, S \cup D) \subseteq D
           below == {t \in m.tx : \A D \in SUBSET m.tx : Closed(D) => t \in D}
           all   == S \cup below
           r     == RemoveRecursive(m, S)
<1>1. all = WithDescendants(m, S) /\ r = Without(m, all)
  BY DEF WithDescendants, RemoveRecursive
<1>2. r \in Pools /\ Agrees(r) /\ r.tx = m.tx \ all
  <2> HIDE DEF all, r
  <2> QED
    BY <1>1, WithoutOK
<1>3. ASSUME NEW u \in m.tx, NEW out \in Spends[u], out[1] \in all PROVE u \in below
  <2>0. u \in Txs /\ u # NoTx
    BY DEF Pools
  <2>1. out \in Outpoints /\ m.next[out] = u
    BY <2>0, SpendsOutpoints, AgreesNext
  <2>2. ASSUME NEW D \in SUBSET m.tx, Closed(D) PROVE u \in D
    <3>1. below \subseteq D
      BY <2>2
    <3>2. out[1] \in S \cup D
      BY <1>3, <3>1, Zenon
    <3>3. u \in Spenders(m, S \cup D)
      BY <2>0, <2>1, <3>2 DEF Spenders
    <3> QED
      BY <2>2, <3>3
  <2> QED
    BY <2>2
<1>4. ASSUME NEW u \in r.tx, NEW out \in Spends[u]
      PROVE  out[1] \notin S /\ (out[1] \in m.tx => out[1] \in r.tx)
  BY <1>2, <1>3, Zenon
<1> QED
  BY <1>2, <1>4, Zenon
OneRemoved(m, t) == RemoveConflicts(Without(m, {t}), t)

\* The recursive function of RemoveForBlock is what its definition says.

\* After the first i transactions of the block b, the pool m has become r.
RemovedUpTo(m, b, i, r) ==
    /\ r \in Pools /\ Agrees(r) /\ r.tx \subseteq m.tx
    /\ \A j \in 1 .. i : b[j] \notin r.tx
    /\ \A j \in 1 .. i : \A u \in r.tx : Spends[u] \cap Spends[b[j]] = {}
    /\ \A u \in r.tx : \A out \in Spends[u] : out[1] \in m.tx =>
          out[1] \in r.tx \/ \E j \in 1 .. i : b[j] = out[1]

LEMMA OneRemovedOK ==
    ASSUME NEW r \in Pools, Agrees(r), NEW t \in Txs
    PROVE  LET q == OneRemoved(r, t)
           IN  /\ q \in Pools /\ Agrees(q) /\ q.tx \subseteq r.tx /\ t \notin q.tx
               /\ \A u \in q.tx : Spends[u] \cap Spends[t] = {}
               /\ \A u \in q.tx : \A out \in Spends[u] :
                     out[1] \in r.tx => out[1] \in q.tx \/ out[1] = t
<1> DEFINE x == Without(r, {t})
           S == {x.next[out] : out \in Spends[t]} \ {NoTx, t}
           q == OneRemoved(r, t)
<1>1. x \in Pools /\ Agrees(x) /\ x.tx = r.tx \ {t}
  BY WithoutOK
<1>2. q = RemoveRecursive(x, S)
  BY DEF OneRemoved, RemoveConflicts
<1> HIDE DEF x, q, S
<1>3. /\ q \in Pools /\ Agrees(q) /\ q.tx \subseteq x.tx /\ q.tx \cap S = {}
      /\ \A u \in q.tx : \A out \in Spends[u] : out[1] \in x.tx => out[1] \in q.tx
  BY <1>1, <1>2, RemoveRecursiveOK
<1>4. ASSUME NEW u \in q.tx, NEW out \in Spends[u] \cap Spends[t] PROVE FALSE
  <2>1. u \in x.tx /\ u # t /\ u # NoTx
    BY <1>1, <1>3 DEF Pools
  <2>2. x.next[out] = u
    BY <1>1, <2>1, AgreesNext
  <2>3. u \in S
    BY <2>1, <2>2 DEF S
  <2> QED
    BY <1>3, <2>3
<1>5. /\ q.tx \subseteq r.tx /\ t \notin q.tx
      /\ \A u \in q.tx : \A out \in Spends[u] : out[1] \in r.tx => out[1] \in q.tx \/ out[1] = t
  BY <1>1, <1>3
<1> QED
  BY <1>3, <1>4, <1>5 DEF q

LEMMA RemovedOneMore ==
    ASSUME NEW m \in Pools, NEW b \in Seq(Txs), NEW i \in 0 .. Len(b) - 1, NEW r,
           RemovedUpTo(m, b, i, r)
    PROVE  RemovedUpTo(m, b, i + 1, OneRemoved(r, b[i + 1]))
<1> DEFINE t == b[i + 1]
           q == OneRemoved(r, t)
<1>1. t \in Txs /\ Len(b) \in Nat /\ i + 1 \in 1 .. Len(b)
  OBVIOUS
<1>2. \A j \in 1 .. i + 1 : j \in 1 .. i \/ j = i + 1
  BY <1>1
<1>3. \A j \in 1 .. i : j \in 1 .. i + 1
  BY <1>1
<1>4. i + 1 \in 1 .. i + 1
  BY <1>1
<1>0. r \in Pools /\ Agrees(r)
  BY DEF RemovedUpTo
<1> HIDE DEF t
<1>5. /\ q \in Pools /\ Agrees(q) /\ q.tx \subseteq r.tx /\ t \notin q.tx
      /\ \A u \in q.tx : Spends[u] \cap Spends[t] = {}
      /\ \A u \in q.tx : \A out \in Spends[u] : out[1] \in r.tx => out[1] \in q.tx \/ out[1] = t
  BY <1>0, <1>1, OneRemovedOK, Zenon
<1> HIDE DEF q
<1>6. r.tx \subseteq m.tx
  BY DEF RemovedUpTo
<1>7. \A j \in 1 .. i + 1 : b[j] \notin q.tx
  BY <1>2, <1>5 DEF RemovedUpTo, t
<1>8. \A j \in 1 .. i + 1 : \A u \in q.tx : Spends[u] \cap Spends[b[j]] = {}
  BY <1>2, <1>5 DEF RemovedUpTo, t
<1>9. ASSUME NEW u \in q.tx, NEW out \in Spends[u], out[1] \in m.tx
      PROVE  out[1] \in q.tx \/ \E j \in 1 .. i + 1 : b[j] = out[1]
  <2>1. out[1] \in r.tx \/ \E j \in 1 .. i : b[j] = out[1]
    BY <1>5, <1>9 DEF RemovedUpTo
  <2> QED
    BY <1>3, <1>4, <1>5, <2>1 DEF t
<1> QED
  BY <1>5, <1>6, <1>7, <1>8, <1>9 DEF RemovedUpTo, q, t

LEMMA AddUncheckedOK ==
    ASSUME NEW m \in Pools, Agrees(m), NEW t \in Txs, t \notin m.tx,
           \A out \in Spends[t] : m.next[out] = NoTx
    PROVE  /\ AddUnchecked(m, t) \in Pools /\ Agrees(AddUnchecked(m, t))
           /\ AddUnchecked(m, t).tx = m.tx \cup {t}
<1> DEFINE r == AddUnchecked(m, t)
<1>1. r = [tx |-> m.tx \cup {t},
           next |-> [out \in Outpoints |-> IF out \in Spends[t] THEN t ELSE m.next[out]]]
  BY DEF AddUnchecked
<1>2. r \in Pools /\ r.tx = m.tx \cup {t}
  BY <1>1 DEF Pools
<1>3. \A out \in Outpoints : r.next[out] = IF out \in Spends[t] THEN t ELSE m.next[out]
  BY <1>1
<1> HIDE DEF r
<1>4. ASSUME NEW u \in r.tx, NEW out \in Spends[u] PROVE r.next[out] = u
  <2>1. out \in Outpoints
    BY <1>2, SpendsOutpoints DEF Pools
  <2>2. CASE u = t
    BY <1>3, <2>1, <2>2
  <2>3. CASE u \in m.tx
    <3>1. m.next[out] = u /\ u # NoTx
      BY <2>3, AgreesNext DEF Pools
    <3> QED
      BY <1>3, <2>1, <3>1
  <2> QED
    BY <1>2, <2>2, <2>3
<1>5. ASSUME NEW out \in Outpoints, r.next[out] # NoTx
      PROVE  r.next[out] \in r.tx /\ out \in Spends[r.next[out]]
  BY <1>2, <1>3, <1>5, AgreesNext
<1>6. Agrees(r)
  BY <1>2, <1>4, <1>5, NextAgrees
<1> QED
  BY <1>2, <1>6 DEF r

-----------------------------------------------------------------------------
(* The chain *)

LEMMA SplitLast ==
    ASSUME NEW S, NEW s \in Seq(S), Len(s) > 0
    PROVE  Front(s) \in Seq(S) /\ Last(s) \in S /\ s = Append(Front(s), Last(s))
<1>1. Front(s) \in Seq(S)
  BY DEF Front
<1>2. Last(s) \in S
  BY DEF Last
<1>3. s = Append(Front(s), Last(s))
  BY DEF Front, Last
<1> QED
  BY <1>1, <1>2, <1>3

LEMMA AppendSplit ==
    ASSUME NEW S, NEW s \in Seq(S), NEW e \in S
    PROVE  /\ Append(s, e) \in Seq(S) /\ Len(Append(s, e)) > 0
           /\ Front(Append(s, e)) = s /\ Last(Append(s, e)) = e
<1>1. Append(s, e) \in Seq(S) /\ Len(Append(s, e)) > 0
  OBVIOUS
<1>2. Front(Append(s, e)) = s
  BY DEF Front
<1>3. Last(Append(s, e)) = e
  BY DEF Last
<1> QED
  BY <1>1, <1>2, <1>3

Chains == Seq(Seq(Txs))

LEMMA FrontLast ==
    ASSUME NEW c \in Chains, Len(c) > 0
    PROVE  /\ Front(c) \in Chains /\ Last(c) \in Seq(Txs)
           /\ c = Append(Front(c), Last(c))
  BY SplitLast, Zenon DEF Chains

LEMMA FrontOfAppend ==
    ASSUME NEW c \in Chains, NEW b \in Seq(Txs)
    PROVE  /\ Append(c, b) \in Chains /\ Len(Append(c, b)) > 0
           /\ Front(Append(c, b)) = c /\ Last(Append(c, b)) = b
  BY AppendSplit DEF Chains

LEMMA InAppended ==
    ASSUME NEW c \in Chains, NEW b \in Seq(Txs)
    PROVE  /\ InChain(Append(c, b)) = InChain(c) \cup TxsOf(b)
           /\ DOMAIN Append(c, b) = 1 .. Len(c) + 1 /\ Len(Append(c, b)) = Len(c) + 1
           /\ \A h \in 1 .. Len(c) : Append(c, b)[h] = c[h]
           /\ Append(c, b)[Len(c) + 1] = b
<1>1. /\ DOMAIN Append(c, b) = 1 .. Len(c) + 1 /\ Len(Append(c, b)) = Len(c) + 1
      /\ \A h \in 1 .. Len(c) : Append(c, b)[h] = c[h]
      /\ Append(c, b)[Len(c) + 1] = b /\ Len(c) \in Nat /\ DOMAIN c = 1 .. Len(c)
  BY DEF Chains
<1>2. \A h \in 1 .. Len(c) + 1 : h \in 1 .. Len(c) \/ h = Len(c) + 1
  BY <1>1
<1>3. /\ \A h \in 1 .. Len(c) : h \in 1 .. Len(c) + 1
      /\ Len(c) + 1 \in 1 .. Len(c) + 1
  BY <1>1
<1> DEFINE d == Append(c, b)
<1> HIDE DEF d
<1>5. ASSUME NEW t \in InChain(d) PROVE t \in InChain(c) \cup TxsOf(b)
  <2>1. PICK h \in DOMAIN d : t \in TxsOf(d[h])
    BY DEF InChain
  <2> QED
    BY <1>1, <1>2, <2>1 DEF InChain, d
<1>6. ASSUME NEW t \in InChain(c) PROVE t \in InChain(d)
  <2>1. PICK h \in DOMAIN c : t \in TxsOf(c[h])
    BY DEF InChain
  <2>2. h \in DOMAIN d /\ d[h] = c[h]
    BY <1>1, <1>3, <2>1 DEF d
  <2> QED
    BY <2>1, <2>2 DEF InChain
<1>7. ASSUME NEW t \in TxsOf(b) PROVE t \in InChain(d)
  <2>1. Len(c) + 1 \in DOMAIN d /\ d[Len(c) + 1] = b
    BY <1>1, <1>3 DEF d
  <2> QED
    BY <2>1 DEF InChain
<1>4. InChain(Append(c, b)) = InChain(c) \cup TxsOf(b)
  BY <1>5, <1>6, <1>7 DEF d
<1> QED
  BY <1>1, <1>4

LEMMA ConnectedParents ==
    ASSUME NEW c \in Chains, Connected(c), NEW t \in InChain(c), NEW out \in Spends[t]
    PROVE  out[1] \in InChain(c)
<1>1. PICK h \in DOMAIN c : t \in TxsOf(c[h])
  BY DEF InChain
<1>0. out[1] \in Parents(t)
  BY DEF Parents
<1>2. PICK g \in 1 .. h : out[1] \in TxsOf(c[g])
  BY <1>0, <1>1 DEF Connected
<1>3. g \in DOMAIN c
  BY <1>1, <1>2 DEF Chains
<1> QED
  BY <1>2, <1>3 DEF InChain

LEMMA FrontConnected ==
    ASSUME NEW c \in Chains, NEW b \in Seq(Txs), Connected(Append(c, b))
    PROVE  Connected(c)
<1> SUFFICES ASSUME NEW h \in DOMAIN c, NEW t \in TxsOf(c[h]), NEW p \in Parents(t)
             PROVE  \E g \in 1 .. h : p \in TxsOf(c[g])
  BY DEF Connected
<1>1. h \in 1 .. Len(c) /\ Len(c) \in Nat
  BY DEF Chains
<1>2. h \in DOMAIN Append(c, b) /\ Append(c, b)[h] = c[h]
  BY <1>1, InAppended
<1>3. PICK g \in 1 .. h : p \in TxsOf(Append(c, b)[g])
  BY <1>2 DEF Connected
<1>4. g \in 1 .. Len(c)
  BY <1>1, <1>3
<1> QED
  BY <1>3, <1>4, InAppended

-----------------------------------------------------------------------------
(* The invariant *)

\* Every input of m is in m, or a coin of c that a block on top of c may spend
Spendable(m, c, lost) ==
    \A t \in m.tx : \A out \in Spends[t] :
       out[1] \in m.tx \/ (Unspent(InChain(c), out) /\ Mature(c, lost, out[1]))

\* Pool and coins while a transaction may be accepted
Fits(m, c, lost) == Spendable(m, c, lost) /\ m.tx \cap InChain(c) = {}

\* ... while the pool is to hear of the block b on top of c
Connecting(m, c, b, lost) == Fits(m, c, lost) /\ TxsOf(b) \cap InChain(c) = {}

\* ... and while the transactions of b from the i-th on are to be resurrected:
\* one of them may be what a transaction of the pool spends
Disconnecting(m, c, b, i) ==
    /\ m.tx \cap InChain(c) = {}
    /\ \A t \in m.tx : \A out \in Spends[t] :
          out[1] \in m.tx \/ Unspent(InChain(c), out) \/ \E j \in i .. Len(b) : b[j] = out[1]

Sound(c, b, i, m) ==
    /\ c \in Chains /\ Connected(c) /\ b \in Seq(Txs) /\ i \in Nat
    /\ m \in Pools /\ Agrees(m) /\ m.tx \cap Minted = {}

Staged(s, c, b, i, m, lost) ==
    \/ s \in {"free", "orphans"} /\ Fits(m, c, lost)
    \/ s = "connect" /\ Len(c) > 0 /\ Last(c) = b /\ Connecting(m, Front(c), b, lost)
    \/ s = "disconnect" /\ i >= 1 /\ Disconnecting(m, c, b, i)

PoolInv == Sound(chain, block, at, pool) /\ Staged(stage, chain, block, at, pool, unflagged)

\* What is accepted is in no block of the coins.
LEMMA AcceptedNew ==
    ASSUME PoolInv, stage \in {"free", "orphans", "disconnect"}, NEW t \in Txs, Accepted(t)
    PROVE  t \notin InChain(chain)
<1> SUFFICES ASSUME t \in InChain(chain) PROVE FALSE
  OBVIOUS
<1>1. CASE t \in Zerocoin
  <2>1. t \notin InChain(Active)
    BY <1>1 DEF Accepted
  <2>2. CASE stage = "disconnect"
    <3>1. Active = Append(chain, block)
      BY <2>2 DEF Active
    <3> QED
      BY <2>1, <3>1, InAppended DEF PoolInv, Sound
  <2>3. CASE stage # "disconnect"
    <3>1. Active = chain
      BY <2>3 DEF Active
    <3> QED
      BY <2>1, <3>1
  <2> QED
    BY <2>2, <2>3
<1>2. CASE t \notin Zerocoin
  <2>1. t \notin Minted /\ InputsOK(t)
    BY <1>2 DEF Accepted, Candidate
  <2>2. PICK out \in Spends[t] : TRUE
    BY <1>2, <2>1, ConstantsAssumption
  <2>3. out[1] \in pool.tx \/ Unspent(InChain(chain), out)
    BY <2>1 DEF InputsOK
  <2>4. out[1] \in pool.tx
    BY <2>3 DEF Unspent
  <2>5. out[1] \in InChain(chain)
    BY ConnectedParents DEF PoolInv, Sound
  <2>6. pool.tx \cap InChain(chain) = {}
    BY DEF PoolInv, Staged, Fits, Disconnecting
  <2> QED
    BY <2>4, <2>5, <2>6
<1> QED
  BY <1>1, <1>2

LEMMA AcceptedAdded ==
    ASSUME PoolInv, stage \in {"free", "orphans", "disconnect"}, NEW t \in Txs, Accepted(t)
    PROVE  LET r == AddUnchecked(pool, t)
           IN  /\ r \in Pools /\ Agrees(r) /\ r.tx = pool.tx \cup {t}
               /\ r.tx \cap Minted = {} /\ t \notin InChain(chain)
               /\ \A out \in Spends[t] :
                     out[1] \in pool.tx \/ (Unspent(InChain(chain), out) /\ Mature(chain, unflagged, out[1]))
<1>1. t \notin Minted /\ t \notin pool.tx /\ \A out \in Spends[t] : pool.next[out] = NoTx
  BY DEF Accepted, Candidate
<1>2. pool \in Pools /\ Agrees(pool) /\ pool.tx \cap Minted = {}
  BY DEF PoolInv, Sound
<1>3. t \notin InChain(chain)
  BY AcceptedNew
<1>4. t \in Zerocoin => Spends[t] = {}
  BY ConstantsAssumption
<1>5. \A out \in Spends[t] :
         out[1] \in pool.tx \/ (Unspent(InChain(chain), out) /\ Mature(chain, unflagged, out[1]))
  BY <1>4 DEF Accepted, InputsOK
<1>6. /\ AddUnchecked(pool, t) \in Pools /\ Agrees(AddUnchecked(pool, t))
      /\ AddUnchecked(pool, t).tx = pool.tx \cup {t}
  BY <1>1, <1>2, AddUncheckedOK
<1> QED
  BY <1>1, <1>2, <1>3, <1>5, <1>6

LEMMA AcceptedFits ==
    ASSUME PoolInv, stage \in {"free", "orphans"}, NEW t \in Txs, Accepted(t)
    PROVE  Fits(AddUnchecked(pool, t), chain, unflagged)
<1> DEFINE r == AddUnchecked(pool, t)
<1>1. /\ r.tx = pool.tx \cup {t} /\ t \notin InChain(chain)
      /\ \A out \in Spends[t] :
            out[1] \in pool.tx \/ (Unspent(InChain(chain), out) /\ Mature(chain, unflagged, out[1]))
  BY AcceptedAdded
<1>2. Fits(pool, chain, unflagged)
  BY DEF PoolInv, Staged
<1> HIDE DEF r
<1>3. Spendable(r, chain, unflagged)
  BY <1>1, <1>2 DEF Fits, Spendable
<1>4. r.tx \cap InChain(chain) = {}
  BY <1>1, <1>2 DEF Fits
<1> QED
  BY <1>3, <1>4 DEF Fits, r

\* ConnectBlock: the block spends coins and its own outputs only.
LEMMA ConnectsOK ==
    ASSUME chain \in Chains, Connected(chain), NEW b \in Seq(Txs), Connects(b)
    PROVE  TxsOf(b) \cap InChain(chain) = {} /\ Connected(Append(chain, b))
<1> DEFINE c == Append(chain, b)
           n == Len(chain)
<1>1. /\ DOMAIN c = 1 .. n + 1 /\ \A h \in 1 .. n : c[h] = chain[h]
      /\ c[n + 1] = b /\ n \in Nat /\ DOMAIN chain = 1 .. n
  BY InAppended DEF Chains
<1>2. \A i \in DOMAIN b : b[i] \notin InChain(chain)
  BY Zenon DEF Connects
<1>3. TxsOf(b) \cap InChain(chain) = {}
  BY <1>2 DEF TxsOf
<1>4. ASSUME NEW i \in DOMAIN b, NEW out \in Spends[b[i]]
      PROVE  out[1] \in InChain(chain) \cup TxsOf(b)
  <2>1. out[1] \in InChain(chain) \cup {b[j] : j \in 1 .. i - 1}
    BY Zenon DEF Connects, Unspent
  <2>2. \A j \in 1 .. i - 1 : j \in DOMAIN b
    OBVIOUS
  <2> QED
    BY <2>1, <2>2 DEF TxsOf
<1> HIDE DEF c, n
<1>5. ASSUME NEW h \in DOMAIN c, NEW t \in TxsOf(c[h]), NEW p \in Parents(t)
      PROVE  \E g \in 1 .. h : p \in TxsOf(c[g])
  <2>1. CASE h \in 1 .. n
    <3>1. PICK g \in 1 .. h : p \in TxsOf(chain[g])
      BY <1>1, <2>1 DEF Connected
    <3>2. g \in 1 .. n
      BY <1>1, <2>1, <3>1
    <3> QED
      BY <1>1, <3>1, <3>2
  <2>2. CASE h = n + 1
    <3>1. PICK i \in DOMAIN b : t = b[i]
      BY <1>1, <2>2 DEF TxsOf
    <3>2. p \in InChain(chain) \cup TxsOf(b)
      BY <1>4, <3>1 DEF Parents
    <3>3. CASE p \in TxsOf(b)
      <4>1. n + 1 \in 1 .. h
        BY <1>1, <2>2
      <4> QED
        BY <1>1, <3>3, <4>1
    <3>4. CASE p \in InChain(chain)
      <4>1. PICK g \in 1 .. n : p \in TxsOf(chain[g])
        BY <1>1, <3>4 DEF InChain
      <4>2. g \in 1 .. h
        BY <1>1, <2>2, <4>1
      <4> QED
        BY <1>1, <4>1, <4>2
    <3> QED
      BY <3>2, <3>3, <3>4
  <2> QED
    BY <1>1, <2>1, <2>2
<1> QED
  BY <1>3, <1>5 DEF Connected, c

\* ConnectTip: what removeForBlock leaves in the pool may be spent on top of b.
LEMMA ConnectedFits ==
    ASSUME NEW m \in Pools, Agrees(m), m.tx \cap Minted = {}, NEW c \in Chains, Connected(c),
           NEW b \in Seq(Txs), NEW lost, Connecting(m, c, b, lost), NEW r, RemovedUpTo(m, b, Len(b), r)
    PROVE  Fits(r, Append(c, b), lost)
<1> DEFINE d == Append(c, b)
<1>1. RemovedUpTo(m, b, Len(b), r)
  BY Zenon
<1>2. /\ InChain(d) = InChain(c) \cup TxsOf(b) /\ DOMAIN d = 1 .. Len(c) + 1
      /\ Len(d) = Len(c) + 1 /\ \A h \in 1 .. Len(c) : d[h] = c[h]
      /\ d[Len(c) + 1] = b /\ Len(c) \in Nat /\ DOMAIN c = 1 .. Len(c)
  BY InAppended DEF Chains
<1>3. m.tx \cap InChain(c) = {} /\ Spendable(m, c, lost) /\ TxsOf(b) \cap InChain(c) = {}
  BY DEF Connecting, Fits
<1>4. TxsOf(b) = {b[j] : j \in 1 .. Len(b)}
  BY DEF TxsOf
<1> HIDE DEF d
<1>5. r.tx \subseteq m.tx /\ r.tx \cap TxsOf(b) = {}
  BY <1>1, <1>4 DEF RemovedUpTo
<1>6. r.tx \cap InChain(d) = {}
  BY <1>2, <1>3, <1>5, Zenon
<1>7. ASSUME NEW u \in r.tx, NEW out \in Spends[u], out[1] \notin r.tx
      PROVE  Unspent(InChain(d), out) /\ Mature(d, lost, out[1])
  <2>1. \A t \in TxsOf(b) : out \notin Spends[t]
    BY <1>1, <1>4, Zenon DEF RemovedUpTo
  <2>2. CASE out[1] \in m.tx
    <3>1. out[1] \in TxsOf(b)
      BY <1>1, <1>4, <1>7, <2>2, Zenon DEF RemovedUpTo
    <3>2. \A t \in InChain(c) : out \notin Spends[t]
      BY <1>3, <3>1, ConnectedParents, Zenon
    <3>3. out[1] \notin Minted
      BY <2>2
    <3> QED
      BY <1>2, <2>1, <3>1, <3>2, <3>3, Zenon DEF Unspent, Mature
  <2>3. CASE out[1] \notin m.tx
    <3>1. Unspent(InChain(c), out) /\ Mature(c, lost, out[1])
      BY <1>3, <1>5, <2>3, Zenon DEF Spendable
    <3>2. Unspent(InChain(d), out)
      BY <1>2, <2>1, <3>1, Zenon DEF Unspent
    <3>3. out[1] \notin TxsOf(b)
      BY <1>3, <3>1, ZenonT(60) DEF Unspent
    <3>4. ASSUME out[1] \in Minted \ lost, NEW h \in DOMAIN d, out[1] \in TxsOf(d[h])
          PROVE  Len(d) + 1 - h >= Maturity
      <4>1. h \in 1 .. Len(c) /\ d[h] = c[h]
        BY <1>2, <3>3, <3>4
      <4>2. Len(c) + 1 - h >= Maturity
        BY <1>2, <3>1, <3>4, <4>1 DEF Mature
      <4>3. Maturity \in Nat
        BY ConstantsAssumption
      <4> QED
        BY <1>2, <4>1, <4>2, <4>3
    <3> QED
      BY <3>2, <3>4, Zenon DEF Mature
  <2> QED
    BY <2>2, <2>3, Zenon
<1> QED
  BY <1>6, <1>7, Zenon DEF Fits, Spendable, d

\* DisconnectBlock: what the pool spends is a coin still, or in the block.
LEMMA DisconnectedBlock ==
    ASSUME NEW m \in Pools, NEW c \in Chains, NEW b \in Seq(Txs), NEW lost,
           Fits(m, Append(c, b), lost)
    PROVE  Disconnecting(m, c, b, 1)
<1>1. InChain(Append(c, b)) = InChain(c) \cup TxsOf(b)
  BY InAppended
<1>2. m.tx \cap InChain(c) = {}
  BY <1>1 DEF Fits
<1>3. ASSUME NEW t \in m.tx, NEW out \in Spends[t], out[1] \notin m.tx
      PROVE  Unspent(InChain(c), out) \/ \E j \in 1 .. Len(b) : b[j] = out[1]
  <2>1. Unspent(InChain(c) \cup TxsOf(b), out)
    BY <1>1, <1>3, Zenon DEF Fits, Spendable
  <2>2. CASE out[1] \in TxsOf(b)
    BY <2>2 DEF TxsOf
  <2>3. CASE out[1] \in InChain(c)
    BY <2>1, <2>3, Zenon DEF Unspent
  <2> QED
    BY <2>1, <2>2, <2>3 DEF Unspent
<1> QED
  BY <1>2, <1>3 DEF Disconnecting

\* Resurrect: the i-th transaction of the block is in the pool, or nothing in the
\* pool spends it.
LEMMA ResurrectedOK ==
    ASSUME PoolInv, stage = "disconnect", at <= Len(block)
    PROVE  LET r == Resurrected(block[at])
           IN  /\ r \in Pools /\ Agrees(r) /\ r.tx \cap Minted = {}
               /\ Disconnecting(r, chain, block, at + 1)
<1> DEFINE t == block[at]
           r == Resurrected(t)
<1>1. /\ pool \in Pools /\ Agrees(pool) /\ pool.tx \cap Minted = {}
      /\ block \in Seq(Txs) /\ at \in Nat /\ at >= 1
      /\ Disconnecting(pool, chain, block, at)
  BY DEF PoolInv, Sound, Staged
<1>2. at \in 1 .. Len(block) /\ Len(block) \in Nat /\ t \in Txs
  BY <1>1
<1>3. \A j \in at .. Len(block) : j = at \/ j \in at + 1 .. Len(block)
  BY <1>1, <1>2
<1>4. pool.tx \cap InChain(chain) = {}
  BY <1>1 DEF Disconnecting
<1>5. \A u \in pool.tx : \A out \in Spends[u] :
         \/ out[1] \in pool.tx \cup {t}
         \/ Unspent(InChain(chain), out)
         \/ \E j \in at + 1 .. Len(block) : block[j] = out[1]
  BY <1>1, <1>3, Zenon DEF Disconnecting
<1> HIDE DEF t
<1>6. CASE Accepted(t)
  <2>1. r = AddUnchecked(pool, t)
    BY <1>6, ZenonT(60) DEF Resurrected
  <2> HIDE DEF r
  <2>2. /\ r \in Pools /\ Agrees(r) /\ r.tx = pool.tx \cup {t}
        /\ r.tx \cap Minted = {} /\ t \notin InChain(chain)
        /\ \A out \in Spends[t] : out[1] \in pool.tx \/ Unspent(InChain(chain), out)
    BY <1>2, <1>6, <2>1, AcceptedAdded
  <2>3. Disconnecting(r, chain, block, at + 1)
    BY <1>4, <1>5, <2>2, Zenon DEF Disconnecting
  <2> QED
    BY <2>2, <2>3 DEF r, t
<1>7. CASE ~Accepted(t)
  <2>1. r = RemoveRecursive(pool, {t})
    BY <1>7 DEF Resurrected
  <2> HIDE DEF r
  <2> DEFINE S == {t}
  <2>0. r = RemoveRecursive(pool, S)
    BY <2>1
  <2> HIDE DEF S
  <2>2. /\ r \in Pools /\ Agrees(r) /\ r.tx \subseteq pool.tx
        /\ \A u \in r.tx : \A out \in Spends[u] :
              out[1] # t /\ (out[1] \in pool.tx => out[1] \in r.tx)
    <3>1. /\ r \in Pools /\ Agrees(r) /\ r.tx \subseteq pool.tx
          /\ \A u \in r.tx : \A out \in Spends[u] :
                out[1] \notin S /\ (out[1] \in pool.tx => out[1] \in r.tx)
      BY <1>1, <2>0, RemoveRecursiveOK
    <3> QED
      BY <3>1, ZenonT(60) DEF S
  <2>3. Disconnecting(r, chain, block, at + 1)
    BY <1>4, <1>5, <2>2, Zenon DEF Disconnecting
  <2> QED
    BY <1>1, <2>2, <2>3 DEF r, t
<1> QED
  BY <1>6, <1>7

\* DisconnectTip: removeCoinbaseSpends throws out what lost its coins.
LEMMA DisconnectedFits ==
    ASSUME PoolInv, stage = "disconnect", at > Len(block)
    PROVE  LET r == RemoveRecursive(pool, CoinbaseSpends(pool, chain, unflagged))
           IN  r \in Pools /\ Agrees(r) /\ r.tx \cap Minted = {} /\ Fits(r, chain, unflagged)
<1> DEFINE S == CoinbaseSpends(pool, chain, unflagged)
           r == RemoveRecursive(pool, S)
<1>1. /\ pool \in Pools /\ Agrees(pool) /\ pool.tx \cap Minted = {}
      /\ block \in Seq(Txs) /\ at \in Nat
      /\ Disconnecting(pool, chain, block, at)
  BY ZenonT(60) DEF PoolInv, Sound, Staged
<1> HIDE DEF S
<1>2. /\ r \in Pools /\ Agrees(r) /\ r.tx \subseteq pool.tx /\ r.tx \cap S = {}
      /\ \A u \in r.tx : \A out \in Spends[u] : out[1] \in pool.tx => out[1] \in r.tx
  BY <1>1, RemoveRecursiveOK
<1> HIDE DEF r
<1>3. at .. Len(block) = {}
  BY <1>1
<1>4. ASSUME NEW u \in r.tx, NEW out \in Spends[u], out[1] \notin r.tx
      PROVE  Unspent(InChain(chain), out) /\ Mature(chain, unflagged, out[1])
  <2>1. u \in pool.tx /\ u \notin S /\ out[1] \notin pool.tx
    BY <1>2, <1>4
  <2>2. Unspent(InChain(chain), out)
    BY <1>1, <1>3, <2>1 DEF Disconnecting
  <2>3. out[1] \in Parents(u) \ pool.tx
    BY <2>1, Zenon DEF Parents
  <2> QED
    BY <2>1, <2>2, <2>3 DEF S, CoinbaseSpends
<1>5. Fits(r, chain, unflagged)
  BY <1>1, <1>2, <1>4 DEF Fits, Spendable, Disconnecting
<1> QED
  BY <1>1, <1>2, <1>5, Zenon DEF r, S

-----------------------------------------------------------------------------
(* The steps *)

LEMMA InitPoolInv == Init => PoolInv
<1> SUFFICES ASSUME Init PROVE PoolInv
  BY Zenon
<1>1. chain = Genesis /\ stage = "free" /\ block = <<>> /\ at = 0
      /\ pool = [tx |-> {}, next |-> [out \in Outpoints |-> NoTx]]
  BY DEF Init
<1>2. Genesis \in Chains /\ Connected(Genesis)
  BY ConstantsAssumption DEF Chains
<1>3. pool \in Pools /\ pool.tx = {} /\ \A out \in Outpoints : pool.next[out] = NoTx
  BY <1>1 DEF Pools
<1>4. Agrees(pool)
  BY <1>3 DEF Agrees
<1>5. Fits(pool, chain, unflagged)
  BY <1>3 DEF Fits, Spendable
<1>6. Sound(chain, block, at, pool)
  BY <1>1, <1>2, <1>3, <1>4 DEF Sound
<1> QED
  BY <1>1, <1>5, <1>6 DEF PoolInv, Staged

\* A step that leaves chain and pool alone, between accepting and the orphans
LEMMA PoolLeftAlone ==
    ASSUME PoolInv, UNCHANGED <<chain, unflagged, block, at, pool>>,
           stage' = stage \/ (stage = "orphans" /\ stage' = "free")
    PROVE  PoolInv'
<1>1. Sound(chain', block', at', pool') /\ Staged(stage, chain', block', at', pool', unflagged')
  BY DEF PoolInv
<1>2. Staged(stage', chain', block', at', pool', unflagged')
  BY <1>1 DEF Staged
<1> QED
  BY <1>1, <1>2 DEF PoolInv

LEMMA AcceptedStep ==
    ASSUME PoolInv, stage \in {"free", "orphans"}, stage' \in {"free", "orphans"},
           NEW t \in Txs, Accepted(t), pool' = AddUnchecked(pool, t),
           UNCHANGED <<chain, unflagged, block, at>>
    PROVE  PoolInv'
<1>1. /\ pool' \in Pools /\ Agrees(pool') /\ pool'.tx \cap Minted = {}
      /\ Fits(pool', chain', unflagged')
  BY AcceptedAdded, AcceptedFits, ZenonT(60)
<1>2. Sound(chain', block', at', pool')
  BY <1>1 DEF PoolInv, Sound
<1>3. Staged(stage', chain', block', at', pool', unflagged')
  BY <1>1, ZenonT(60) DEF Staged
<1> QED
  BY <1>2, <1>3, Zenon DEF PoolInv

LEMMA TryOrphanStep ==
    ASSUME PoolInv, NEW t \in Txs, TryOrphan(t) PROVE PoolInv'
<1>1. stage = "orphans" /\ stage' = stage /\ UNCHANGED <<chain, unflagged, block, at>>
  BY DEF TryOrphan
<1>2. CASE OrphanAccepted(t)
  BY <1>1, <1>2, AcceptedStep DEF OrphanAccepted
<1>3. CASE OrphanKept(t) \/ OrphanDropped(t)
  BY <1>1, <1>3, PoolLeftAlone DEF OrphanKept, OrphanDropped
<1> QED
  BY <1>2, <1>3 DEF TryOrphan

LEMMA ConnectBlockStep ==
    ASSUME PoolInv, NEW b \in Blocks, ConnectBlock(b) PROVE PoolInv'
<1>1. /\ stage = "free" /\ Connects(b) /\ chain' = Append(chain, b)
      /\ stage' = "connect" /\ block' = b /\ at' = at /\ pool' = pool
      /\ unflagged' = unflagged
  BY DEF ConnectBlock
<1>2. b \in Seq(Txs)
  BY ConstantsAssumption, Zenon
<1>3. /\ chain \in Chains /\ Connected(chain) /\ at \in Nat
      /\ pool \in Pools /\ Agrees(pool) /\ pool.tx \cap Minted = {} /\ Fits(pool, chain, unflagged)
  BY <1>1, Zenon DEF PoolInv, Sound, Staged
<1>4. TxsOf(b) \cap InChain(chain) = {} /\ Connected(chain')
  BY <1>1, <1>2, <1>3, ConnectsOK, Zenon
<1>5. /\ chain' \in Chains /\ Len(chain') > 0 /\ Front(chain') = chain /\ Last(chain') = b
  BY <1>1, <1>2, <1>3, FrontOfAppend, Zenon
<1>6. Connecting(pool', Front(chain'), block', unflagged')
  BY <1>1, <1>3, <1>4, <1>5, ZenonT(60) DEF Connecting
<1>7. Sound(chain', block', at', pool')
  BY <1>1, <1>2, <1>3, <1>4, <1>5 DEF Sound
<1>8. Staged(stage', chain', block', at', pool', unflagged')
  BY <1>1, <1>5, <1>6 DEF Staged
<1> QED
  BY <1>7, <1>8 DEF PoolInv

LEMMA DisconnectBlockStep ==
    ASSUME PoolInv, DisconnectBlock PROVE PoolInv'
<1>1. /\ stage = "free" /\ Len(chain) > Len(Genesis) /\ chain' = Front(chain)
      /\ stage' = "disconnect" /\ block' = Last(chain) /\ at' = 1 /\ pool' = pool
  BY Zenon DEF DisconnectBlock
<1>2. /\ chain \in Chains /\ Connected(chain)
      /\ pool \in Pools /\ Agrees(pool) /\ pool.tx \cap Minted = {} /\ Fits(pool, chain, unflagged)
  BY <1>1 DEF PoolInv, Sound, Staged
<1>3. Len(chain) > 0
  <2>1. Len(Genesis) \in Nat /\ Len(chain) \in Nat
    BY <1>2, ConstantsAssumption DEF Chains
  <2> QED
    BY <1>1, <2>1
<1>4. chain' \in Chains /\ block' \in Seq(Txs) /\ chain = Append(chain', block')
  BY <1>1, <1>2, <1>3, FrontLast
<1>5. Connected(chain')
  BY <1>2, <1>4, FrontConnected
<1>6. Disconnecting(pool', chain', block', at')
  BY <1>1, <1>2, <1>4, DisconnectedBlock, Zenon
<1>7. Sound(chain', block', at', pool')
  BY <1>1, <1>2, <1>4, <1>5 DEF Sound
<1>8. Staged(stage', chain', block', at', pool', unflagged')
  BY <1>1, <1>6 DEF Staged
<1> QED
  BY <1>7, <1>8 DEF PoolInv

LEMMA ResurrectStep ==
    ASSUME PoolInv, Resurrect PROVE PoolInv'
<1>1. /\ stage = "disconnect" /\ at <= Len(block) /\ pool' = Resurrected(block[at])
      /\ at' = at + 1 /\ UNCHANGED <<chain, unflagged, stage, block>>
  BY DEF Resurrect
<1>2. /\ pool' \in Pools /\ Agrees(pool') /\ pool'.tx \cap Minted = {}
      /\ Disconnecting(pool', chain, block, at + 1)
  BY <1>1, ResurrectedOK, Zenon
<1>3. /\ chain \in Chains /\ Connected(chain) /\ block \in Seq(Txs) /\ at \in Nat
  BY <1>1, Zenon DEF PoolInv, Sound, Staged
<1>4. Sound(chain', block', at', pool')
  BY <1>1, <1>2, <1>3 DEF Sound
<1>5. at' >= 1
  BY <1>1, <1>3
<1>6. Staged(stage', chain', block', at', pool', unflagged')
  BY <1>1, <1>2, <1>5 DEF Staged
<1> QED
  BY <1>4, <1>6 DEF PoolInv

LEMMA DisconnectTipStep ==
    ASSUME PoolInv, DisconnectTip PROVE PoolInv'
<1>1. /\ stage = "disconnect" /\ at > Len(block)
      /\ pool' = RemoveRecursive(pool, CoinbaseSpends(pool, chain, unflagged))
      /\ stage' = "free" /\ block' = <<>> /\ at' = 0 /\ chain' = chain
      /\ unflagged' = unflagged
  BY ZenonT(60) DEF DisconnectTip
<1>2. pool' \in Pools /\ Agrees(pool') /\ pool'.tx \cap Minted = {} /\ Fits(pool', chain, unflagged)
  BY <1>1, DisconnectedFits
<1>3. chain \in Chains /\ Connected(chain)
  BY ZenonT(60) DEF PoolInv, Sound
<1>4. Sound(chain', block', at', pool')
  BY <1>1, <1>2, <1>3 DEF Sound
<1>5. Staged(stage', chain', block', at', pool', unflagged')
  BY <1>1, <1>2 DEF Staged
<1> QED
  BY <1>4, <1>5 DEF PoolInv

LEMMA CreateNewBlockFailsStep ==
    ASSUME PoolInv, CreateNewBlockFails PROVE PoolInv'
<1>1. /\ stage = "free" /\ UNCHANGED <<chain, unflagged, stage, block, at>>
      /\ pool' = [tx |-> {}, next |-> [out \in Outpoints |-> NoTx]]
  BY DEF CreateNewBlockFails
<1>2. pool' \in Pools /\ pool'.tx = {} /\ \A out \in Outpoints : pool'.next[out] = NoTx
  BY <1>1 DEF Pools
<1>3. Agrees(pool') /\ Fits(pool', chain', unflagged')
  BY <1>2 DEF Agrees, Fits, Spendable
<1>4. chain \in Chains /\ Connected(chain) /\ block \in Seq(Txs) /\ at \in Nat
  BY DEF PoolInv, Sound
<1>5. Sound(chain', block', at', pool')
  BY <1>1, <1>2, <1>3, <1>4 DEF Sound
<1>6. Staged(stage', chain', block', at', pool', unflagged')
  BY <1>1, <1>3 DEF Staged
<1> QED
  BY <1>5, <1>6 DEF PoolInv

-----------------------------------------------------------------------------
(* removeForBlock, by induction over the transactions of the block *)

\* What induction needs of the natural numbers (LeastNumbers).
Least == \A T \in SUBSET Nat : T # {} => \E x \in T : \A y \in T : x <= y

\* A set with 0 and with the successor of each member below n has all up to n.
LEMMA InductionUpTo ==
    ASSUME Least, NEW n \in Nat, NEW T, 0 \in T, \A i \in 0 .. n - 1 : i \in T => i + 1 \in T
    PROVE  \A i \in 0 .. n : i \in T
<1> SUFFICES ASSUME NEW i \in 0 .. n, i \notin T PROVE FALSE
  OBVIOUS
<1> DEFINE Missing == {j \in 0 .. n : j \notin T}
<1>1. Missing \subseteq Nat /\ Missing # {}
  OBVIOUS
<1>2. PICK x \in Missing : \A y \in Missing : x <= y
  BY <1>1, Zenon DEF Least
<1>3. x # 0 /\ x - 1 \in 0 .. n - 1
  BY <1>2
<1>4. x - 1 \in T
  BY <1>2, <1>3
<1> QED
  BY <1>2, <1>3, <1>4

LEMMA RemoveForBlockSteps ==
    ASSUME Least, NEW m, NEW b \in Seq(Txs)
    PROVE  \E f : /\ f[0] = m
                  /\ \A i \in 1 .. Len(b) : f[i] = OneRemoved(f[i - 1], b[i])
                  /\ RemoveForBlock(m, b) = f[Len(b)]
<1> DEFINE n == Len(b)
           Is(g, k) == g = [i \in 0 .. k |-> IF i = 0 THEN m ELSE OneRemoved(g[i - 1], b[i])]
           after == CHOOSE g : Is(g, n)
           Made == {k \in 0 .. n : \E g : Is(g, k)}
<1>1. n \in Nat
  OBVIOUS
<1>2. RemoveForBlock(m, b) = after[n]
  BY DEF RemoveForBlock, OneRemoved
<1> HIDE DEF n, Is
<1>3. 0 \in Made
  <2> DEFINE g == [i \in 0 .. 0 |-> m]
  <2>1. Is(g, 0)
    BY DEF Is
  <2> HIDE DEF g
  <2> QED
    BY <1>1, <2>1
<1>4. ASSUME NEW k \in 0 .. n - 1, k \in Made PROVE k + 1 \in Made
  <2>0. k \in Nat /\ k + 1 \in 0 .. n
    BY <1>1
  <2>1. PICK g : Is(g, k)
    BY <1>4
  <2>2. \A i \in 0 .. k : g[i] = IF i = 0 THEN m ELSE OneRemoved(g[i - 1], b[i])
    BY <2>1, Zenon DEF Is
  <2> DEFINE h == [i \in 0 .. k + 1 |-> IF i <= k THEN g[i] ELSE OneRemoved(g[k], b[k + 1])]
             Def(i) == IF i = 0 THEN m ELSE OneRemoved(h[i - 1], b[i])
  <2>3. ASSUME NEW i \in 0 .. k PROVE h[i] = Def(i)
    <3>1. h[i] = g[i] /\ (i # 0 => h[i - 1] = g[i - 1])
      BY <2>0
    <3> HIDE DEF h
    <3> QED
      BY <2>2, <3>1
  <2>4. h[k + 1] = Def(k + 1)
    <3>1. h[k + 1] = OneRemoved(g[k], b[k + 1]) /\ h[k] = g[k] /\ k + 1 # 0 /\ (k + 1) - 1 = k
      BY <2>0
    <3> HIDE DEF h
    <3> QED
      BY <3>1
  <2>5. \A i \in 0 .. k + 1 : i \in 0 .. k \/ i = k + 1
    BY <2>0
  <2>6. \A i \in 0 .. k + 1 : h[i] = Def(i)
    <3> HIDE DEF h, Def
    <3> QED
      BY <2>3, <2>4, <2>5
  <2>7. h = [i \in 0 .. k + 1 |-> h[i]]
    OBVIOUS
  <2>8. Is(h, k + 1)
    <3> HIDE DEF h
    <3> QED
      BY <2>6, <2>7, Zenon DEF Is
  <2> HIDE DEF h
  <2> QED
    BY <2>0, <2>8
<1>5. n \in Made
  <2> HIDE DEF Made
  <2>1. \A i \in 0 .. n : i \in Made
    BY <1>1, <1>3, <1>4, InductionUpTo, Zenon
  <2> QED
    BY <1>1, <2>1
<1>6. Is(after, n)
  BY <1>5
<1>7. \A i \in 0 .. n : after[i] = IF i = 0 THEN m ELSE OneRemoved(after[i - 1], b[i])
  <2> HIDE DEF after
  <2> QED
    BY <1>6, Zenon DEF Is
<1>8. after[0] = m /\ \A i \in 1 .. n : after[i] = OneRemoved(after[i - 1], b[i])
  <2> HIDE DEF after
  <2> QED
    BY <1>1, <1>7
<1> HIDE DEF after
<1> QED
  BY <1>2, <1>8 DEF n

LEMMA RemoveForBlockOK ==
    ASSUME Least, NEW m \in Pools, Agrees(m), NEW b \in Seq(Txs)
    PROVE  RemovedUpTo(m, b, Len(b), RemoveForBlock(m, b))
<1>1. PICK f : /\ f[0] = m
               /\ \A i \in 1 .. Len(b) : f[i] = OneRemoved(f[i - 1], b[i])
               /\ RemoveForBlock(m, b) = f[Len(b)]
  BY RemoveForBlockSteps
<1> DEFINE Right == {i \in 0 .. Len(b) : RemovedUpTo(m, b, i, f[i])}
<1>2. Len(b) \in Nat
  OBVIOUS
<1>3. 0 \in Right
  BY <1>1, <1>2 DEF RemovedUpTo
<1>4. ASSUME NEW i \in 0 .. Len(b) - 1, i \in Right PROVE i + 1 \in Right
  <2>1. i + 1 \in 1 .. Len(b) /\ i + 1 \in 0 .. Len(b) /\ (i + 1) - 1 = i
    BY <1>2
  <2>2. f[i + 1] = OneRemoved(f[i], b[i + 1])
    BY <1>1, <2>1
  <2>3. RemovedUpTo(m, b, i + 1, f[i + 1])
    BY <1>4, <2>2, RemovedOneMore
  <2> QED
    BY <2>1, <2>3
<1>5. Len(b) \in Right
  <2> HIDE DEF Right
  <2>1. \A i \in 0 .. Len(b) : i \in Right
    BY <1>2, <1>3, <1>4, InductionUpTo, Zenon
  <2> QED
    BY <1>2, <2>1
<1> QED
  BY <1>1, <1>5

LEMMA ConnectTipStep ==
    ASSUME Least, PoolInv, ConnectTip PROVE PoolInv'
<1>1. /\ stage = "connect" /\ pool' = RemoveForBlock(pool, block)
      /\ stage' = "free" /\ block' = <<>> /\ chain' = chain /\ at' = at
      /\ unflagged' = unflagged
  BY Zenon DEF ConnectTip
<1> DEFINE c == Front(chain)
<1>2. /\ chain \in Chains /\ Connected(chain) /\ at \in Nat /\ block \in Seq(Txs)
      /\ pool \in Pools /\ Agrees(pool) /\ pool.tx \cap Minted = {}
      /\ Len(chain) > 0 /\ Last(chain) = block /\ Connecting(pool, c, block, unflagged)
  BY <1>1, Zenon DEF PoolInv, Sound, Staged
<1>3. c \in Chains /\ chain = Append(c, block)
  BY <1>2, FrontLast, Zenon
<1> HIDE DEF c
<1>4. Connected(c)
  BY <1>2, <1>3, FrontConnected, Zenon
<1>0. RemovedUpTo(pool, block, Len(block), pool')
  BY <1>1, <1>2, RemoveForBlockOK, Zenon
<1>5. Fits(pool', chain', unflagged')
  BY <1>0, <1>1, <1>2, <1>3, <1>4, ConnectedFits, ZenonT(60)
<1>6. pool' \in Pools /\ Agrees(pool') /\ pool'.tx \subseteq pool.tx
  BY <1>0, Zenon DEF RemovedUpTo
<1>7. Sound(chain', block', at', pool')
  BY <1>1, <1>2, <1>6 DEF Sound
<1>8. Staged(stage', chain', block', at', pool', unflagged')
  BY <1>1, <1>5 DEF Staged
<1> QED
  BY <1>7, <1>8 DEF PoolInv

LEMMA NextPoolInv ==
    ASSUME Least, PoolInv, [Next]_vars PROVE PoolInv'
<1>1. CASE UNCHANGED vars
  BY <1>1, PoolLeftAlone DEF vars
<1>2. ASSUME NEW t \in Txs, TxAccepted(t) PROVE PoolInv'
  <2>1. stage = "free" /\ stage' \in {"free", "orphans"}
    BY <1>2 DEF TxAccepted
  <2> QED
    BY <1>2, <2>1, AcceptedStep DEF TxAccepted
<1>3. ASSUME NEW t \in Txs, AcceptOwn(t) PROVE PoolInv'
  BY <1>3, AcceptedStep DEF AcceptOwn
<1>4. ASSUME NEW t \in Txs, TryOrphan(t) PROVE PoolInv'
  BY <1>4, TryOrphanStep
<1>5. ASSUME NEW p \in Peers, NEW t \in Txs, TxOrphan(p, t) PROVE PoolInv'
  BY <1>5, PoolLeftAlone DEF TxOrphan
<1>6. CASE NextParent \/ EraseQueue
  BY <1>6, PoolLeftAlone DEF NextParent, EraseQueue
<1>7. ASSUME NEW p \in Peers, EraseOrphansFor(p) PROVE PoolInv'
  BY <1>7, PoolLeftAlone DEF EraseOrphansFor
<1>8. ASSUME NEW b \in Blocks, ConnectBlock(b) PROVE PoolInv'
  BY <1>8, ConnectBlockStep
<1>9. CASE ConnectTip \/ DisconnectBlock \/ Resurrect \/ DisconnectTip \/ CreateNewBlockFails
  BY <1>9, ConnectTipStep, DisconnectBlockStep, ResurrectStep, DisconnectTipStep,
     CreateNewBlockFailsStep, ZenonT(60)
<1> QED
  BY <1>1, <1>2, <1>3, <1>4, <1>5, <1>6, <1>7, <1>8, <1>9 DEF Next

-----------------------------------------------------------------------------
(* Orphan transactions *)

Indexed(o, b) ==
    /\ o \in [Txs -> Peers \cup {NoPeer}] /\ b \in [Txs -> SUBSET Txs]
    /\ \A p \in Txs : \A t \in Txs : t \in b[p] <=> (o[t] # NoPeer /\ p \in Parents(t))

Held(o) == {t \in Txs : o[t] # NoPeer}

OrphanInv == Indexed(orphans, byPrev) /\ Cardinality(Held(orphans)) <= MaxOrphans

\* The sizes of sets of transactions (AllSizes).
Sizes ==
    \A S \in SUBSET Txs :
        /\ Cardinality(S) \in Nat
        /\ \A R \in SUBSET S : /\ Cardinality(R) <= Cardinality(S)
                              /\ Cardinality(S \ R) = Cardinality(S) - Cardinality(R)

LEMMA ErasedIndexed ==
    ASSUME NEW o, NEW b, Indexed(o, b), NEW S
    PROVE  LET new == EraseOrphanTxs(o, b, S)
           IN  Indexed(new.orphans, new.byPrev) /\ Held(new.orphans) = Held(o) \ S
  BY DEF Indexed, EraseOrphanTxs, Held

\* EraseOrphanTx of any of the orphans
LEMMA EraseStep ==
    ASSUME Sizes, OrphanInv, NEW S,
           orphans' = EraseOrphanTxs(orphans, byPrev, S).orphans,
           byPrev' = EraseOrphanTxs(orphans, byPrev, S).byPrev
    PROVE  OrphanInv'
<1>1. Indexed(orphans, byPrev) /\ Cardinality(Held(orphans)) <= MaxOrphans /\ MaxOrphans \in Nat
  BY ConstantsAssumption DEF OrphanInv
<1>2. Indexed(orphans', byPrev') /\ Held(orphans') = Held(orphans) \ S
  BY <1>1, ErasedIndexed
<1>3. Held(orphans) \in SUBSET Txs
  BY DEF Held
<1>4. Cardinality(Held(orphans')) <= Cardinality(Held(orphans)) /\ Cardinality(Held(orphans)) \in Nat
  BY <1>2, <1>3, Zenon DEF Sizes
<1>5. Cardinality(Held(orphans')) <= MaxOrphans
  <2>1. Cardinality(Held(orphans')) \in Nat
    BY <1>2, <1>3 DEF Sizes
  <2> QED
    BY <1>1, <1>4, <2>1
<1> QED
  BY <1>2, <1>5 DEF OrphanInv

LEMMA AddOrphanStep ==
    ASSUME Sizes, OrphanInv, NEW p \in Peers, NEW t \in Txs, AddOrphanTx(p, t) PROVE OrphanInv'
<1> DEFINE new  == t \notin Orphans /\ t \notin Large
           o    == IF new THEN [orphans EXCEPT ![t] = p] ELSE orphans
           b    == [q \in Txs |-> IF new /\ q \in Parents(t) THEN byPrev[q] \cup {t}
                                                             ELSE byPrev[q]]
           held == IF new THEN Orphans \cup {t} ELSE Orphans
<1>1. PICK evicted \in SUBSET held :
         /\ Cardinality(evicted) = Excess(held)
         /\ orphans' = EraseOrphanTxs(o, b, evicted).orphans
         /\ byPrev' = EraseOrphanTxs(o, b, evicted).byPrev
  BY DEF AddOrphanTx
<1>2. Indexed(orphans, byPrev) /\ p # NoPeer
  BY ConstantsAssumption, ZenonT(60) DEF OrphanInv
<1>3. Indexed(o, b) /\ held = Held(o)
  <2>1. CASE new
    <3>1. o = [orphans EXCEPT ![t] = p] /\ held = Orphans \cup {t} /\ orphans[t] = NoPeer
      BY <2>1, ZenonT(60) DEF Orphans
    <3>2. b = [q \in Txs |-> IF q \in Parents(t) THEN byPrev[q] \cup {t} ELSE byPrev[q]]
      BY <2>1
    <3> HIDE DEF o, b, held
    <3> QED
      BY <1>2, <3>1, <3>2 DEF Indexed, Held, Orphans
  <2>2. CASE ~new
    <3>1. o = orphans /\ held = Orphans /\ b = [q \in Txs |-> byPrev[q]]
      BY <2>2, Zenon
    <3>2. b = byPrev
      BY <1>2, <3>1, Zenon DEF Indexed
    <3> HIDE DEF o, b, held
    <3> QED
      BY <1>2, <3>1, <3>2, Zenon DEF Held, Orphans
  <2> QED
    BY <2>1, <2>2
<1> HIDE DEF new, o, b, held
<1>4. Indexed(orphans', byPrev') /\ Held(orphans') = held \ evicted
  BY <1>1, <1>3, ErasedIndexed
<1>5. /\ Cardinality(held) \in Nat
      /\ Cardinality(held \ evicted) = Cardinality(held) - Cardinality(evicted)
  <2>1. held \in SUBSET Txs
    BY <1>3, Zenon DEF Held
  <2> QED
    BY <2>1 DEF Sizes
<1>6. Cardinality(held \ evicted) <= MaxOrphans
  BY <1>1, <1>5, ConstantsAssumption DEF Excess
<1> QED
  BY <1>4, <1>6, ZenonT(60) DEF OrphanInv

LEMMA NextOrphanInv ==
    ASSUME Sizes, OrphanInv, [Next]_vars PROVE OrphanInv'
<1>1. CASE UNCHANGED <<orphans, byPrev>>
  BY <1>1 DEF OrphanInv
<1>2. ASSUME NEW t \in Txs, TxAccepted(t) \/ AcceptOwn(t) \/ TryOrphan(t)
      PROVE  UNCHANGED <<orphans, byPrev>>
  BY <1>2 DEF TxAccepted, AcceptOwn, TryOrphan
<1>3. ASSUME NEW p \in Peers, NEW t \in Txs, TxOrphan(p, t) PROVE OrphanInv'
  BY <1>3, AddOrphanStep, Zenon DEF TxOrphan
<1>4. CASE EraseQueue
  BY <1>4, EraseStep, ZenonT(60) DEF EraseQueue
<1>5. ASSUME NEW p \in Peers, EraseOrphansFor(p) PROVE OrphanInv'
  BY <1>5, EraseStep DEF EraseOrphansFor
<1>6. CASE NextParent \/ CreateNewBlockFails \/ (\E b \in Blocks : ConnectBlock(b))
  BY <1>1, <1>6, Zenon DEF NextParent, CreateNewBlockFails, ConnectBlock
<1>7. CASE ConnectTip \/ DisconnectBlock \/ Resurrect \/ DisconnectTip
  BY <1>1, <1>7 DEF ConnectTip, DisconnectBlock, Resurrect, DisconnectTip
<1>8. CASE UNCHANGED vars
  BY <1>1, <1>8 DEF vars
<1> QED
  BY <1>1, <1>2, <1>3, <1>4, <1>5, <1>6, <1>7, <1>8, Zenon DEF Next

-----------------------------------------------------------------------------
INSTANCE FiniteSetTheorems

Less == {pair \in Nat \X Nat : pair[1] < pair[2]}

LEMMA LeastNumbers == Least
<1> SUFFICES ASSUME NEW T \in SUBSET Nat, T # {} PROVE \E x \in T : \A y \in T : x <= y
  BY DEF Least
<1>1. IsWellFoundedOn(Less, Nat)
  BY NatLessThanWellFounded DEF OpToRel, Less
<1>2. PICK x \in T : \A y \in T : <<y, x>> \notin Less
  BY <1>1, WFMin, Zenon
<1>3. \A y \in T : ~(y < x)
  BY <1>2, Zenon DEF Less
<1> QED
  BY <1>3

LEMMA AllSizes == Sizes
<1>1. ASSUME NEW S \in SUBSET Txs, NEW R \in SUBSET S
      PROVE  /\ Cardinality(S) \in Nat /\ Cardinality(R) <= Cardinality(S)
             /\ Cardinality(S \ R) = Cardinality(S) - Cardinality(R)
  <2>1. IsFiniteSet(S)
    BY ConstantsAssumption, FS_Subset
  <2>2. Cardinality(S \ R) = Cardinality(S) - Cardinality(S \cap R) /\ S \cap R = R
    BY <2>1, FS_Difference, Zenon
  <2> QED
    BY <2>1, <2>2, FS_CardinalityType, FS_Subset
<1> QED
  BY <1>1, ZenonT(60) DEF Sizes

\* Whatever transactions and blocks arrive, and whatever blocks are disconnected
\* again, mapNextTx is exact, the inputs of the pool can be spent by the next
\* block as far as the flags of their coins tell, whichever coinstakes have lost
\* theirs, and no transaction is in the pool and in the chain: what
\* CTxMemPool::check asserts never fails.
THEOREM PoolAlwaysChecked == Spec => []PoolChecked
<1>1. PoolInv => PoolChecked
  <2> SUFFICES ASSUME PoolInv PROVE PoolChecked
    OBVIOUS
  <2>1. NextTxAgrees
    BY DEF PoolInv, Sound, NextTxAgrees, Agrees
  <2>2. InputsAvailable
    BY ZenonT(60) DEF PoolInv, Staged, InputsAvailable, Fits, Spendable
  <2>3. NeverInBoth
    BY DEF PoolInv, Sound, Staged, NeverInBoth, Fits
  <2> QED
    BY <2>1, <2>2, <2>3 DEF PoolChecked
<1>2. PoolInv /\ [Next]_vars => PoolInv'
  BY LeastNumbers, NextPoolInv, ZenonT(60)
<1> QED
  BY InitPoolInv, <1>1, <1>2, PTL DEF Spec

\* Whatever is added, evicted, accepted or forgotten with its peer, the index by
\* parent names exactly the orphans, and there are at most -maxorphantx.
THEOREM OrphansAlwaysIndexed == Spec => []OrphansIndexed
<1>1. Init => OrphanInv
  <2> SUFFICES ASSUME Init PROVE OrphanInv
    OBVIOUS
  <2>1. orphans = [t \in Txs |-> NoPeer] /\ byPrev = [t \in Txs |-> {}]
    BY DEF Init
  <2>2. Indexed(orphans, byPrev)
    BY <2>1 DEF Indexed
  <2>3. Held(orphans) = {}
    BY <2>1, ZenonT(60) DEF Held
  <2>4. Cardinality(Held(orphans)) <= MaxOrphans
    BY <2>3, FS_EmptySet, ConstantsAssumption
  <2> QED
    BY <2>2, <2>4, Zenon DEF OrphanInv
<1>2. OrphanInv => OrphansIndexed
  <2> SUFFICES ASSUME OrphanInv PROVE OrphansIndexed
    OBVIOUS
  <2>1. Held(orphans) = Orphans
    BY DEF Held, Orphans
  <2>2. ASSUME NEW p \in Txs PROVE byPrev[p] = {t \in Orphans : p \in Parents(t)}
    BY DEF OrphanInv, Indexed, Orphans
  <2> QED
    BY <2>1, <2>2 DEF OrphanInv, OrphansIndexed
<1>3. OrphanInv /\ [Next]_vars => OrphanInv'
  BY AllSizes, NextOrphanInv
<1> QED
  BY <1>1, <1>2, <1>3, PTL DEF Spec
=============================================================================
