-------------------------- MODULE ChainDisk_proofs --------------------------
(***************************************************************************)
(* Proofs about ChainDisk, for every tree of blocks, every size of the     *)
(* block files and of VerifyDB's cache, every -checkblocks, every set of   *)
(* spent coinstakes and every number of faults, on machines whose faults   *)
(* are that the process is killed and that the disk is full.               *)
(*                                                                         *)
(* StoreInv is about the files, the index and the coins and always holds.  *)
(* DiskInv adds what is known of the serials, and holds until an unclean   *)
(* DisconnectBlock erases some for good.                                   *)
(***************************************************************************)
EXTENDS ChainDisk, TLAPS

(* The machines of the theorems: what was written stays written, and the   *)
(* RPC command verifychain looks no deeper than the start of the node.     *)
KilledOnly == \A e \in Envs : e.faults \subseteq {"crash", "space"} /\ e.rpc <= CheckDepth

-----------------------------------------------------------------------------
(* The tree of blocks.                                                     *)

(* What the proofs use of it; proved at the end of the module.             *)
Tree ==
  /\ \A b \in Blocks : b \in Anc[b] /\ Genesis \in Anc[b] /\ Height(b) \in Nat
  /\ \A b \in Blocks : \A a \in Anc[b] : Anc[a] \subseteq Anc[b] /\ Height(a) <= Height(b)
  /\ \A b \in Blocks : \A a \in Anc[b] \ {b} : \E c \in Anc[b] \ {Genesis} : Parent[c] = a

-----------------------------------------------------------------------------
(* The invariant.                                                          *)

(* No serial is spent twice in the chain that ends in x.                   *)
Once(x) ==
  \A b, c \in Anc[x] : \A t \in Spends[b], u \in Spends[c] :
    Serial[t] = Serial[u] => b = c /\ t = u

(* The chain that ends in b spends a serial of b before.                   *)
Twice(b) ==
  \E a \in Anc[b] : \E t \in Spends[a], u \in Spends[b] :
    Serial[t] = Serial[u] /\ (a # b \/ t # u)

(* Every block of the chain that ends in x has undo data in the index i.   *)
Linked(i, x) == \A b \in Anc[x] \ {Genesis} : i[b] = "undo"

(* The transaction index d names the right block for its spends.           *)
Located(d, x) == \A b \in Anc[x] : \A t \in Spends[b] : d[t] = b

(* What the zerocoin database d knows of the serials of a block.           *)
Recorded(d, b) == \A t \in Spends[b] : d[Serial[t]] = t
Erased(d, b)   == \A t \in Spends[b] : d[Serial[t]] = None
Perhaps(d, b)  == \A t \in Spends[b] : d[Serial[t]] \in {t, None}

(* It knows all serials of the chain that ends in x; or some of the last   *)
(* blocks, which a VerifyDB of the given depth writes again, are missing.  *)
Full(d, x) == \A b \in Anc[x] : Recorded(d, b)
Partial(d, depth, x) ==
  \A b \in Anc[x] : Perhaps(d, b) /\ (Recorded(d, b) \/ Height(b) + depth >= Height(x))

(* How far below the tip the start of the node writes serials again.       *)
Back == IF CheckDepth <= env.room THEN CheckDepth ELSE env.room

(* The blocks after c on the way to x are erased.                          *)
Taken(d, c, x) == \A b \in Anc[x] \ Anc[c] : Erased(d, b)

Statuses == {"absent", "data", "undo", "failed"}
Stored == [Blocks -> {"none", "cache", "synced"}]

TypeOK ==
  /\ index \in [Blocks -> Statuses] /\ indexDb \in [Blocks -> Statuses]
  /\ data \in Stored /\ undo \in Stored
  /\ tip \in Blocks /\ best \in Blocks /\ cur \in Blocks /\ target \in Blocks
  /\ serDb \in [Serials -> Txs \cup {None}] /\ txDb \in [Txs -> Blocks \cup {None}]
  /\ \E c \in Blocks : \E s : coinsLog = <<[best |-> c, bare |-> s]>>
  /\ env \in Envs

(* The block index, in memory (i) and on disk (d), and the files.          *)
IndexOK(i, d, ch, blk, und) ==
  /\ i[Genesis] = "data" /\ d[Genesis] = "data"
  /\ \A b \in Blocks :
       /\ b \notin ch => i[b] = d[b]
       /\ i[b] = "absent" => d[b] = "absent"
       /\ i[b] # "absent" => blk[b] # "none"
       /\ d[b] = "undo" \/ i[b] = "undo" => und[b] # "none"
       /\ d[b] = "failed" \/ i[b] = "failed" => Twice(b)

(* The databases record spends only, under their serials and blocks.       *)
Sound(sd, td) ==
  /\ \A s \in Serials : sd[s] # None => Serial[sd[s]] = s
  /\ \A t \in Txs : td[t] # None => t \in Spends[td[t]]

(* The coins on disk belong to block c.                                    *)
Coins(c, d, sd, td, n) ==
  Linked(d, c) /\ Located(td, c) /\ Once(c) /\ Partial(sd, n, c)

(* The chain in memory.                                                    *)
Active(c, i, x, y, td) ==
  /\ Linked(i, x) /\ Linked(i, y) /\ Located(td, x) /\ Located(td, y) /\ Once(y)
  /\ c \in Anc[x] \cup Anc[y]

(* VerifyDB has found the coins of the blocks above cur as they should be. *)
Matching == \A b \in Anc[tip] \ Anc[cur] : ~Mismatch(b)

(* Where the code that holds cs_main is.                                   *)
Flushing  == {"sync", "index", "coins"}
Verifying == {"disconnect", "reconnect", "reconnect2"}
Stage ==
  /\ pc \in {"idle", "connect", "tip", "off"} \cup Flushing \cup Verifying
  /\ pc \in {"idle", "tip"} => Full(serDb, best)
  /\ pc \in Flushing =>
       /\ after \in {"idle", "tip", "off"}
       /\ IF after = "off" THEN Partial(serDb, Back, best) ELSE Full(serDb, best)
  /\ pc = "coins" => dirty = {}
  /\ pc = "connect" =>
       /\ best = tip /\ cur # Genesis /\ Parent[cur] = tip
       /\ index[cur] = "undo" /\ Full(serDb, cur) /\ Once(cur)
  /\ pc = "tip" => coinsDb \in Anc[best]
  /\ pc \in Verifying =>
       /\ best = tip /\ cur \in Anc[tip] /\ after \in {"broken", "idle"}
       /\ Taken(serDb, cur, tip)
  /\ pc = "disconnect" =>
       /\ Partial(serDb, Back, tip) /\ Matching
       /\ after = "idle" => Full(serDb, cur)
  /\ pc \in {"reconnect", "reconnect2"} => Full(serDb, cur)

DiskInv ==
  /\ TypeOK
  /\ IndexOK(index, indexDb, dirty, data, undo)
  /\ Sound(serDb, txDb)
  /\ Coins(coinsDb, indexDb, serDb, txDb, Back)
  /\ Once(tip)
  /\ pc # "off" => Active(coinsDb, index, tip, best, txDb)
  /\ Stage

-----------------------------------------------------------------------------
(* The serials.                                                            *)

LEMMA BlockFacts ==
  /\ Genesis \in Blocks /\ Anc[Genesis] = {Genesis} /\ Spends[Genesis] = {}
  /\ \A b \in Blocks : Anc[b] \subseteq Blocks /\ Spends[b] \subseteq Txs
  /\ \A b \in Blocks \ {Genesis} :
       Parent[b] \in Blocks /\ Anc[b] = Anc[Parent[b]] \cup {b} /\ b \notin Anc[Parent[b]]
  /\ \A t \in Txs : Serial[t] \in Serials
  /\ None \notin Blocks \cup Txs
BY ChainDiskAssumption

USE BlockFacts

(* The zerocoin database after EraseSpends(k) and WriteUndoAndSpends(k).   *)
ErasedOf(d, k) ==
  [s \in Serials |-> IF \E t \in Spends[k] : Serial[t] = s THEN None ELSE d[s]]
WrittenOf(d, k) ==
  [s \in Serials |-> IF \E t \in Spends[k] : Serial[t] = s
                     THEN CHOOSE t \in Spends[k] : Serial[t] = s ELSE d[s]]

(* Erasing the serials of one block of a chain that spends none twice      *)
(* leaves what is known of the others.                                     *)
LEMMA ErasedOfOK ==
  ASSUME NEW d, NEW x \in Blocks, NEW k \in Anc[x], Once(x)
  PROVE  /\ Erased(ErasedOf(d, k), k)
         /\ \A b \in Anc[x] \ {k} : /\ Recorded(d, b) => Recorded(ErasedOf(d, k), b)
                                    /\ Perhaps(d, b) => Perhaps(ErasedOf(d, k), b)
         /\ \A b \in Anc[x] : Erased(d, b) => Erased(ErasedOf(d, k), b)
<1>1. \A b \in Anc[x] : \A t \in Spends[b] : t \in Txs /\ Serial[t] \in Serials
  OBVIOUS
<1>2. \A b \in Anc[x] \ {k} : \A t \in Spends[b] : ErasedOf(d, k)[Serial[t]] = d[Serial[t]]
  BY <1>1 DEF ErasedOf, Once
<1>3. \A b \in Anc[x] : \A t \in Spends[b] :
        ErasedOf(d, k)[Serial[t]] \in {d[Serial[t]], None}
  BY <1>1 DEF ErasedOf
<1>4. \A t \in Spends[k] : ErasedOf(d, k)[Serial[t]] = None
  BY <1>1 DEF ErasedOf
<1> QED BY <1>2, <1>3, <1>4 DEF Erased, Recorded, Perhaps

(* So does writing them.                                                   *)
LEMMA WrittenOfOK ==
  ASSUME NEW d, NEW x \in Blocks, NEW k \in Anc[x], Once(x)
  PROVE  /\ Recorded(WrittenOf(d, k), k)
         /\ \A b \in Anc[x] \ {k} : /\ Recorded(d, b) => Recorded(WrittenOf(d, k), b)
                                    /\ Perhaps(d, b) => Perhaps(WrittenOf(d, k), b)
                                    /\ Erased(d, b) => Erased(WrittenOf(d, k), b)
<1>1. \A b \in Anc[x] : \A t \in Spends[b] : t \in Txs /\ Serial[t] \in Serials
  OBVIOUS
<1>2. \A b \in Anc[x] \ {k} : \A t \in Spends[b] : WrittenOf(d, k)[Serial[t]] = d[Serial[t]]
  BY <1>1 DEF WrittenOf, Once
<1>3. ASSUME NEW t \in Spends[k]
      PROVE  WrittenOf(d, k)[Serial[t]] = t
  <2>1. \A u \in Spends[k] : Serial[u] = Serial[t] => u = t
    BY <1>3 DEF Once
  <2>2. (CHOOSE u \in Spends[k] : Serial[u] = Serial[t]) = t
    BY <1>3, <2>1
  <2> QED BY <1>1, <1>3, <2>2 DEF WrittenOf
<1> QED BY <1>2, <1>3 DEF Erased, Recorded, Perhaps

(* Both keep the databases well formed.                                    *)
LEMMA SerialsSound ==
  ASSUME NEW d \in [Serials -> Txs \cup {None}], NEW td, Sound(d, td), NEW k \in Blocks
  PROVE  /\ ErasedOf(d, k) \in [Serials -> Txs \cup {None}] /\ Sound(ErasedOf(d, k), td)
         /\ WrittenOf(d, k) \in [Serials -> Txs \cup {None}] /\ Sound(WrittenOf(d, k), td)
<1>1. \A s \in Serials :
        (\E t \in Spends[k] : Serial[t] = s) =>
          LET u == CHOOSE t \in Spends[k] : Serial[t] = s IN u \in Txs /\ Serial[u] = s
  OBVIOUS
<1>2. /\ ErasedOf(d, k) \in [Serials -> Txs \cup {None}]
      /\ \A s \in Serials : ErasedOf(d, k)[s] \in {d[s], None}
  BY DEF ErasedOf
<1>3. /\ WrittenOf(d, k) \in [Serials -> Txs \cup {None}]
      /\ \A s \in Serials : WrittenOf(d, k)[s] # d[s] => Serial[WrittenOf(d, k)[s]] = s
  BY <1>1 DEF WrittenOf
<1> QED BY <1>2, <1>3 DEF Sound

LEMMA BackNat ==
  ASSUME TypeOK
  PROVE  Back \in Nat /\ Back <= CheckDepth /\ Back <= env.room /\ CheckDepth \in Nat
BY ChainDiskAssumption DEF TypeOK, Back

LEMMA FullPartial ==
  ASSUME NEW d, NEW n, NEW x \in Blocks, Full(d, x)
  PROVE  Partial(d, n, x)
BY DEF Full, Partial, Recorded, Perhaps

(* The parent's chain, and any chain inside another one.                   *)
LEMMA Shorter ==
  ASSUME Tree, NEW x \in Blocks, NEW y \in Anc[x]
  PROVE  /\ y \in Blocks /\ Anc[y] \subseteq Anc[x]
         /\ Once(x) => Once(y)
         /\ \A d : Full(d, x) => Full(d, y)
         /\ \A d : Located(d, x) => Located(d, y)
         /\ \A i : Linked(i, x) => Linked(i, y)
<1>1. y \in Blocks /\ Anc[y] \subseteq Anc[x]
  BY DEF Tree
<1> QED BY <1>1 DEF Once, Full, Located, Linked

(* A chain longer by one block.                                            *)
LEMMA Longer ==
  ASSUME NEW x \in Blocks, NEW y \in Blocks \ {Genesis}, Parent[y] = x
  PROVE  /\ Anc[y] = Anc[x] \cup {y} /\ y \notin Anc[x]
         /\ \A d : Full(d, x) /\ Recorded(d, y) => Full(d, y)
         /\ \A d : Located(d, x) /\ (\A t \in Spends[y] : d[t] = y) => Located(d, y)
         /\ \A i : Linked(i, x) /\ i[y] = "undo" => Linked(i, y)
BY DEF Full, Located, Linked

(* A block that passes the checks of ConnectBlock on top of the tip spends *)
(* no serial of its chain again; one that fails them does.                 *)
LEMMA AllowedOnce ==
  ASSUME TypeOK, Full(serDb, tip), Located(txDb, tip), Once(tip),
         NEW b \in Blocks \ {Genesis}, Parent[b] = tip, SpendsAllowed(b, FALSE)
  PROVE  Once(b)
<1>1. ASSUME NEW t \in Spends[b], NEW a \in Anc[tip], NEW u \in Spends[a], Serial[t] = Serial[u]
      PROVE  FALSE
  <2>1. serDb[Serial[t]] = u /\ txDb[u] = a /\ u # None
    BY <1>1 DEF Full, Recorded, Located, TypeOK
  <2> QED BY <1>1, <2>1 DEF SpendsAllowed, IsSerialInBlockchain, IsTransactionInChain, Chain
<1>2. \A t, u \in Spends[b] : Serial[t] = Serial[u] => t = u
  BY ChainDiskAssumption
<1>3. Anc[b] = Anc[tip] \cup {b}
  BY DEF TypeOK
<1> QED BY <1>1, <1>2, <1>3 DEF Once

LEMMA RefusedTwice ==
  ASSUME TypeOK, Sound(serDb, txDb), NEW b \in Blocks \ {Genesis}, Parent[b] = tip,
         ~SpendsAllowed(b, FALSE)
  PROVE  Twice(b)
<1>1. PICK u \in Spends[b] :
        \/ txDb[u] \in Anc[tip]
        \/ serDb[Serial[u]] # None /\ txDb[serDb[Serial[u]]] \in Anc[tip]
  BY DEF SpendsAllowed, IsSerialInBlockchain, IsTransactionInChain, Chain
<1>2. u \in Txs /\ Serial[u] \in Serials /\ Anc[b] = Anc[tip] \cup {b} /\ b \notin Anc[tip]
  BY DEF TypeOK
<1>3. \E a \in Anc[tip] : \E t \in Spends[a] : Serial[t] = Serial[u]
  <2>1. CASE txDb[u] \in Anc[tip]
    BY <1>2, <2>1 DEF Sound, TypeOK
  <2>2. CASE serDb[Serial[u]] # None /\ txDb[serDb[Serial[u]]] \in Anc[tip]
    BY <1>2, <2>2 DEF Sound, TypeOK
  <2> QED BY <1>1, <2>1, <2>2
<1> QED BY <1>2, <1>3 DEF Twice
-----------------------------------------------------------------------------
(* What holds of the files, the index and the coins whatever has become of *)
(* the serials: DiskInv without them.                                      *)

InMemory(c, i, x, y) == Linked(i, x) /\ Linked(i, y) /\ c \in Anc[x] \cup Anc[y]

StoreStage ==
  /\ pc \in {"idle", "connect", "tip", "off", "broken"} \cup Flushing \cup Verifying
  /\ pc \in Flushing => after \in {"idle", "tip", "off"}
  /\ pc = "coins" => dirty = {}
  /\ pc = "connect" =>
       best = tip /\ cur # Genesis /\ Parent[cur] = tip /\ index[cur] = "undo"
  /\ pc = "tip" => coinsDb \in Anc[best]
  /\ pc \in Verifying => best = tip /\ cur \in Anc[tip] /\ after \in {"broken", "idle"}

StoreInv ==
  /\ TypeOK
  /\ IndexOK(index, indexDb, dirty, data, undo)
  /\ Sound(serDb, txDb)
  /\ Linked(indexDb, coinsDb)
  /\ pc # "off" => InMemory(coinsDb, index, tip, best)
  /\ StoreStage

LEMMA DiskStore ==
  ASSUME DiskInv
  PROVE  StoreInv
<1>1. StoreStage
  BY Zenon DEF DiskInv, Stage, StoreStage
<1> QED BY <1>1, Zenon DEF DiskInv, StoreInv, Coins, Active, InMemory

LEMMA CoinsDbType ==
  ASSUME TypeOK
  PROVE  coinsDb \in Blocks /\ coinsLog = <<[best |-> coinsDb, bare |-> coinsBare]>>
<1>1. PICK c \in Blocks : \E s : coinsLog = <<[best |-> c, bare |-> s]>>
  BY Zenon DEF TypeOK
<1>2. PICK s : coinsLog = <<[best |-> c, bare |-> s]>>
  BY <1>1, Zenon
<1> QED BY <1>2 DEF coinsDb, coinsBare

(* The steps that leave the index, the files and the coins alone.          *)
StoreKept == UNCHANGED <<index, dirty, tip, best, indexDb, files, coinsLog, env>>

LEMMA StoreKeptStep ==
  ASSUME StoreInv, pc # "off", StoreKept, cur' \in Blocks, target' \in Blocks, StoreStage',
         serDb' \in [Serials -> Txs \cup {None}], txDb' \in [Txs -> Blocks \cup {None}],
         Sound(serDb', txDb')
  PROVE  StoreInv'
<1>1. TypeOK'
  BY Zenon DEF StoreInv, TypeOK, StoreKept, files
<1>2. coinsDb' = coinsDb
  BY Zenon DEF coinsDb, StoreKept
<1>3. IndexOK(index, indexDb, dirty, data, undo)' /\ Linked(indexDb, coinsDb)'
      /\ InMemory(coinsDb, index, tip, best)'
  BY <1>2, Zenon DEF StoreInv, StoreKept, files
<1> QED BY <1>1, <1>3, Zenon DEF StoreInv

(* Of these, the steps that leave the other databases alone as well.       *)
LEMMA ControlStore ==
  ASSUME StoreInv, pc # "off", StoreKept, UNCHANGED <<serDb, txDb>>,
         cur' \in Blocks, target' \in Blocks, StoreStage'
  PROVE  StoreInv'
<1>1. /\ serDb' \in [Serials -> Txs \cup {None}] /\ txDb' \in [Txs -> Blocks \cup {None}]
      /\ Sound(serDb', txDb')
  BY Zenon DEF StoreInv, TypeOK
<1> QED BY <1>1, StoreKeptStep, Zenon

LEMMA QuietStore ==
  ASSUME StoreInv, Tree, KilledOnly,
         \/ ActivateBestChain \/ PeriodicFlush \/ Shutdown \/ FlushFails \/ VerifyChain
         \/ VerifyTurn \/ VerifyShutdown \/ VerifyDone
  PROVE  StoreInv'
<1>1. TypeOK /\ StoreStage /\ cur \in Blocks /\ target \in Blocks /\ tip \in Blocks
  BY Zenon DEF StoreInv, TypeOK
<1>2. CASE ActivateBestChain
  <2>1. pc = "idle" /\ pc' = "idle" /\ cur' = cur /\ target' \in Blocks
    BY <1>2, Zenon DEF ActivateBestChain, Better, Candidates
  <2>2. StoreKept /\ UNCHANGED <<serDb, txDb>>
    BY <1>2, Zenon DEF ActivateBestChain, StoreKept, zdb, txidx, world
  <2>3. StoreStage'
    BY <2>1, Zenon DEF StoreStage, Flushing, Verifying
  <2> QED BY <1>1, <2>1, <2>2, <2>3, ControlStore, Zenon
<1>3. ASSUME NEW cont \in {"idle", "off"}, Flush(cont)
      PROVE  StoreInv'
  <2>1. pc = "idle" /\ pc' = "sync" /\ after' = cont /\ cur' = cur /\ target' = target
    BY <1>3, Zenon DEF Flush
  <2>2. StoreKept /\ UNCHANGED <<serDb, txDb>>
    BY <1>3, Zenon DEF Flush, StoreKept, zdb, txidx, world
  <2>3. StoreStage'
    BY <1>3, <2>1, Zenon DEF StoreStage, Flushing, Verifying
  <2> QED BY <1>1, <2>1, <2>2, <2>3, ControlStore, Zenon
<1>4. CASE FlushFails
  <2>1. pc = "sync" /\ UNCHANGED dirty /\ pc' \in {"off", "idle"} /\ cur' = cur /\ target' = tip
    <3>1. env \in Envs
      BY <1>1, Zenon DEF TypeOK
    <3> QED BY <1>4, <3>1 DEF FlushFails, Fault, KilledOnly
  <2>2. StoreKept /\ UNCHANGED <<serDb, txDb>>
    BY <1>4, <2>1, Zenon DEF FlushFails, StoreKept, zdb, txidx
  <2>3. StoreStage'
    BY <2>1, Zenon DEF StoreStage, Flushing, Verifying
  <2> QED BY <1>1, <2>1, <2>2, <2>3, ControlStore, Zenon
<1>5. CASE VerifyChain
  <2>1. /\ pc = "idle" /\ pc' = "disconnect" /\ after' = "idle" /\ best = tip
        /\ cur' = tip /\ target' = target
    BY <1>5, Zenon DEF VerifyChain
  <2>2. StoreKept /\ UNCHANGED <<serDb, txDb>> /\ UNCHANGED <<tip, best>>
    BY <1>5, Zenon DEF VerifyChain, StoreKept, zdb, txidx, world
  <2>3. StoreStage'
    <3>1. tip \in Anc[tip]
      BY <1>1, Zenon DEF Tree
    <3> QED BY <2>1, <2>2, <3>1, Zenon DEF StoreStage, Flushing, Verifying
  <2> QED BY <1>1, <2>1, <2>2, <2>3, ControlStore, Zenon
<1>6. CASE VerifyTurn \/ VerifyDone
  <2>1. /\ pc \in {"disconnect", "reconnect"} /\ pc' \in {"reconnect", after, "idle"}
        /\ UNCHANGED memory /\ UNCHANGED <<indexDb, files, coinsLog, serDb, txDb, env>>
    BY <1>6, Zenon DEF VerifyTurn, VerifyDone, zdb, txidx, world
  <2>2. /\ StoreKept /\ UNCHANGED <<cur, target, after, tip, best>>
    BY <2>1, Zenon DEF StoreKept, memory
  <2>3. best = tip /\ cur \in Anc[tip] /\ after \in {"broken", "idle"}
    BY <1>1, <2>1, Zenon DEF StoreStage, Verifying
  <2>4. StoreStage'
    BY <2>1, <2>2, <2>3, Zenon DEF StoreStage, Flushing, Verifying
  <2> QED BY <1>1, <2>1, <2>2, <2>4, ControlStore, Zenon
<1>7. CASE VerifyShutdown
  <2>1. pc = "disconnect" /\ pc' = "sync" /\ after' = "off" /\ cur' = cur /\ target' = target
    BY <1>7, Zenon DEF VerifyShutdown
  <2>2. StoreKept /\ UNCHANGED <<serDb, txDb>>
    BY <1>7, Zenon DEF VerifyShutdown, StoreKept, zdb, txidx, world
  <2>3. StoreStage'
    BY <2>1, Zenon DEF StoreStage, Flushing, Verifying
  <2> QED BY <1>1, <2>1, <2>2, <2>3, ControlStore, Zenon
<1> QED BY <1>2, <1>3, <1>4, <1>5, <1>6, <1>7, Zenon DEF PeriodicFlush, Shutdown

(* A block arrives.                                                        *)
LEMMA CommitKeeps ==
  ASSUME NEW f, NEW store \in Stored
  PROVE  /\ Commit(f, store) \in Stored
         /\ \A b \in Blocks : store[b] # "none" => Commit(f, store)[b] # "none"
BY Zenon DEF Commit, Stored

LEMMA AcceptBlockStore ==
  ASSUME StoreInv, NEW b \in Blocks \ {Genesis}, AcceptBlock(b)
  PROVE  StoreInv'
<1> DEFINE full == FileSize(LastFile) >= env.cap
           oldData == IF full THEN Commit(LastFile, data) ELSE data
           oldUndo == IF full THEN Commit(LastFile, undo) ELSE undo
<1>1. /\ pc = "idle" /\ index[b] = "absent"
      /\ index' = [index EXCEPT ![b] = "data"] /\ dirty' = dirty \cup {b}
      /\ data' = [oldData EXCEPT ![b] = "cache"] /\ undo' = [oldUndo EXCEPT ![b] = "none"]
      /\ UNCHANGED <<pc, after, tip, best, target, cur, indexDb, coinsLog, serDb, txDb, env>>
  BY ZenonT(60) DEF AcceptBlock, zdb, txidx, world
<1>2. /\ oldData \in Stored /\ oldUndo \in Stored
      /\ \A c \in Blocks : /\ data[c] # "none" => oldData[c] # "none"
                           /\ undo[c] # "none" => oldUndo[c] # "none"
  BY CommitKeeps DEF StoreInv, TypeOK
<1> HIDE DEF oldData, oldUndo
<1>3. /\ data' \in Stored /\ undo' \in Stored /\ data'[b] = "cache"
      /\ \A c \in Blocks \ {b} : /\ data[c] # "none" => data'[c] # "none"
                                 /\ undo[c] # "none" => undo'[c] # "none"
  BY <1>1, <1>2, Zenon DEF Stored
<1>4. TypeOK'
  BY <1>1, <1>3, Zenon DEF StoreInv, TypeOK, Statuses
<1>5. IndexOK(index, indexDb, dirty, data, undo)'
  <2>1. IndexOK(index, indexDb, dirty, data, undo) /\ index \in [Blocks -> Statuses]
    BY Zenon DEF StoreInv, TypeOK
  <2>2. index'[b] = "data" /\ \A c \in Blocks \ {b} : index'[c] = index[c]
    BY <1>1, <2>1
  <2> QED BY <1>1, <1>3, <2>1, <2>2 DEF IndexOK
<1>6. coinsDb' = coinsDb
  BY <1>1, Zenon DEF coinsDb
<1>7. InMemory(coinsDb, index, tip, best)'
  <2>1. \A c \in Blocks : index[c] = "undo" => index'[c] = "undo"
    BY <1>1, Zenon DEF StoreInv, TypeOK
  <2> QED BY <1>1, <1>6, <2>1, Zenon DEF StoreInv, TypeOK, InMemory, Linked
<1>8. Sound(serDb, txDb)' /\ Linked(indexDb, coinsDb)' /\ StoreStage'
  BY <1>1, <1>6, Zenon DEF StoreInv, StoreStage, Flushing, Verifying
<1> QED BY <1>4, <1>5, <1>7, <1>8, Zenon DEF StoreInv

(* A flush: first the files ...                                            *)
LEMMA FlushBlockFileStore ==
  ASSUME StoreInv, FlushBlockFile
  PROVE  StoreInv'
<1>1. /\ data' \in Stored /\ undo' \in Stored
      /\ \A b \in Blocks : /\ data[b] # "none" => data'[b] # "none"
                           /\ undo[b] # "none" => undo'[b] # "none"
  BY CommitKeeps DEF FlushBlockFile, StoreInv, TypeOK
<1>2. /\ pc = "sync" /\ pc' = "index"
      /\ UNCHANGED <<after, index, dirty, tip, best, target, cur, indexDb, coinsLog, serDb, txDb, env>>
  BY Zenon DEF FlushBlockFile, memory, zdb, txidx, world
<1>3. TypeOK'
  BY <1>1, <1>2, Zenon DEF StoreInv, TypeOK
<1>4. IndexOK(index, indexDb, dirty, data, undo)'
  BY <1>1, <1>2, Zenon DEF StoreInv, IndexOK
<1>5. coinsDb' = coinsDb
  BY <1>2, Zenon DEF coinsDb
<1>6. StoreStage'
  BY <1>2, Zenon DEF StoreInv, StoreStage, Flushing, Verifying
<1> QED BY <1>2, <1>3, <1>4, <1>5, <1>6, Zenon DEF StoreInv

(* ... then the index: the coins on disk belong to a block of the chain in *)
(* memory, whose index entries all have undo data ...                      *)
LEMMA WriteBatchSyncStore ==
  ASSUME StoreInv, Tree, WriteBatchSync
  PROVE  StoreInv'
<1>1. /\ pc = "index" /\ pc' = "coins" /\ dirty' = {}
      /\ UNCHANGED <<after, index, tip, best, target, cur, data, undo, coinsLog, serDb, txDb, env>>
  BY Zenon DEF WriteBatchSync, files, zdb, world
<1>2. indexDb' = index
  <2>1. IndexOK(index, indexDb, dirty, data, undo) /\ index \in [Blocks -> Statuses]
    BY Zenon DEF StoreInv, TypeOK
  <2> QED BY <2>1, Zenon DEF WriteBatchSync, IndexOK
<1>3. TypeOK' /\ coinsDb \in Blocks /\ tip \in Blocks /\ best \in Blocks
  BY <1>1, <1>2, CoinsDbType, Zenon DEF StoreInv, TypeOK
<1>4. IndexOK(index, indexDb, dirty, data, undo)'
  <2>1. IndexOK(index, indexDb, dirty, data, undo)
    BY DEF StoreInv
  <2> QED BY <1>1, <1>2, <2>1, Zenon DEF IndexOK
<1>5. coinsDb' = coinsDb
  BY <1>1, Zenon DEF coinsDb
<1>6. InMemory(coinsDb, index, tip, best)
  BY <1>1, Zenon DEF StoreInv
<1>7. Linked(index, coinsDb)
  BY <1>3, <1>6, Shorter, Zenon DEF InMemory
<1>8. StoreStage'
  BY <1>1, Zenon DEF StoreInv, StoreStage, Flushing, Verifying
<1> QED BY <1>1, <1>2, <1>3, <1>4, <1>5, <1>6, <1>7, <1>8, Zenon DEF StoreInv

(* ... and the coins.                                                      *)
LEMMA WriteCoinsStore ==
  ASSUME StoreInv, Tree, KilledOnly, WriteCoins
  PROVE  StoreInv' /\ coinsDb' = best
<1>1. /\ pc = "coins" /\ pc' = after /\ after \in {"idle", "tip", "off"}
      /\ UNCHANGED <<after, index, dirty, tip, best, target, cur, indexDb, data, undo, serDb, txDb, env>>
  BY Zenon DEF WriteCoins, StoreInv, StoreStage, Flushing, memory, files, zdb, txidx, world
<1>2. coinsLog' = <<[best |-> best, bare |-> bare]>> /\ best \in Blocks /\ best \in Anc[best]
  <2>1. env \in Envs /\ best \in Blocks
    BY Zenon DEF StoreInv, TypeOK
  <2>2. ~CanLoseWrites
    BY <2>1 DEF CanLoseWrites, KilledOnly
  <2> QED BY <2>1, <2>2, Zenon DEF WriteCoins, Tree
<1>3. coinsDb' = best
  BY <1>2 DEF coinsDb
<1>4. TypeOK'
  BY <1>1, <1>2, Zenon DEF StoreInv, TypeOK
<1>5. InMemory(coinsDb, index, tip, best)'
  BY <1>1, <1>2, <1>3, Zenon DEF StoreInv, InMemory
<1>6. Linked(indexDb, best)
  <2>1. dirty = {} /\ IndexOK(index, indexDb, dirty, data, undo)
    BY <1>1, Zenon DEF StoreInv, StoreStage
  <2>2. \A b \in Blocks : indexDb[b] = index[b]
    BY <2>1, Zenon DEF IndexOK
  <2> QED BY <1>1, <1>2, <2>2, Zenon DEF StoreInv, InMemory, Linked
<1>7. StoreStage'
  BY <1>1, <1>2, <1>3, Zenon DEF StoreStage, Flushing, Verifying
<1> QED BY <1>1, <1>3, <1>4, <1>5, <1>6, <1>7, Zenon DEF StoreInv

(* The process is killed and the node starts again: the coins on disk      *)
(* become the chain.                                                       *)
LEMMA CrashStore ==
  ASSUME StoreInv, Crash
  PROVE  StoreInv'
<1>1. /\ pc' = "off" /\ index' = indexDb /\ dirty' = {}
      /\ tip' = Genesis /\ best' = Genesis /\ target' = Genesis /\ cur' = Genesis
      /\ UNCHANGED <<indexDb, data, undo, coinsLog, serDb, txDb, env>>
  BY Zenon DEF Crash, LoseMemory, files, zdb, txidx
<1>2. TypeOK'
  BY <1>1, Zenon DEF StoreInv, TypeOK
<1>3. IndexOK(index, indexDb, dirty, data, undo)'
  <2>1. IndexOK(index, indexDb, dirty, data, undo)
    BY Zenon DEF StoreInv
  <2> QED BY <1>1, <2>1, Zenon DEF IndexOK
<1>4. coinsDb' = coinsDb
  BY <1>1, Zenon DEF coinsDb
<1>5. StoreStage'
  BY <1>1, Zenon DEF StoreStage, Flushing, Verifying
<1> QED BY <1>1, <1>2, <1>3, <1>4, <1>5, Zenon DEF StoreInv

LEMMA NoPowerLoss ==
  ASSUME TypeOK, KilledOnly, PowerLoss
  PROVE  FALSE
<1>1. env \in Envs
  BY Zenon DEF TypeOK
<1> QED BY <1>1 DEF PowerLoss, Fault, KilledOnly

LEMMA LoadBlockIndexStore ==
  ASSUME StoreInv, Tree, LoadBlockIndex
  PROVE  StoreInv' /\ pc' = "disconnect"
<1> DEFINE c == coinsDb
<1>1. /\ index' = indexDb /\ dirty' = {} /\ after' = "broken"
      /\ tip' = c /\ best' = c /\ target' = c /\ cur' = c
      /\ UNCHANGED <<indexDb, coinsLog, serDb, txDb, env>>
  BY Zenon DEF LoadBlockIndex, zdb, txidx, world
<1>2. /\ TypeOK /\ IndexOK(index, indexDb, dirty, data, undo) /\ Sound(serDb, txDb)
      /\ Linked(indexDb, c)
  BY Zenon DEF StoreInv
<1>3. c \in Blocks /\ c \in Anc[c] /\ coinsDb' = c
  BY <1>1, <1>2, CoinsDbType, Zenon DEF Tree, coinsDb
<1>4. pc' = "disconnect"
  <2>1. indexDb[c] # "absent"
    BY <1>2, <1>3, Zenon DEF IndexOK, Linked
  <2> QED BY <2>1, Zenon DEF LoadBlockIndex
<1> HIDE DEF c
<1>5. /\ data' \in Stored /\ undo' \in Stored
      /\ \A b \in Blocks : /\ indexDb[b] # "absent" => data'[b] = data[b]
                           /\ indexDb[b] = "undo" => undo'[b] = undo[b]
  BY <1>1, <1>2, Zenon DEF LoadBlockIndex, TypeOK, Stored
<1>6. TypeOK'
  BY <1>1, <1>2, <1>3, <1>5, Zenon DEF TypeOK
<1>7. IndexOK(index, indexDb, dirty, data, undo)'
  BY <1>1, <1>2, <1>5, Zenon DEF IndexOK
<1>8. StoreStage'
  BY <1>1, <1>3, <1>4, Zenon DEF StoreStage, Flushing, Verifying
<1>9. InMemory(coinsDb, index, tip, best)'
  BY <1>1, <1>2, <1>3, Zenon DEF InMemory
<1> QED BY <1>1, <1>2, <1>3, <1>4, <1>6, <1>7, <1>8, <1>9, Zenon DEF StoreInv

(* A reorganisation.                                                       *)
LEMMA DisconnectTipStore ==
  ASSUME StoreInv, Tree, DisconnectTip
  PROVE  StoreInv'
<1>1. /\ pc = "idle" /\ best = tip /\ tip \notin Anc[target]
      /\ serDb' = ErasedOf(serDb, tip)
      /\ UNCHANGED <<index, dirty, tip, cur, indexDb, data, undo, coinsLog, txDb, env>>
  BY Zenon DEF DisconnectTip, EraseSpends, ErasedOf, files, txidx
<1>2. TypeOK /\ Sound(serDb, txDb) /\ InMemory(coinsDb, index, tip, best) /\ tip \in Blocks
      /\ target \in Blocks /\ cur \in Blocks
  BY <1>1, Zenon DEF StoreInv, TypeOK
<1>3. serDb' \in [Serials -> Txs \cup {None}] /\ Sound(serDb', txDb')
  BY <1>1, <1>2, SerialsSound, Zenon DEF TypeOK
<1>4. CASE tip \in bare
  <2>1. pc' = pc /\ after' = after /\ best' = best /\ target' = tip
    BY <1>4, Zenon DEF DisconnectTip
  <2>2. StoreKept /\ StoreStage'
    BY <1>1, <2>1, Zenon DEF StoreKept, files, StoreStage, Flushing, Verifying
  <2>3. cur' \in Blocks /\ target' \in Blocks /\ txDb' \in [Txs -> Blocks \cup {None}]
    BY <1>1, <1>2, <2>1, Zenon DEF TypeOK
  <2> QED BY <1>1, <1>3, <2>2, <2>3, StoreKeptStep, Zenon
<1>5. CASE tip \notin bare
  <2>1. best' = Parent[tip] /\ pc' = "sync" /\ after' = "tip" /\ target' = target
    BY <1>5, Zenon DEF DisconnectTip
  <2>2. tip # Genesis
    BY <1>1, <1>2, Zenon DEF Tree
  <2>3. Parent[tip] \in Blocks /\ Parent[tip] \in Anc[tip]
    BY <1>2, <2>2 DEF Tree
  <2>4. TypeOK'
    BY <1>1, <1>2, <1>3, <2>1, <2>3, Zenon DEF TypeOK
  <2>5. coinsDb' = coinsDb
    BY <1>1, Zenon DEF coinsDb
  <2>6. Linked(index, Parent[tip])
    BY <1>2, <2>3, Shorter, Zenon DEF InMemory
  <2>7. InMemory(coinsDb, index, tip, best)'
    BY <1>1, <1>2, <2>5, <2>6, <2>1, Zenon DEF InMemory
  <2>8. StoreStage'
    BY <2>1, Zenon DEF StoreStage, Flushing, Verifying
  <2> QED BY <1>1, <1>3, <2>4, <2>5, <2>7, <2>8, Zenon DEF StoreInv
<1> QED BY <1>4, <1>5

LEMMA TowardOK ==
  ASSUME Tree, NEW x \in Blocks, NEW a \in Anc[x] \ {x}
  PROVE  /\ Toward(a, x) \in Blocks \ {Genesis} /\ Toward(a, x) \in Anc[x]
         /\ Parent[Toward(a, x)] = a
<1>1. \E c \in Anc[x] \ {Genesis} : Parent[c] = a
  BY ZenonT(60) DEF Tree
<1> QED BY <1>1, Zenon DEF Toward

(* WriteUndoAndSpends gives the block undo data and changes no other       *)
(* entry.                                                                  *)
LEMMA WriteUndoOK ==
  ASSUME TypeOK, IndexOK(index, indexDb, dirty, data, undo), NEW b \in Blocks \ {Genesis},
         data[b] # "none", WriteUndoAndSpends(b), UNCHANGED <<indexDb, data>>
  PROVE  /\ index' \in [Blocks -> Statuses] /\ undo' \in Stored
         /\ index'[b] = "undo" /\ \A c \in Blocks \ {b} : index'[c] = index[c]
         /\ IndexOK(index, indexDb, dirty, data, undo)'
<1>1. index \in [Blocks -> Statuses] /\ undo \in Stored
  BY Zenon DEF TypeOK
<1>2. CASE index[b] = "undo"
  <2>1. UNCHANGED <<index, dirty, undo>>
    BY <1>2, Zenon DEF WriteUndoAndSpends
  <2> QED BY <1>1, <1>2, <2>1, Zenon
<1>3. CASE index[b] # "undo"
  <2>1. /\ index' = [index EXCEPT ![b] = "undo"] /\ dirty' = dirty \cup {b}
        /\ undo' = [undo EXCEPT ![b] = "cache"]
    BY <1>3, Zenon DEF WriteUndoAndSpends
  <2>2. /\ index' \in [Blocks -> Statuses] /\ undo' \in Stored
        /\ index'[b] = "undo" /\ \A c \in Blocks \ {b} : index'[c] = index[c]
        /\ undo'[b] = "cache" /\ \A c \in Blocks \ {b} : undo'[c] = undo[c]
    BY <1>1, <2>1, ZenonT(60) DEF Stored, Statuses
  <2>3. IndexOK(index, indexDb, dirty, data, undo)'
    BY <2>1, <2>2 DEF IndexOK
  <2> QED BY <2>2, <2>3, Zenon
<1> QED BY <1>2, <1>3, Zenon

LEMMA ConnectTipStore ==
  ASSUME StoreInv, Tree, NEW b \in Blocks \ {Genesis}, ConnectTip(b)
  PROVE  StoreInv'
<1>1. /\ pc = "idle" /\ best = tip /\ tip \in Anc[target] \ {target} /\ b = Toward(tip, target)
      /\ data[b] # "none" /\ UNCHANGED <<after, tip, best, indexDb, data, coinsLog, txDb, env>>
  <2>1. tip \in Anc[target] \ {target}
    BY Zenon DEF ConnectTip
  <2> QED BY <2>1, Zenon DEF ConnectTip, txidx, world
<1>2. /\ TypeOK /\ IndexOK(index, indexDb, dirty, data, undo) /\ Sound(serDb, txDb)
      /\ Linked(indexDb, coinsDb) /\ InMemory(coinsDb, index, tip, best)
  BY <1>1, Zenon DEF StoreInv
<1>3. Parent[b] = tip /\ tip \in Blocks /\ b \notin Anc[tip]
  BY <1>1, <1>2, TowardOK DEF TypeOK
<1>4. coinsDb' = coinsDb
  BY <1>1, Zenon DEF coinsDb
<1>5. CASE SpendsAllowed(b, FALSE)
  <2>1. WriteUndoAndSpends(b) /\ pc' = "connect" /\ cur' = b /\ target' = target
    BY <1>5, Zenon DEF ConnectTip
  <2>2. /\ index' \in [Blocks -> Statuses] /\ undo' \in Stored
        /\ index'[b] = "undo" /\ \A c \in Blocks \ {b} : index'[c] = index[c]
        /\ IndexOK(index, indexDb, dirty, data, undo)'
    BY <1>1, <1>2, <2>1, WriteUndoOK, Zenon
  <2>3. serDb' = WrittenOf(serDb, b)
    BY <2>1 DEF WriteUndoAndSpends, WrittenOf
  <2>4. serDb' \in [Serials -> Txs \cup {None}] /\ Sound(serDb', txDb')
    BY <1>1, <1>2, <2>3, SerialsSound, Zenon DEF TypeOK
  <2>5. TypeOK'
    BY <1>1, <1>2, <2>1, <2>2, <2>4, Zenon DEF TypeOK
  <2>6. InMemory(coinsDb, index, tip, best)'
    BY <1>1, <1>2, <1>3, <1>4, <2>2, Zenon DEF InMemory, Linked
  <2>7. StoreStage'
    BY <1>1, <1>3, <2>1, <2>2, Zenon DEF StoreStage, Flushing, Verifying
  <2> QED BY <1>1, <1>2, <1>4, <2>2, <2>4, <2>5, <2>6, <2>7, Zenon DEF StoreInv
<1>6. CASE ~SpendsAllowed(b, FALSE)
  <2>1. /\ index' = [index EXCEPT ![b] = "failed"] /\ dirty' = dirty \cup {b} /\ target' = tip
        /\ UNCHANGED <<pc, cur, undo, serDb>>
    BY <1>6, Zenon DEF ConnectTip, zdb
  <2>2. Twice(b)
    BY <1>2, <1>3, <1>6, RefusedTwice, Zenon
  <2>3. /\ index' \in [Blocks -> Statuses]
        /\ index'[b] = "failed" /\ \A c \in Blocks \ {b} : index'[c] = index[c]
    BY <1>2, <2>1, ZenonT(60) DEF TypeOK, Statuses
  <2>4. TypeOK'
    BY <1>1, <1>2, <2>1, <2>3, Zenon DEF TypeOK
  <2>5. IndexOK(index, indexDb, dirty, data, undo)'
    BY <1>1, <1>2, <2>1, <2>2, <2>3 DEF IndexOK
  <2>6. InMemory(coinsDb, index, tip, best)'
    BY <1>1, <1>2, <1>3, <1>4, <2>3, Zenon DEF InMemory, Linked
  <2>7. StoreStage'
    BY <1>1, <2>1, Zenon DEF StoreStage, Flushing, Verifying
  <2> QED BY <1>1, <1>2, <1>4, <2>1, <2>4, <2>5, <2>6, <2>7, Zenon DEF StoreInv
<1> QED BY <1>5, <1>6, Zenon

(* WriteTxIndex keeps the transaction index well formed.                   *)
LEMMA WriteTxIndexSound ==
  ASSUME TypeOK, Sound(serDb, txDb), NEW b \in Blocks, WriteTxIndex(b), UNCHANGED serDb
  PROVE  /\ txDb' \in [Txs -> Blocks \cup {None}] /\ Sound(serDb', txDb')
         /\ \A t \in Txs : txDb'[t] = IF t \in Spends[b] THEN b ELSE txDb[t]
<1>1. txDb \in [Txs -> Blocks \cup {None}] /\ b # None
  BY Zenon DEF TypeOK
<1>2. /\ txDb' \in [Txs -> Blocks \cup {None}]
      /\ \A t \in Txs : txDb'[t] = IF t \in Spends[b] THEN b ELSE txDb[t]
  BY <1>1, Zenon DEF WriteTxIndex
<1>3. Sound(serDb', txDb')
  BY <1>1, <1>2, Zenon DEF Sound
<1> QED BY <1>2, <1>3, Zenon

LEMMA ConnectTipFinishStore ==
  ASSUME StoreInv, Tree, ConnectTipFinish
  PROVE  StoreInv'
<1>1. /\ pc = "connect" /\ WriteTxIndex(cur) /\ best' = cur /\ pc' \in {"sync", "tip"}
      /\ after' = "tip"
      /\ UNCHANGED <<index, dirty, tip, target, cur, indexDb, data, undo, coinsLog, serDb, env>>
  BY Zenon DEF ConnectTipFinish, files, zdb, world
<1>2. /\ TypeOK /\ Sound(serDb, txDb) /\ InMemory(coinsDb, index, tip, best)
  BY <1>1, Zenon DEF StoreInv
<1>3. /\ best = tip /\ cur \in Blocks \ {Genesis} /\ Parent[cur] = tip /\ tip \in Blocks
      /\ index[cur] = "undo"
  BY <1>1, <1>2, Zenon DEF StoreInv, StoreStage, TypeOK
<1>4. txDb' \in [Txs -> Blocks \cup {None}] /\ Sound(serDb', txDb')
  BY <1>1, <1>2, <1>3, WriteTxIndexSound, Zenon
<1>5. Linked(index, cur) /\ Anc[cur] = Anc[tip] \cup {cur}
  BY <1>2, <1>3, Longer, Zenon DEF InMemory
<1>6. coinsDb' = coinsDb /\ coinsDb \in Anc[tip]
  BY <1>1, <1>2, <1>3, Zenon DEF coinsDb, InMemory
<1>7. TypeOK'
  BY <1>1, <1>2, <1>3, <1>4, Zenon DEF TypeOK
<1>8. InMemory(coinsDb, index, tip, best)'
  BY <1>1, <1>2, <1>5, <1>6, Zenon DEF InMemory
<1>9. StoreStage'
  BY <1>1, <1>5, <1>6, Zenon DEF StoreStage, Flushing, Verifying
<1> QED BY <1>1, <1>4, <1>6, <1>7, <1>8, <1>9, Zenon DEF StoreInv

LEMMA UpdateTipStore ==
  ASSUME StoreInv, UpdateTip
  PROVE  StoreInv'
<1>1. /\ pc = "tip" /\ pc' = "idle" /\ tip' = best /\ target' \in {best, target}
      /\ UNCHANGED <<index, dirty, best, cur, indexDb, data, undo, coinsLog, serDb, txDb, env>>
  BY Zenon DEF UpdateTip, files, zdb, txidx, world
<1>2. TypeOK'
  BY <1>1, Zenon DEF StoreInv, TypeOK
<1>3. coinsDb' = coinsDb /\ coinsDb \in Anc[best]
  BY <1>1, Zenon DEF coinsDb, StoreInv, StoreStage
<1>4. InMemory(coinsDb, index, tip, best)'
  BY <1>1, <1>3, Zenon DEF StoreInv, InMemory
<1>5. StoreStage'
  BY <1>1, Zenon DEF StoreStage, Flushing, Verifying
<1> QED BY <1>1, <1>2, <1>3, <1>4, <1>5, Zenon DEF StoreInv

(* VerifyDB.                                                               *)
LEMMA VerifyDisconnectStore ==
  ASSUME StoreInv, Tree, VerifyDisconnect
  PROVE  StoreInv'
<1>1. /\ pc = "disconnect" /\ cur # Genesis /\ pc' \in {pc, after}
      /\ StoreKept /\ UNCHANGED <<after, tip, best, target, txDb>>
  BY Zenon DEF VerifyDisconnect, InWindow, StoreKept, txidx
<1>2. /\ TypeOK /\ Sound(serDb, txDb) /\ best = tip /\ cur \in Anc[tip]
      /\ after \in {"broken", "idle"}
  BY <1>1, Zenon DEF StoreInv, StoreStage, Verifying
<1>3. tip \in Blocks /\ cur \in Blocks \ {Genesis} /\ target \in Blocks
  BY <1>1, <1>2, Zenon DEF TypeOK
<1>4. Parent[cur] \in Blocks /\ Parent[cur] \in Anc[tip]
  <2>1. Parent[cur] \in Blocks /\ Parent[cur] \in Anc[Parent[cur]]
    BY <1>3, Zenon DEF Tree
  <2>2. Parent[cur] \in Anc[cur]
    BY <1>3, <2>1
  <2> QED BY <1>2, <1>3, <2>1, <2>2, Zenon DEF Tree
<1>5. serDb' \in {serDb, ErasedOf(serDb, cur)} /\ cur' \in {cur, Parent[cur]}
  BY Zenon DEF VerifyDisconnect, EraseSpends, ErasedOf, zdb
<1>6. /\ serDb' \in [Serials -> Txs \cup {None}] /\ txDb' \in [Txs -> Blocks \cup {None}]
      /\ Sound(serDb', txDb')
  <2>1. /\ serDb \in [Serials -> Txs \cup {None}] /\ txDb \in [Txs -> Blocks \cup {None}]
        /\ ErasedOf(serDb, cur) \in [Serials -> Txs \cup {None}] /\ Sound(ErasedOf(serDb, cur), txDb)
    BY <1>2, <1>3, SerialsSound, Zenon DEF TypeOK
  <2> QED BY <1>1, <1>2, <1>5, <2>1, Zenon
<1>7. StoreStage'
  BY <1>1, <1>2, <1>4, <1>5, Zenon DEF StoreStage, Flushing, Verifying
<1>8. cur' \in Blocks /\ target' \in Blocks
  BY <1>1, <1>3, <1>4, <1>5, Zenon
<1> QED BY <1>1, <1>6, <1>7, <1>8, StoreKeptStep, Zenon

LEMMA VerifyReconnectStore ==
  ASSUME StoreInv, Tree, VerifyReconnect
  PROVE  StoreInv'
<1> DEFINE b == Toward(cur, tip)
<1>1. /\ pc = "reconnect" /\ cur # tip
      /\ UNCHANGED <<after, tip, best, target, indexDb, data, coinsLog, txDb, env>>
  BY Zenon DEF VerifyReconnect, txidx, world
<1>2. /\ TypeOK /\ Sound(serDb, txDb) /\ best = tip /\ cur \in Anc[tip]
      /\ after \in {"broken", "idle"} /\ Linked(index, tip)
  BY <1>1, Zenon DEF StoreInv, StoreStage, Verifying, InMemory
<1>3. tip \in Blocks /\ cur \in Blocks /\ target \in Blocks
  BY <1>2, Zenon DEF TypeOK
<1>4. b \in Blocks \ {Genesis} /\ b \in Anc[tip]
  BY <1>1, <1>2, <1>3, TowardOK, Zenon
<1>5. index[b] = "undo"
  BY <1>2, <1>4, Zenon DEF Linked
<1>6. \/ WriteUndoAndSpends(b) /\ cur' = b /\ pc' = "reconnect2"
      \/ pc' = after /\ UNCHANGED <<index, dirty, undo, serDb, cur>>
  BY Zenon DEF VerifyReconnect, zdb
<1> HIDE DEF b
<1>7. UNCHANGED <<index, dirty, undo>> /\ serDb' \in {serDb, WrittenOf(serDb, b)}
  BY <1>5, <1>6, Zenon DEF WriteUndoAndSpends, WrittenOf
<1>8. /\ serDb' \in [Serials -> Txs \cup {None}] /\ txDb' \in [Txs -> Blocks \cup {None}]
      /\ Sound(serDb', txDb')
  <2>1. /\ serDb \in [Serials -> Txs \cup {None}] /\ txDb \in [Txs -> Blocks \cup {None}]
        /\ WrittenOf(serDb, b) \in [Serials -> Txs \cup {None}] /\ Sound(WrittenOf(serDb, b), txDb)
    BY <1>2, <1>4, SerialsSound, Zenon DEF TypeOK
  <2> QED BY <1>1, <1>2, <1>7, <2>1, Zenon
<1>9. StoreStage'
  BY <1>1, <1>2, <1>4, <1>6, Zenon DEF StoreStage, Flushing, Verifying
<1>10. StoreKept /\ cur' \in Blocks /\ target' \in Blocks
  BY <1>1, <1>3, <1>4, <1>6, <1>7, Zenon DEF StoreKept, files
<1> QED BY <1>1, <1>8, <1>9, <1>10, StoreKeptStep, Zenon

LEMMA VerifyReconnectFinishStore ==
  ASSUME StoreInv, VerifyReconnectFinish
  PROVE  StoreInv'
<1>1. /\ pc = "reconnect2" /\ pc' = "reconnect" /\ WriteTxIndex(cur)
      /\ UNCHANGED <<after, index, dirty, tip, best, target, cur, indexDb, data, undo, coinsLog,
                     serDb, env>>
  BY Zenon DEF VerifyReconnectFinish, memory, files, zdb, world
<1>2. TypeOK /\ Sound(serDb, txDb) /\ cur \in Blocks /\ target \in Blocks
  BY Zenon DEF StoreInv, TypeOK
<1>3. /\ serDb' \in [Serials -> Txs \cup {None}] /\ txDb' \in [Txs -> Blocks \cup {None}]
      /\ Sound(serDb', txDb')
  BY <1>1, <1>2, WriteTxIndexSound, Zenon DEF TypeOK
<1>4. StoreStage'
  BY <1>1, Zenon DEF StoreInv, StoreStage, Flushing, Verifying
<1>5. StoreKept
  BY <1>1, Zenon DEF StoreKept, files
<1> QED BY <1>1, <1>2, <1>3, <1>4, <1>5, StoreKeptStep, Zenon

LEMMA StutterStore ==
  ASSUME StoreInv, UNCHANGED vars
  PROVE  StoreInv'
<1>1. UNCHANGED <<pc, after, index, dirty, tip, best, target, cur, indexDb, data, undo, coinsLog,
                  serDb, txDb, env>>
  BY Zenon DEF vars, memory, files, zdb, txidx, world
<1>2. coinsDb' = coinsDb
  BY <1>1, Zenon DEF coinsDb
<1>3. TypeOK' /\ StoreStage'
  BY <1>1, <1>2, Zenon DEF StoreInv, TypeOK, StoreStage
<1> QED BY <1>1, <1>2, <1>3, Zenon DEF StoreInv

LEMMA NextStoreInv ==
  ASSUME Tree, KilledOnly, StoreInv, [Next]_vars
  PROVE  StoreInv'
<1>1. CASE UNCHANGED vars
  BY <1>1, StutterStore
<1>2. ASSUME NEW b \in Blocks \ {Genesis}, AcceptBlock(b) \/ ConnectTip(b)
      PROVE  StoreInv'
  BY <1>2, AcceptBlockStore, ConnectTipStore, Zenon
<1>3. CASE DisconnectTip \/ ConnectTipFinish \/ UpdateTip
  BY <1>3, DisconnectTipStore, ConnectTipFinishStore, UpdateTipStore, Zenon
<1>4. CASE \/ ActivateBestChain \/ PeriodicFlush \/ Shutdown \/ FlushFails \/ VerifyChain
           \/ VerifyTurn \/ VerifyShutdown \/ VerifyDone
  BY <1>4, QuietStore, Zenon
<1>5. CASE FlushBlockFile \/ WriteBatchSync \/ WriteCoins
  BY <1>5, FlushBlockFileStore, WriteBatchSyncStore, WriteCoinsStore, Zenon
<1>6. CASE LoadBlockIndex \/ Crash \/ PowerLoss
  BY <1>6, LoadBlockIndexStore, CrashStore, NoPowerLoss, Zenon DEF StoreInv
<1>7. CASE VerifyDisconnect \/ VerifyReconnect \/ VerifyReconnectFinish
  BY <1>7, VerifyDisconnectStore, VerifyReconnectStore, VerifyReconnectFinishStore, Zenon
<1> QED BY <1>1, <1>2, <1>3, <1>4, <1>5, <1>6, <1>7, Zenon DEF Next
-----------------------------------------------------------------------------
(* The steps that write nothing to disk.                                   *)

Kept == UNCHANGED <<index, dirty, tip, best, indexDb, files, coinsLog, serDb, txDb, env>>

LEMMA OnlyControl ==
  ASSUME DiskInv, pc # "off", cur' \in Blocks, target' \in Blocks, Stage', Kept
  PROVE  DiskInv'
<1>1. StoreInv'
  <2>1. StoreKept /\ UNCHANGED <<serDb, txDb>>
    BY Zenon DEF Kept, StoreKept
  <2>2. StoreStage'
    BY Zenon DEF Stage, StoreStage
  <2> QED BY <2>1, <2>2, DiskStore, ControlStore, Zenon
<1>2. coinsDb' = coinsDb /\ Back' = Back
  BY Zenon DEF coinsDb, Back, Kept
<1>3. /\ Coins(coinsDb, indexDb, serDb, txDb, Back)' /\ Once(tip)'
      /\ Active(coinsDb, index, tip, best, txDb)'
  BY <1>2, Zenon DEF DiskInv, Kept
<1> QED BY <1>1, <1>3, Zenon DEF DiskInv, StoreInv

LEMMA ActivateBestChainStep ==
  ASSUME DiskInv, ActivateBestChain
  PROVE  DiskInv'
<1>1. cur' = cur /\ cur \in Blocks /\ target' \in Blocks
  BY ZenonT(60) DEF ActivateBestChain, Better, Candidates, DiskInv, TypeOK
<1>2. Stage'
  BY DEF ActivateBestChain, DiskInv, Stage, Flushing, Verifying, zdb
<1>3. pc # "off" /\ Kept
  BY DEF Kept, ActivateBestChain, zdb, txidx, world
<1> QED BY <1>1, <1>2, <1>3, OnlyControl

LEMMA FlushStep ==
  ASSUME DiskInv, NEW cont \in {"idle", "off"}, Flush(cont)
  PROVE  DiskInv'
<1>1. /\ cur' = cur /\ cur \in Blocks /\ target' = target /\ target \in Blocks
      /\ best \in Blocks
  BY Zenon DEF Flush, DiskInv, TypeOK
<1>2. Full(serDb, best) /\ Partial(serDb, Back, best)
  BY <1>1, FullPartial, Zenon DEF Flush, DiskInv, Stage
<1>4. pc # "off" /\ Kept
  BY DEF Kept, Flush, zdb, txidx, world
<1>5. Back' = Back
  BY <1>4, Zenon DEF Kept, Back
<1>3. Stage'
  <2>1. pc' = "sync" /\ after' = cont /\ UNCHANGED <<best, serDb>>
    BY <1>4, Zenon DEF Flush, Kept
  <2> QED BY <1>2, <1>5, <2>1, Zenon DEF Stage, Flushing, Verifying
<1> QED BY <1>1, <1>3, <1>4, OnlyControl, Zenon

LEMMA FlushFailsStep ==
  ASSUME DiskInv, KilledOnly, FlushFails
  PROVE  DiskInv'
<1>1. pc = "sync" /\ UNCHANGED dirty
  BY ZenonT(60) DEF FlushFails, Fault, DiskInv, TypeOK, KilledOnly
<1>2. cur' = cur /\ cur \in Blocks /\ target' \in Blocks
  BY Zenon DEF FlushFails, DiskInv, TypeOK
<1>3. Stage'
  BY <1>1, ZenonT(60) DEF FlushFails, DiskInv, Stage, Flushing, Verifying, zdb
<1>4. pc # "off" /\ Kept
  BY <1>1 DEF Kept, FlushFails, zdb, txidx
<1> QED BY <1>1, <1>2, <1>3, <1>4, OnlyControl, Zenon

LEMMA VerifyChainStep ==
  ASSUME Tree, DiskInv, VerifyChain
  PROVE  DiskInv'
<1>1. cur' = tip /\ tip \in Blocks /\ tip \in Anc[tip] /\ target' = target /\ target \in Blocks
  BY Zenon DEF VerifyChain, DiskInv, TypeOK, Tree
<1>2. Full(serDb, tip) /\ Partial(serDb, Back, tip)
  BY <1>1, FullPartial, ZenonT(60) DEF VerifyChain, DiskInv, Stage
<1>4. pc # "off" /\ Kept
  BY DEF Kept, VerifyChain, zdb, txidx, world
<1>5. Back' = Back /\ Matching' /\ Taken(serDb, tip, tip)
  BY <1>1, <1>4, Zenon DEF Back, Kept, Matching, Taken
<1>6. pc' = "disconnect" /\ after' = "idle" /\ best = tip /\ UNCHANGED <<tip, best, serDb>>
  BY <1>4, Zenon DEF VerifyChain, Kept
<1>3. Stage'
  BY <1>1, <1>2, <1>5, <1>6, Zenon DEF Stage, Flushing, Verifying
<1> QED BY <1>1, <1>3, <1>4, OnlyControl, Zenon

(* Where it stops disconnecting all serials below are recorded, and the    *)
(* rest of the window is found.                                            *)
LEMMA VerifyTurnStep ==
  ASSUME Tree, DiskInv, VerifyTurn
  PROVE  DiskInv'
<1>1. /\ cur \in Anc[tip] /\ tip \in Blocks /\ cur \in Blocks /\ target \in Blocks
      /\ pc = "disconnect" /\ after \in {"broken", "idle"} /\ Partial(serDb, Back, tip)
      /\ Matching /\ (after = "idle" => Full(serDb, cur)) /\ TypeOK
  BY ZenonT(60) DEF VerifyTurn, DiskInv, Stage, Verifying, TypeOK
<1>2. Full(serDb, cur)
  <2>1. SUFFICES ASSUME after = "broken", NEW b \in Anc[cur]
                 PROVE  Recorded(serDb, b)
    BY <1>1, Zenon DEF Full
  <2>2. CASE cur = Genesis
    BY <2>1, <2>2, Zenon DEF Recorded
  <2>3. CASE cur # Genesis
    <3>1. b \in Anc[tip] /\ Height(b) <= Height(cur)
      BY <1>1, <2>1, Zenon DEF Tree
    <3>2. Height(b) \in Nat /\ Height(cur) \in Nat /\ Height(tip) \in Nat
      BY <1>1, <3>1, ZenonT(60) DEF Tree
    <3>3. ~(Height(cur) + CheckDepth >= Height(tip)) \/ ~(Height(cur) + env.room >= Height(tip))
      BY <2>1, <2>3, Zenon DEF VerifyTurn, InWindow, Roomy, Depth
    <3>4. env.room \in Nat /\ CheckDepth \in Nat
      BY <1>1, ChainDiskAssumption DEF TypeOK
    <3>5. ~(Height(b) + Back >= Height(tip))
      BY <3>1, <3>2, <3>3, <3>4 DEF Back
    <3> QED BY <1>1, <3>1, <3>5, Zenon DEF Partial
  <2> QED BY <2>2, <2>3, Zenon
<1>3. ASSUME NEW b \in Anc[cur], InWindow(b)
      PROVE  Readable(b)
  <2>1. b \in Blocks \ {Genesis} /\ b \in Anc[tip]
    BY <1>1, <1>3, Zenon DEF Tree, InWindow
  <2>2. index[b] = "undo"
    BY <1>1, <2>1, Zenon DEF DiskInv, Active, Linked
  <2> QED BY <2>1, <2>2, Zenon DEF DiskInv, IndexOK, Readable
<1>4. pc' = "reconnect"
  BY <1>1, <1>3, Zenon DEF VerifyTurn, Matching, Chain
<1>5. pc # "off" /\ Kept /\ UNCHANGED <<cur, target, after>>
  BY <1>1, Zenon DEF Kept, VerifyTurn, memory, zdb, txidx, world
<1>6. best = tip /\ Taken(serDb, cur, tip)
  BY <1>1, Zenon DEF DiskInv, Stage, Verifying
<1>7. Stage'
  BY <1>1, <1>2, <1>4, <1>5, <1>6, Zenon DEF Kept, Stage, Flushing, Verifying
<1> QED BY <1>1, <1>5, <1>7, OnlyControl, Zenon

LEMMA VerifyShutdownStep ==
  ASSUME DiskInv, VerifyShutdown
  PROVE  DiskInv'
<1>1. /\ cur \in Blocks /\ target \in Blocks /\ best = tip /\ tip \in Blocks
      /\ Partial(serDb, Back, best)
  BY ZenonT(60) DEF VerifyShutdown, DiskInv, Stage, Verifying, TypeOK
<1>2. pc # "off" /\ Kept /\ UNCHANGED <<cur, target>>
  BY DEF Kept, VerifyShutdown, zdb, txidx, world
<1>3. Back' = Back
  BY <1>2, Zenon DEF Kept, Back
<1>4. Stage'
  BY <1>1, <1>2, <1>3, Zenon DEF Kept, VerifyShutdown, Stage, Flushing, Verifying
<1> QED BY <1>1, <1>2, <1>4, OnlyControl, Zenon

LEMMA VerifyDoneStep ==
  ASSUME DiskInv, VerifyDone
  PROVE  DiskInv'
<1>1. cur \in Blocks /\ target \in Blocks
  BY Zenon DEF DiskInv, TypeOK
<1>2. Stage'
  BY Zenon DEF VerifyDone, DiskInv, Stage, Flushing, Verifying, memory, zdb
<1>3. pc # "off" /\ Kept /\ UNCHANGED <<cur, target>>
  BY Zenon DEF Kept, VerifyDone, memory, zdb, txidx, world
<1> QED BY <1>1, <1>2, <1>3, OnlyControl, Zenon

LEMMA UpdateTipStep ==
  ASSUME DiskInv, UpdateTip
  PROVE  DiskInv'
<1>1. StoreInv'
  BY DiskStore, UpdateTipStore, Zenon
<1>2. coinsDb' = coinsDb /\ Back' = Back
  BY Zenon DEF UpdateTip, coinsDb, Back, world
<1>3. Coins(coinsDb, indexDb, serDb, txDb, Back)'
  BY <1>2, Zenon DEF DiskInv, UpdateTip, zdb, txidx
<1>4. Once(tip)' /\ Active(coinsDb, index, tip, best, txDb)'
  BY <1>2, Zenon DEF DiskInv, UpdateTip, Stage, Active, txidx
<1>5. Stage'
  BY Zenon DEF UpdateTip, DiskInv, Stage, Flushing, Verifying, zdb
<1> QED BY <1>1, <1>3, <1>4, <1>5, ZenonT(60) DEF DiskInv, StoreInv
-----------------------------------------------------------------------------
(* A block arrives, a flush.                                               *)

LEMMA AcceptBlockStep ==
  ASSUME DiskInv, NEW b \in Blocks \ {Genesis}, AcceptBlock(b)
  PROVE  DiskInv'
<1>1. /\ pc = "idle" /\ UNCHANGED <<pc, tip, best, indexDb, coinsLog, serDb, txDb, env>>
  BY Zenon DEF AcceptBlock, zdb, txidx, world
<1>2. StoreInv'
  BY DiskStore, AcceptBlockStore, Zenon
<1>3. coinsDb' = coinsDb /\ Back' = Back
  BY <1>1, Zenon DEF coinsDb, Back
<1>4. Coins(coinsDb, indexDb, serDb, txDb, Back)' /\ Once(tip)'
  BY <1>1, <1>3, Zenon DEF DiskInv
<1>5. Active(coinsDb, index, tip, best, txDb)'
  BY <1>1, <1>2, Zenon DEF DiskInv, Active, StoreInv, InMemory
<1>6. Stage'
  BY <1>1, Zenon DEF DiskInv, Stage, Flushing, Verifying
<1> QED BY <1>2, <1>4, <1>5, <1>6, Zenon DEF DiskInv, StoreInv

(* First the files ...                                                     *)
LEMMA FlushBlockFileStep ==
  ASSUME DiskInv, FlushBlockFile
  PROVE  DiskInv'
<1>1. StoreInv'
  BY DiskStore, FlushBlockFileStore, Zenon
<1>2. /\ pc = "sync" /\ pc' = "index"
      /\ UNCHANGED <<after, index, dirty, tip, best, target, cur, indexDb, coinsLog, serDb, txDb, env>>
  BY Zenon DEF FlushBlockFile, memory, zdb, txidx, world
<1>5. coinsDb' = coinsDb /\ Back' = Back
  BY <1>2, Zenon DEF coinsDb, Back
<1>6. Coins(coinsDb, indexDb, serDb, txDb, Back)' /\ Once(tip)'
      /\ Active(coinsDb, index, tip, best, txDb)'
  BY <1>2, <1>5, Zenon DEF DiskInv
<1>7. Stage'
  BY <1>2, <1>5, Zenon DEF DiskInv, Stage, Flushing, Verifying
<1> QED BY <1>1, <1>6, <1>7, Zenon DEF DiskInv, StoreInv

(* ... then the index: the coins on disk belong to a block of the chain in *)
(* memory, whose index entries all have undo data ...                      *)
LEMMA WriteBatchSyncStep ==
  ASSUME DiskInv, Tree, WriteBatchSync
  PROVE  DiskInv'
<1>1. /\ pc = "index" /\ pc' = "coins" /\ dirty' = {}
      /\ UNCHANGED <<after, index, tip, best, coinsLog, serDb, txDb, env>>
  BY Zenon DEF WriteBatchSync, zdb, world
<1>2. StoreInv'
  BY DiskStore, WriteBatchSyncStore, Zenon
<1>3. coinsDb' = coinsDb /\ Back' = Back
  BY <1>1, Zenon DEF coinsDb, Back
<1>4. Active(coinsDb, index, tip, best, txDb)' /\ Once(tip)'
  BY <1>1, <1>3, Zenon DEF DiskInv
<1>5. Coins(coinsDb, indexDb, serDb, txDb, Back)'
  BY <1>1, <1>2, <1>3, Zenon DEF DiskInv, Coins, StoreInv
<1>6. Stage'
  BY <1>1, <1>3, Zenon DEF DiskInv, Stage, Flushing, Verifying
<1> QED BY <1>2, <1>4, <1>5, <1>6, Zenon DEF DiskInv, StoreInv

(* ... and the coins.                                                      *)
LEMMA WriteCoinsStep ==
  ASSUME DiskInv, Tree, KilledOnly, WriteCoins
  PROVE  DiskInv'
<1>1. /\ pc = "coins" /\ pc' = after /\ after \in {"idle", "tip", "off"}
      /\ UNCHANGED <<after, tip, best, serDb, txDb, env>>
  BY Zenon DEF WriteCoins, DiskInv, Stage, Flushing, memory, zdb, txidx, world
<1>2. StoreInv' /\ coinsDb' = best
  BY DiskStore, WriteCoinsStore, Zenon
<1>3. Back' = Back /\ best \in Blocks /\ best \in Anc[best]
  BY <1>1, Zenon DEF Back, DiskInv, TypeOK, Tree
<1>4. Partial(serDb, Back, best) /\ (after # "off" => Full(serDb, best))
  BY <1>1, <1>3, FullPartial, Zenon DEF DiskInv, Stage, Flushing
<1>5. Once(tip) /\ Located(txDb, tip) /\ Located(txDb, best) /\ Once(best)
  BY <1>1, Zenon DEF DiskInv, Active
<1>6. Coins(coinsDb, indexDb, serDb, txDb, Back)'
  BY <1>1, <1>2, <1>3, <1>4, <1>5, Zenon DEF Coins, StoreInv
<1>7. pc' # "off" => Active(coinsDb, index, tip, best, txDb)'
  BY <1>1, <1>2, <1>5, Zenon DEF Active, StoreInv, InMemory
<1>8. Stage'
  BY <1>1, <1>2, <1>3, <1>4, Zenon DEF Stage, Flushing, Verifying
<1> QED BY <1>1, <1>2, <1>5, <1>6, <1>7, <1>8, Zenon DEF DiskInv, StoreInv

-----------------------------------------------------------------------------
(* The process is killed and the node starts again.                        *)

LEMMA CrashStep ==
  ASSUME DiskInv, Crash
  PROVE  DiskInv'
<1>1. /\ pc' = "off" /\ tip' = Genesis
      /\ UNCHANGED <<indexDb, coinsLog, serDb, txDb, env>>
  BY Zenon DEF Crash, LoseMemory, zdb, txidx
<1>2. StoreInv'
  BY DiskStore, CrashStore, Zenon
<1>3. coinsDb' = coinsDb /\ Back' = Back
  BY <1>1, Zenon DEF coinsDb, Back
<1>4. Coins(coinsDb, indexDb, serDb, txDb, Back)' /\ Once(Genesis)
  BY <1>1, <1>3, Zenon DEF DiskInv, Once
<1>5. Stage'
  BY <1>1, Zenon DEF Stage, Flushing, Verifying
<1> QED BY <1>1, <1>2, <1>4, <1>5, Zenon DEF DiskInv, StoreInv

(* The coins on disk become the chain; VerifyDB will look at the blocks    *)
(* whose serials may be missing.                                           *)
LEMMA LoadBlockIndexStep ==
  ASSUME DiskInv, Tree, LoadBlockIndex
  PROVE  DiskInv'
<1>1. /\ after' = "broken" /\ tip' = coinsDb /\ best' = coinsDb /\ cur' = coinsDb
      /\ UNCHANGED <<indexDb, coinsLog, serDb, txDb, env>>
  BY Zenon DEF LoadBlockIndex, zdb, txidx, world
<1>2. StoreInv' /\ pc' = "disconnect"
  BY DiskStore, LoadBlockIndexStore, Zenon
<1>3. TypeOK /\ Coins(coinsDb, indexDb, serDb, txDb, Back)
  BY Zenon DEF DiskInv
<1>4. /\ coinsDb \in Blocks /\ coinsDb \in Anc[coinsDb] /\ coinsDb' = coinsDb
      /\ Back' = Back
  BY <1>1, <1>3, CoinsDbType, Zenon DEF Tree, coinsDb, Back
<1>5. Coins(coinsDb, indexDb, serDb, txDb, Back)' /\ Once(tip)'
  BY <1>1, <1>3, <1>4, Zenon DEF Coins
<1>6. Active(coinsDb, index, tip, best, txDb)'
  BY <1>1, <1>2, <1>3, Zenon DEF Coins, Active, StoreInv, InMemory
<1>7. Matching'
  BY <1>1, Zenon DEF Matching
<1>8. Stage'
  BY <1>1, <1>2, <1>3, <1>4, <1>7, Zenon DEF Stage, Flushing, Verifying, Coins, Taken
<1> QED BY <1>2, <1>5, <1>6, <1>8, Zenon DEF DiskInv, StoreInv

-----------------------------------------------------------------------------
(* Reorganisation.                                                         *)

(* DisconnectTip: the coins on disk may still be those of the tip whose    *)
(* serials are gone; the next start looks at that block.                   *)
LEMMA DisconnectTipStep ==
  ASSUME DiskInv, Tree, DisconnectTip, ~unclean'
  PROVE  DiskInv'
<1> DEFINE p == Parent[tip]
           d == ErasedOf(serDb, tip)
<1>1. /\ pc = "idle" /\ best = tip /\ tip \notin Anc[target] /\ best' = p /\ pc' = "sync"
      /\ after' = "tip" /\ serDb' = d
      /\ UNCHANGED <<index, dirty, tip, target, cur, indexDb, data, undo, coinsLog, txDb, env>>
  BY Zenon DEF DisconnectTip, EraseSpends, ErasedOf, files, txidx, world
<1>2. /\ TypeOK /\ IndexOK(index, indexDb, dirty, data, undo) /\ Sound(serDb, txDb)
      /\ Coins(coinsDb, indexDb, serDb, txDb, Back) /\ Once(tip)
      /\ Active(coinsDb, index, tip, best, txDb) /\ Full(serDb, tip)
  BY <1>1, Zenon DEF DiskInv, Stage
<1>3. tip \in Blocks \ {Genesis} /\ p \in Blocks /\ p \in Anc[tip] /\ tip \in Anc[tip]
  <2>1. tip \in Blocks /\ target \in Blocks
    BY <1>2, Zenon DEF TypeOK
  <2>2. tip # Genesis
    BY <1>1, <2>1, Zenon DEF Tree
  <2> QED BY <2>1, <2>2 DEF Tree
<1>4. coinsDb \in Blocks /\ coinsDb' = coinsDb /\ Back' = Back /\ coinsDb \in Anc[tip]
  BY <1>1, <1>2, CoinsDbType, Zenon DEF coinsDb, Back, Active
<1>6. Erased(d, tip) /\ \A b \in Anc[tip] \ {tip} : Recorded(d, b)
  BY <1>2, <1>3, ErasedOfOK, Zenon DEF Full
<1>7. Full(d, p)
  BY <1>3, <1>6, Zenon DEF Full
<1>8. Partial(d, Back, coinsDb)
  <2>1. CASE coinsDb = tip
    <3>1. Height(tip) + Back >= Height(tip)
      BY <1>2, <1>3, BackNat DEF Tree
    <3> QED BY <1>6, <2>1, <3>1, Zenon DEF Partial, Erased, Recorded, Perhaps
  <2>2. CASE coinsDb \in Anc[p]
    BY <1>3, <1>4, <1>7, <2>2, Shorter, FullPartial, ZenonT(60)
  <2> QED BY <1>3, <1>4, <2>1, <2>2
<1> HIDE DEF p, d
<1>9. StoreInv'
  BY DiskStore, DisconnectTipStore, Zenon
<1>10. Active(coinsDb, index, tip, best, txDb)'
  <2>1. Linked(index, p) /\ Located(txDb, p) /\ Once(p)
    BY <1>1, <1>2, <1>3, Shorter, Zenon DEF Active
  <2> QED BY <1>1, <1>2, <1>4, <2>1, Zenon DEF Active
<1>11. Coins(coinsDb, indexDb, serDb, txDb, Back)'
  BY <1>1, <1>2, <1>4, <1>8, Zenon DEF Coins
<1>12. Stage'
  BY <1>1, <1>7, Zenon DEF Stage, Flushing, Verifying
<1> QED BY <1>1, <1>2, <1>9, <1>10, <1>11, <1>12, Zenon DEF DiskInv, StoreInv

(* ConnectBlock accepts the block: it is one more block that spends no     *)
(* serial twice, and its spends are recorded.                              *)
LEMMA ConnectTipAccepted ==
  ASSUME DiskInv, Tree, NEW b \in Blocks \ {Genesis}, ConnectTip(b), SpendsAllowed(b, FALSE)
  PROVE  DiskInv'
<1> DEFINE d == WrittenOf(serDb, b)
<1>1. /\ pc = "idle" /\ best = tip /\ tip \in Anc[target] \ {target} /\ b = Toward(tip, target)
      /\ data[b] # "none" /\ WriteUndoAndSpends(b) /\ pc' = "connect" /\ cur' = b
      /\ UNCHANGED <<target, tip, best, indexDb, data, coinsLog, txDb, env>>
  <2>1. tip \in Anc[target] \ {target} 
    BY Zenon DEF ConnectTip
  <2> QED BY <2>1, Zenon DEF ConnectTip, txidx, world
<1>2. /\ TypeOK /\ IndexOK(index, indexDb, dirty, data, undo) /\ Sound(serDb, txDb)
      /\ Coins(coinsDb, indexDb, serDb, txDb, Back) /\ Once(tip)
      /\ Active(coinsDb, index, tip, best, txDb) /\ Full(serDb, tip)
  BY <1>1, Zenon DEF DiskInv, Stage
<1>3. Parent[b] = tip /\ tip \in Blocks /\ tip \in Anc[b] /\ b \in Anc[b]
  <2>1. tip \in Blocks /\ target \in Blocks
    BY <1>2, Zenon DEF TypeOK
  <2>2. Parent[b] = tip
    BY <1>1, <2>1, TowardOK, Zenon
  <2>3. tip \in Anc[tip] /\ b \in Anc[b]
    BY <2>1, Zenon DEF Tree
  <2>4. Anc[b] = Anc[tip] \cup {b}
    BY <2>1, <2>2, Longer, Zenon
  <2> QED BY <2>1, <2>2, <2>3, <2>4, Zenon
<1>4. Once(b) /\ Anc[b] = Anc[tip] \cup {b} /\ b \notin Anc[tip]
  BY <1>2, <1>3, AllowedOnce, Longer, Zenon DEF Active
<1>5. serDb' = d
  BY <1>1 DEF WriteUndoAndSpends, WrittenOf
<1>6. StoreInv'
  BY DiskStore, ConnectTipStore, Zenon
<1>7. index'[b] = "undo"
  BY <1>1, <1>6, Zenon DEF StoreInv, StoreStage
<1>8. Full(d, b)
  BY <1>2, <1>3, <1>4, WrittenOfOK, Zenon DEF Full
<1> HIDE DEF d
<1>10. coinsDb' = coinsDb /\ Back' = Back /\ coinsDb \in Anc[tip] /\ coinsDb \in Blocks
  BY <1>1, <1>2, CoinsDbType, Zenon DEF coinsDb, Back, Active
<1>11. Full(d, tip) /\ Partial(d, Back, coinsDb)
  BY <1>3, <1>8, <1>10, Shorter, FullPartial, Zenon
<1>12. Active(coinsDb, index, tip, best, txDb)'
  BY <1>1, <1>2, <1>6, Zenon DEF Active, StoreInv, InMemory
<1>13. Coins(coinsDb, indexDb, serDb, txDb, Back)' /\ Once(tip)'
  BY <1>1, <1>2, <1>5, <1>10, <1>11, Zenon DEF Coins
<1>14. Stage'
  BY <1>1, <1>3, <1>4, <1>5, <1>7, <1>8, Zenon DEF Stage, Flushing, Verifying
<1> QED BY <1>6, <1>12, <1>13, <1>14, Zenon DEF DiskInv, StoreInv

(* ConnectBlock refuses it: it is no block of a chain the coins belong to. *)
LEMMA ConnectTipRefused ==
  ASSUME DiskInv, Tree, NEW b \in Blocks \ {Genesis}, ConnectTip(b), ~SpendsAllowed(b, FALSE)
  PROVE  DiskInv'
<1>1. /\ pc = "idle"
      /\ UNCHANGED <<pc, after, cur, tip, best, indexDb, coinsLog, serDb, txDb, env>>
  BY Zenon DEF ConnectTip, zdb, txidx, world
<1>2. StoreInv'
  BY DiskStore, ConnectTipStore, Zenon
<1>3. coinsDb' = coinsDb /\ Back' = Back
  BY <1>1, Zenon DEF coinsDb, Back
<1>4. Active(coinsDb, index, tip, best, txDb)'
  BY <1>1, <1>2, Zenon DEF DiskInv, Active, StoreInv, InMemory
<1>5. Coins(coinsDb, indexDb, serDb, txDb, Back)' /\ Once(tip)'
  BY <1>1, <1>3, Zenon DEF DiskInv
<1>6. Stage'
  BY <1>1, Zenon DEF DiskInv, Stage, Flushing, Verifying
<1> QED BY <1>2, <1>4, <1>5, <1>6, Zenon DEF DiskInv, StoreInv

(* WriteTxIndex for the last block of a chain that spends no serial twice. *)
LEMMA WriteTxIndexOK ==
  ASSUME TypeOK, Sound(serDb, txDb), NEW b \in Blocks, NEW x \in Blocks, b \in Anc[x], Once(x),
         WriteTxIndex(b), UNCHANGED serDb
  PROVE  /\ \A c \in Anc[x] : \A t \in Spends[c] : txDb[t] = c => txDb'[t] = c
         /\ \A t \in Spends[b] : txDb'[t] = b
<1>1. \A t \in Txs : txDb'[t] = IF t \in Spends[b] THEN b ELSE txDb[t]
  BY WriteTxIndexSound, Zenon
<1>2. \A c \in Anc[x] : \A t \in Spends[c] : t \in Spends[b] => c = b
  BY DEF Once
<1>3. \A c \in Anc[x] : Spends[c] \subseteq Txs
  BY Zenon
<1> QED BY <1>1, <1>2, <1>3, Zenon

LEMMA ConnectTipFinishStep ==
  ASSUME DiskInv, Tree, ConnectTipFinish
  PROVE  DiskInv'
<1>1. /\ pc = "connect" /\ WriteTxIndex(cur) /\ best' = cur /\ pc' \in {"sync", "tip"}
      /\ after' = "tip"
      /\ UNCHANGED <<index, dirty, tip, target, cur, indexDb, data, undo, coinsLog, serDb, env>>
  BY Zenon DEF ConnectTipFinish, files, zdb, world
<1>2. /\ TypeOK /\ IndexOK(index, indexDb, dirty, data, undo) /\ Sound(serDb, txDb)
      /\ Coins(coinsDb, indexDb, serDb, txDb, Back) /\ Once(tip)
      /\ Active(coinsDb, index, tip, best, txDb)
  BY <1>1, Zenon DEF DiskInv
<1>3. /\ best = tip /\ cur \in Blocks \ {Genesis} /\ Parent[cur] = tip /\ tip \in Blocks
      /\ index[cur] = "undo" /\ Full(serDb, cur) /\ Once(cur)
  BY <1>1, <1>2, Zenon DEF DiskInv, Stage, TypeOK
<1>4. cur \in Anc[cur] /\ Anc[cur] = Anc[tip] \cup {cur}
  BY <1>3, Longer, Zenon DEF Tree
<1>5. /\ \A c \in Anc[cur] : \A t \in Spends[c] : txDb[t] = c => txDb'[t] = c
      /\ \A t \in Spends[cur] : txDb'[t] = cur
  BY <1>1, <1>2, <1>3, <1>4, WriteTxIndexOK, Zenon
<1>6. Located(txDb', tip)
  BY <1>2, <1>4, <1>5, Zenon DEF Active, Located
<1>7. Located(txDb', cur) /\ Linked(index, cur)
  BY <1>2, <1>3, <1>5, <1>6, Longer, ZenonT(60) DEF Active
<1>8. coinsDb' = coinsDb /\ Back' = Back /\ coinsDb \in Anc[tip]
  BY <1>1, <1>2, <1>3, Zenon DEF coinsDb, Back, Active
<1>9. StoreInv'
  BY DiskStore, ConnectTipFinishStore, Zenon
<1>10. Active(coinsDb, index, tip, best, txDb)'
  BY <1>1, <1>2, <1>3, <1>6, <1>7, <1>8, Zenon DEF Active
<1>11. Coins(coinsDb, indexDb, serDb, txDb, Back)'
  BY <1>1, <1>2, <1>3, <1>6, <1>8, Shorter, Zenon DEF Coins
<1>12. Stage'
  BY <1>1, <1>3, <1>4, <1>8, Zenon DEF Stage, Flushing, Verifying
<1> QED BY <1>1, <1>2, <1>9, <1>10, <1>11, <1>12, Zenon DEF DiskInv, StoreInv
-----------------------------------------------------------------------------
(* VerifyDB.                                                               *)

(* Going down, it finds every block and erases the serials of blocks that  *)
(* the next start would look at as well.                                   *)
LEMMA VerifyDisconnectStep ==
  ASSUME DiskInv, Tree, KilledOnly, VerifyDisconnect, ~unclean'
  PROVE  DiskInv'
<1> DEFINE d == ErasedOf(serDb, cur)
<1>1. /\ pc = "disconnect" /\ cur # Genesis
      /\ Height(cur) + Depth >= Height(tip) /\ Height(cur) + env.room >= Height(tip)
      /\ UNCHANGED <<after, index, dirty, tip, best, bare, target, indexDb, data, undo, coinsLog, txDb, env>>
  BY Zenon DEF VerifyDisconnect, InWindow, Roomy, files, txidx
<1>2. /\ TypeOK /\ IndexOK(index, indexDb, dirty, data, undo) /\ Sound(serDb, txDb)
      /\ Coins(coinsDb, indexDb, serDb, txDb, Back) /\ Once(tip)
      /\ Active(coinsDb, index, tip, best, txDb)
  BY <1>1, Zenon DEF DiskInv
<1>3. /\ best = tip /\ cur \in Anc[tip] /\ after \in {"broken", "idle"}
      /\ Taken(serDb, cur, tip) /\ Partial(serDb, Back, tip) /\ Matching
      /\ after = "idle" => Full(serDb, cur)
  BY <1>1, Zenon DEF DiskInv, Stage, Verifying
<1>4. tip \in Blocks /\ cur \in Blocks \ {Genesis} /\ Parent[cur] \in Anc[cur]
  <2>1. tip \in Blocks /\ cur \in Blocks \ {Genesis}
    BY <1>1, <1>2, Zenon DEF TypeOK
  <2>2. Parent[cur] \in Blocks /\ Parent[cur] \in Anc[Parent[cur]]
    BY <2>1, Zenon DEF Tree
  <2> QED BY <2>1, <2>2
<1>5. index[cur] = "undo"
  BY <1>2, <1>3, <1>4, Zenon DEF Active, Linked
<1>6. data[cur] # "none" /\ undo[cur] # "none"
  BY <1>2, <1>4, <1>5, Zenon DEF IndexOK
<1>7. serDb' = d /\ cur' = Parent[cur] /\ pc' = pc /\ ~Mismatch(cur)
  <2>1. Readable(cur)
    BY <1>6, Zenon DEF Readable
  <2> QED BY <1>5, <2>1, Zenon DEF VerifyDisconnect, EraseSpends, ErasedOf
<1>8. StoreInv'
  BY DiskStore, VerifyDisconnectStore, Zenon
<1>9. /\ Erased(d, cur)
      /\ \A b \in Anc[tip] \ {cur} : /\ Recorded(serDb, b) => Recorded(d, b)
                                     /\ Perhaps(serDb, b) => Perhaps(d, b)
      /\ \A b \in Anc[tip] : Erased(serDb, b) => Erased(d, b)
  BY <1>2, <1>3, <1>4, ErasedOfOK, Zenon
<1> HIDE DEF d
<1>10. Perhaps(d, cur)
  BY <1>9, Zenon DEF Erased, Perhaps
<1>20. Height(cur) + Back >= Height(tip)
  <2>1. Height(tip) \in Nat /\ Height(cur) \in Nat
    BY <1>4, Zenon DEF Tree
  <2>2. Depth \in Nat /\ CheckDepth \in Nat /\ Depth <= CheckDepth /\ env.room \in Nat
    <3>1. env \in Envs
      BY <1>2, Zenon DEF TypeOK
    <3> QED BY <3>1, ChainDiskAssumption DEF Depth, KilledOnly
  <2> QED BY <1>1, <2>1, <2>2 DEF Back
<1>11. Partial(d, Back, tip)
  BY <1>3, <1>9, <1>10, <1>20, ZenonT(60) DEF Partial
<1>12. Taken(d, Parent[cur], tip)
  BY <1>3, <1>4, <1>9 DEF Taken
<1>13. coinsDb' = coinsDb /\ Back' = Back /\ coinsDb \in Blocks /\ coinsDb \in Anc[tip]
  BY <1>1, <1>2, <1>3, CoinsDbType DEF coinsDb, Back, Active
<1>14. Partial(d, Back, coinsDb)
  <2>1. Height(cur) + Back >= Height(coinsDb)
    <3>1. Height(coinsDb) <= Height(tip)
      BY <1>4, <1>13, Zenon DEF Tree
    <3>2. Height(coinsDb) \in Nat /\ Height(tip) \in Nat /\ Height(cur) \in Nat
      BY <1>4, <1>13, ZenonT(60) DEF Tree
    <3>3. Back \in Nat
      BY <1>2, BackNat, Zenon
    <3> QED BY <1>20, <3>1, <3>2, <3>3
  <2>2. Anc[coinsDb] \subseteq Anc[tip] /\ Partial(serDb, Back, coinsDb)
    BY <1>2, <1>4, <1>13, Zenon DEF Coins, Tree
  <2> QED BY <1>9, <1>10, <2>1, <2>2, Zenon DEF Partial
<1>16. Active(coinsDb, index, tip, best, txDb)'
  BY <1>1, <1>2, <1>13, Zenon
<1>17. Coins(coinsDb, indexDb, serDb, txDb, Back)'
  BY <1>1, <1>2, <1>7, <1>13, <1>14, Zenon DEF Coins
<1>18. Stage'
  <2>1. Parent[cur] \in Anc[tip]
    BY <1>3, <1>4, Zenon DEF Tree
  <2>2. after = "idle" => Full(d, Parent[cur])
    <3>1. \A b \in Anc[Parent[cur]] : b \in Anc[cur] /\ b \in Anc[tip] \ {cur}
      BY <1>3, <1>4, Zenon DEF Tree
    <3> QED BY <1>3, <1>9, <3>1, Zenon DEF Full
  <2>3. Matching'
    <3>1. \A b \in Anc[tip] \ Anc[Parent[cur]] : ~Mismatch(b)
      <4>1. \A b : b \in Anc[tip] \ Anc[Parent[cur]] => b \in Anc[tip] \ Anc[cur] \/ b = cur
        BY <1>4
      <4> QED BY <1>3, <1>7, <4>1, Zenon DEF Matching
    <3>2. \A b : Mismatch(b)' <=> Mismatch(b)
      BY <1>1, Zenon DEF Mismatch, Chain, LastSpent
    <3> QED BY <1>1, <1>7, <3>1, <3>2, Zenon DEF Matching
  <2> QED BY <1>1, <1>3, <1>7, <1>11, <1>12, <1>13, <2>1, <2>2, <2>3, Zenon
             DEF Stage, Flushing, Verifying
<1> QED BY <1>1, <1>2, <1>8, <1>16, <1>17, <1>18, Zenon DEF DiskInv, StoreInv

(* Going up, it can connect every block again.                             *)
LEMMA VerifyAllowed ==
  ASSUME TypeOK, Tree, Located(txDb, tip), NEW b \in Anc[tip], Erased(serDb, b)
  PROVE  SpendsAllowed(b, TRUE)
<1>1. b \in Blocks /\ Height(b) \in Nat
  BY Zenon DEF TypeOK, Tree
<1>2. \A t \in Spends[b] : txDb[t] = b /\ serDb[Serial[t]] = None
  BY Zenon DEF Located, Erased
<1> QED BY <1>1, <1>2 DEF SpendsAllowed, IsSerialInBlockchain

LEMMA VerifyReconnectStep ==
  ASSUME DiskInv, Tree, VerifyReconnect
  PROVE  DiskInv'
<1> DEFINE b == Toward(cur, tip)
           d == WrittenOf(serDb, b)
<1>1. /\ pc = "reconnect" /\ cur # tip
      /\ UNCHANGED <<after, tip, best, target, indexDb, data, coinsLog, txDb, env>>
  BY Zenon DEF VerifyReconnect, txidx, world
<1>2. /\ TypeOK /\ IndexOK(index, indexDb, dirty, data, undo) /\ Sound(serDb, txDb)
      /\ Coins(coinsDb, indexDb, serDb, txDb, Back) /\ Once(tip)
      /\ Active(coinsDb, index, tip, best, txDb)
  BY <1>1, Zenon DEF DiskInv
<1>3. /\ best = tip /\ cur \in Anc[tip] /\ after \in {"broken", "idle"}
      /\ Taken(serDb, cur, tip) /\ Full(serDb, cur)
  BY <1>1, Zenon DEF DiskInv, Stage, Verifying
<1>4. tip \in Blocks /\ cur \in Blocks
  BY <1>2, Zenon DEF TypeOK
<1>5. b \in Blocks \ {Genesis} /\ b \in Anc[tip] /\ Parent[b] = cur
  BY <1>1, <1>3, <1>4, TowardOK, Zenon
<1> HIDE DEF b
<1>6. Anc[b] = Anc[cur] \cup {b} /\ b \notin Anc[cur]
  BY <1>4, <1>5, Zenon
<1>7. SpendsAllowed(b, TRUE)
  <2>1. Erased(serDb, b)
    BY <1>3, <1>5, <1>6, Zenon DEF Taken
  <2> QED BY <1>2, <1>5, <2>1, VerifyAllowed, Zenon DEF Active
<1>8. WriteUndoAndSpends(b) /\ cur' = b /\ pc' = "reconnect2"
  BY <1>7, Zenon DEF VerifyReconnect, b
<1>9. index[b] = "undo"
  BY <1>2, <1>5, Zenon DEF Active, Linked
<1>10. UNCHANGED <<index, dirty, undo>> /\ serDb' = d
  BY <1>8, <1>9, Zenon DEF WriteUndoAndSpends, WrittenOf
<1>11. StoreInv'
  BY DiskStore, VerifyReconnectStore, Zenon
<1>12. /\ Recorded(d, b)
       /\ \A c \in Anc[tip] \ {b} : /\ Recorded(serDb, c) => Recorded(d, c)
                                    /\ Perhaps(serDb, c) => Perhaps(d, c)
                                    /\ Erased(serDb, c) => Erased(d, c)
  BY <1>2, <1>4, <1>5, WrittenOfOK, Zenon
<1> HIDE DEF d
<1>13. Full(d, b)
  <2>1. Anc[cur] \subseteq Anc[tip]
    BY <1>3, <1>4, Zenon DEF Tree
  <2> QED BY <1>3, <1>6, <1>12, <2>1, Zenon DEF Full
<1>14. Taken(d, b, tip)
  BY <1>3, <1>6, <1>12, Zenon DEF Taken
<1>15. coinsDb' = coinsDb /\ Back' = Back /\ coinsDb \in Blocks /\ coinsDb \in Anc[tip]
  BY <1>1, <1>2, <1>3, CoinsDbType, Zenon DEF coinsDb, Back, Active
<1>16. Partial(d, Back, coinsDb)
  <2>1. Anc[coinsDb] \subseteq Anc[tip] /\ Partial(serDb, Back, coinsDb)
    BY <1>2, <1>4, <1>15, Zenon DEF Coins, Tree
  <2>2. Perhaps(d, b)
    BY <1>12, Zenon DEF Recorded, Perhaps
  <2> QED BY <1>12, <2>1, <2>2, Zenon DEF Partial
<1>18. Active(coinsDb, index, tip, best, txDb)'
  BY <1>1, <1>2, <1>10, <1>15, Zenon
<1>19. Coins(coinsDb, indexDb, serDb, txDb, Back)'
  BY <1>1, <1>2, <1>10, <1>15, <1>16, Zenon DEF Coins
<1>20. Stage'
  BY <1>1, <1>3, <1>5, <1>8, <1>10, <1>13, <1>14, Zenon DEF Stage, Flushing, Verifying
<1> QED BY <1>1, <1>2, <1>11, <1>18, <1>19, <1>20, Zenon DEF DiskInv, StoreInv

LEMMA VerifyReconnectFinishStep ==
  ASSUME DiskInv, Tree, VerifyReconnectFinish
  PROVE  DiskInv'
<1>1. /\ pc = "reconnect2" /\ pc' = "reconnect" /\ WriteTxIndex(cur)
      /\ UNCHANGED <<after, index, dirty, tip, best, target, cur, indexDb, data, undo, coinsLog,
                     serDb, env>>
  BY Zenon DEF VerifyReconnectFinish, memory, files, zdb, world
<1>2. /\ TypeOK /\ IndexOK(index, indexDb, dirty, data, undo) /\ Sound(serDb, txDb)
      /\ Coins(coinsDb, indexDb, serDb, txDb, Back) /\ Once(tip)
      /\ Active(coinsDb, index, tip, best, txDb)
  BY <1>1, Zenon DEF DiskInv
<1>3. best = tip /\ cur \in Anc[tip] /\ tip \in Blocks /\ cur \in Blocks
  BY <1>1, <1>2, Zenon DEF DiskInv, Stage, Verifying, TypeOK
<1>4. \A c \in Anc[tip] : \A t \in Spends[c] : txDb[t] = c => txDb'[t] = c
  BY <1>1, <1>2, <1>3, WriteTxIndexOK, Zenon
<1>5. Located(txDb', tip)
  BY <1>2, <1>4, Zenon DEF Active, Located
<1>6. coinsDb' = coinsDb /\ Back' = Back /\ coinsDb \in Anc[tip]
  BY <1>1, <1>2, <1>3, Zenon DEF coinsDb, Back, Active
<1>7. StoreInv'
  BY DiskStore, VerifyReconnectFinishStore, Zenon
<1>8. Active(coinsDb, index, tip, best, txDb)'
  BY <1>1, <1>2, <1>3, <1>5, <1>6, Zenon DEF Active
<1>9. Coins(coinsDb, indexDb, serDb, txDb, Back)'
  BY <1>1, <1>2, <1>3, <1>5, <1>6, Shorter, Zenon DEF Coins
<1>10. Stage'
  BY <1>1, Zenon DEF DiskInv, Stage, Flushing, Verifying
<1> QED BY <1>1, <1>2, <1>7, <1>8, <1>9, <1>10, Zenon DEF DiskInv, StoreInv
-----------------------------------------------------------------------------
(* The invariant holds.                                                    *)

LEMMA InitDiskInv ==
  ASSUME Init
  PROVE  DiskInv
<1>1. TypeOK
  BY Zenon DEF Init, TypeOK, Statuses, Stored
<1>2. coinsDb = Genesis
  BY Zenon DEF Init, coinsDb
<1>3. IndexOK(index, indexDb, dirty, data, undo)
  BY Zenon DEF Init, IndexOK
<1>4. Sound(serDb, txDb)
  BY Zenon DEF Init, Sound
<1>5. /\ Once(Genesis) /\ Full(serDb, Genesis) /\ Partial(serDb, Back, Genesis)
      /\ Located(txDb, Genesis) /\ Linked(index, Genesis) /\ Linked(indexDb, Genesis)
  <2>1. Full(serDb, Genesis)
    BY Zenon DEF Full, Recorded
  <2> QED BY <2>1, FullPartial, Zenon DEF Once, Located, Linked
<1>6. tip = Genesis /\ best = Genesis /\ pc = "idle"
  BY Zenon DEF Init
<1>7. Coins(coinsDb, indexDb, serDb, txDb, Back) /\ Active(coinsDb, index, tip, best, txDb)
  BY <1>2, <1>5, <1>6, Zenon DEF Coins, Active
<1>8. Stage
  BY <1>5, <1>6, Zenon DEF Stage, Flushing, Verifying
<1> QED BY <1>1, <1>3, <1>4, <1>5, <1>6, <1>7, <1>8, Zenon DEF DiskInv

LEMMA StutterDiskInv ==
  ASSUME DiskInv, UNCHANGED vars
  PROVE  DiskInv'
<1>1. UNCHANGED <<pc, after, index, dirty, tip, best, bare, target, cur, indexDb, data, undo,
                  coinsLog, serDb, txDb, env>>
  BY Zenon DEF vars, memory, files, zdb, txidx, world
<1>2. coinsDb' = coinsDb /\ Back' = Back /\ Matching' = Matching
  <2>1. \A b : Mismatch(b)' <=> Mismatch(b)
    BY <1>1, Zenon DEF Mismatch, Chain, LastSpent
  <2> QED BY <1>1, <2>1, Zenon DEF coinsDb, Back, Matching
<1>3. TypeOK'
  BY <1>1, Zenon DEF DiskInv, TypeOK
<1>4. Stage'
  BY <1>1, <1>2, ZenonT(60) DEF DiskInv, Stage
<1> QED BY <1>1, <1>2, <1>3, <1>4, Zenon DEF DiskInv

LEMMA NextDiskInv ==
  ASSUME Tree, KilledOnly, DiskInv, [Next]_vars, ~unclean'
  PROVE  DiskInv'
<1>1. CASE UNCHANGED vars
  BY <1>1, StutterDiskInv
<1>2. ASSUME NEW b \in Blocks \ {Genesis}, AcceptBlock(b) \/ ConnectTip(b)
      PROVE  DiskInv'
  BY <1>2, AcceptBlockStep, ConnectTipAccepted, ConnectTipRefused, Zenon
<1>3. CASE ActivateBestChain \/ DisconnectTip \/ ConnectTipFinish \/ UpdateTip
  BY <1>3, ActivateBestChainStep, DisconnectTipStep, ConnectTipFinishStep, UpdateTipStep, Zenon
<1>4. CASE PeriodicFlush \/ Shutdown \/ FlushFails
  <2>1. CASE PeriodicFlush
    BY <2>1, FlushStep, Zenon DEF PeriodicFlush
  <2>2. CASE Shutdown
    BY <2>2, FlushStep DEF Shutdown
  <2> QED BY <1>4, <2>1, <2>2, FlushFailsStep, Zenon
<1>5. CASE FlushBlockFile \/ WriteBatchSync \/ WriteCoins
  BY <1>5, FlushBlockFileStep, WriteBatchSyncStep, WriteCoinsStep, Zenon
<1>6. CASE LoadBlockIndex \/ VerifyChain \/ Crash \/ PowerLoss
  BY <1>6, LoadBlockIndexStep, VerifyChainStep, CrashStep, NoPowerLoss, Zenon DEF DiskInv
<1>7. CASE VerifyDisconnect \/ VerifyTurn \/ VerifyShutdown
  BY <1>7, VerifyDisconnectStep, VerifyTurnStep, VerifyShutdownStep, Zenon
<1>8. CASE VerifyReconnect \/ VerifyReconnectFinish \/ VerifyDone
  BY <1>8, VerifyReconnectStep, VerifyReconnectFinishStep, VerifyDoneStep, Zenon
<1> QED BY <1>1, <1>2, <1>3, <1>4, <1>5, <1>6, <1>7, <1>8, Zenon DEF Next

(* What the invariant says of the properties.                              *)
LEMMA StoreInvImplies ==
  ASSUME StoreInv, KilledOnly
  PROVE  CoinsBlockStored /\ RefusedSpendsTwice
<1>1. TypeOK /\ IndexOK(index, indexDb, dirty, data, undo) /\ Linked(indexDb, coinsDb)
  BY Zenon DEF StoreInv
<1>2. CoinsBlockStored
  <2>1. coinsLog = <<[best |-> coinsDb, bare |-> coinsBare]>> /\ coinsDb \in Blocks
    BY <1>1, CoinsDbType, Zenon
  <2>2. \A k \in 1 .. Len(coinsLog) : coinsLog[k].best = coinsDb
    BY <2>1
  <2>3. \A b \in Anc[coinsDb] \ {Genesis} : b \in Blocks /\ indexDb[b] = "undo"
    BY <1>1, <2>1, Zenon DEF Linked
  <2>4. \A b \in Blocks : indexDb[b] = "undo" => data[b] # "none" /\ undo[b] # "none"
    BY <1>1, ZenonT(60) DEF IndexOK
  <2>5. ~CanLoseWrites
    BY <1>1 DEF CanLoseWrites, KilledOnly, TypeOK
  <2> QED BY <2>2, <2>3, <2>4, <2>5, Zenon DEF CoinsBlockStored, CoinsBlockStoredAlways, Durable
<1>3. RefusedSpendsTwice
  BY <1>1 DEF RefusedSpendsTwice, IndexOK, Twice
<1> QED BY <1>2, <1>3, Zenon

LEMMA DiskInvImplies ==
  ASSUME unclean \/ DiskInv
  PROVE  AlwaysStarts /\ SpentSerialsFound /\ NoSerialTwice
<1>1. SUFFICES ASSUME DiskInv
               PROVE  AlwaysStarts /\ SpentSerialsFound /\ NoSerialTwice
  BY Zenon DEF AlwaysStarts, SpentSerialsFound, NoSerialTwice
<1>2. TypeOK /\ Once(tip)
  BY <1>1, Zenon DEF DiskInv
<1>3. AlwaysStarts
  BY <1>1, ZenonT(60) DEF DiskInv, Stage, AlwaysStarts, Flushing, Verifying
<1>4. SpentSerialsFound
  <2>1. SUFFICES ASSUME pc = "idle", best = tip, NEW b \in Anc[tip], NEW t \in Spends[b]
                 PROVE  serDb[Serial[t]] = t /\ IsSerialInBlockchain(Serial[t])
    BY DEF SpentSerialsFound, SpentSerialsFoundAlways, Chain
  <2>2. Full(serDb, tip) /\ Located(txDb, tip)
    BY <1>1, <2>1, Zenon DEF DiskInv, Stage, Active
  <2>3. serDb[Serial[t]] = t /\ txDb[t] = b
    BY <2>2, ZenonT(60) DEF Full, Recorded, Located
  <2>4. t # None
    BY <1>2, <2>1 DEF TypeOK
  <2> QED BY <2>3, <2>4 DEF IsSerialInBlockchain, IsTransactionInChain, Chain
<1>5. NoSerialTwice
  BY <1>2 DEF NoSerialTwice, Chain, Once
<1> QED BY <1>3, <1>4, <1>5, Zenon

(* An unclean DisconnectBlock is not forgotten.                            *)
LEMMA UncleanStays ==
  ASSUME unclean, [Next]_vars
  PROVE  unclean'
<1>1. CASE UNCHANGED vars
  BY <1>1, Zenon DEF vars, world
<1>2. ASSUME NEW b \in Blocks \ {Genesis}, AcceptBlock(b) \/ ConnectTip(b)
      PROVE  unclean'
  BY <1>2, Zenon DEF AcceptBlock, ConnectTip, world
<1>3. CASE ActivateBestChain \/ DisconnectTip \/ ConnectTipFinish \/ UpdateTip
  BY <1>3, Zenon DEF ActivateBestChain, DisconnectTip, ConnectTipFinish, UpdateTip, world
<1>4. CASE \/ PeriodicFlush \/ Shutdown \/ FlushBlockFile \/ WriteBatchSync \/ WriteCoins
           \/ FlushFails
  BY <1>4, Zenon DEF PeriodicFlush, Shutdown, Flush, FlushBlockFile, WriteBatchSync, WriteCoins,
     FlushFails, world
<1>5. CASE LoadBlockIndex \/ VerifyChain \/ VerifyDisconnect \/ VerifyTurn \/ VerifyShutdown
  BY <1>5, Zenon DEF LoadBlockIndex, VerifyChain, VerifyDisconnect, VerifyTurn, VerifyShutdown,
     world
<1>6. CASE VerifyReconnect \/ VerifyReconnectFinish \/ VerifyDone \/ Crash \/ PowerLoss
  BY <1>6, Zenon DEF VerifyReconnect, VerifyReconnectFinish, VerifyDone, Crash, PowerLoss,
     LoseMemory, world
<1> QED BY <1>1, <1>2, <1>3, <1>4, <1>5, <1>6, Zenon DEF Next

-----------------------------------------------------------------------------
(* The tree of blocks, continued.                                          *)

INSTANCE FiniteSetTheorems

HIDE BlockFacts

Smaller == {pair \in Nat \X Nat : pair[1] < pair[2]}

LEMMA Minimum ==
  ASSUME NEW S, S \subseteq Nat, S # {}
  PROVE  \E n \in S : \A m \in S : n <= m
<1>1. IsWellFoundedOn(Smaller, Nat)
  BY NatLessThanWellFounded DEF OpToRel, Smaller
<1>2. PICK n \in S : \A m \in S : <<m, n>> \notin Smaller
  BY <1>1, WFMin, Zenon
<1>3. \A m \in S : ~(m < n)
  BY <1>2, Zenon DEF Smaller
<1> QED BY <1>3

USE BlockFacts

LEMMA AncFinite ==
  ASSUME NEW b \in Blocks
  PROVE  IsFiniteSet(Anc[b]) /\ Cardinality(Anc[b]) \in Nat
<1>1. IsFiniteSet(Blocks) /\ Anc[b] \in SUBSET Blocks
  BY ChainDiskAssumption, Zenon
<1>2. IsFiniteSet(Anc[b])
  BY <1>1, FS_Subset, ZenonT(60)
<1> QED BY <1>2, FS_CardinalityType, Zenon

(* Every set of blocks has one that is the genesis block or whose parent   *)
(* is not in the set: the one with the fewest ancestors.                   *)
LEMMA Topmost ==
  ASSUME NEW T \in SUBSET Blocks, T # {}
  PROVE  \E b \in T : b = Genesis \/ Parent[b] \notin T
<1> DEFINE S == {Cardinality(Anc[b]) : b \in T}
<1>1. S \subseteq Nat /\ S # {}
  BY AncFinite
<1> HIDE DEF S
<1>4. PICK n \in S : \A m \in S : n <= m
  BY <1>1, Minimum, ZenonT(60)
<1>5. PICK b \in T : n = Cardinality(Anc[b])
  BY <1>4 DEF S
<1>6. SUFFICES ASSUME b # Genesis, Parent[b] \in T
               PROVE  FALSE
  BY <1>5, Zenon
<1>7. /\ Parent[b] \in Blocks /\ IsFiniteSet(Anc[Parent[b]]) /\ Cardinality(Anc[Parent[b]]) \in Nat
      /\ Anc[b] = Anc[Parent[b]] \cup {b} /\ b \notin Anc[Parent[b]]
  BY <1>6, AncFinite, Zenon
<1>8. Cardinality(Anc[b]) = Cardinality(Anc[Parent[b]]) + 1
  BY <1>7, FS_AddElement, ZenonT(60)
<1>9. Cardinality(Anc[Parent[b]]) \in S
  BY <1>6 DEF S
<1> QED BY <1>4, <1>5, <1>7, <1>8, <1>9

LEMMA TreeFacts == Tree
<1>1. \A b \in Blocks : b \in Anc[b]
  OBVIOUS
<1>2. \A b \in Blocks : Genesis \in Anc[b]
  <2> DEFINE T == {b \in Blocks : Genesis \notin Anc[b]}
  <2>1. SUFFICES ASSUME T # {} PROVE FALSE
    OBVIOUS
  <2>2. PICK b \in T : b = Genesis \/ Parent[b] \notin T
    BY <2>1, Topmost, T \in SUBSET Blocks, Zenon
  <2> QED BY <2>2
<1>3. \A b \in Blocks : \A a \in Anc[b] : Anc[a] \subseteq Anc[b]
  <2> DEFINE T == {b \in Blocks : \E a \in Anc[b] : ~(Anc[a] \subseteq Anc[b])}
  <2>1. SUFFICES ASSUME T # {} PROVE FALSE
    OBVIOUS
  <2>2. PICK b \in T : b = Genesis \/ Parent[b] \notin T
    BY <2>1, Topmost, T \in SUBSET Blocks, ZenonT(60)
  <2>3. PICK a \in Anc[b] : ~(Anc[a] \subseteq Anc[b])
    BY <2>2, ZenonT(60)
  <2>4. b # Genesis /\ a \in Anc[Parent[b]]
    BY <2>2, <2>3
  <2> QED BY <2>2, <2>3, <2>4
<1>4. ASSUME NEW b \in Blocks, NEW a \in Anc[b] \ {b}
      PROVE  \E c \in Anc[b] \ {Genesis} : Parent[c] = a
  <2> DEFINE T == {x \in Blocks : /\ a \in Anc[x] \ {x}
                                  /\ ~\E c \in Anc[x] \ {Genesis} : Parent[c] = a}
  <2>1. SUFFICES ASSUME T # {} PROVE FALSE
    BY <1>4
  <2>2. PICK x \in T : x = Genesis \/ Parent[x] \notin T
    BY <2>1, Topmost, T \in SUBSET Blocks, ZenonT(60)
  <2>3. x # Genesis /\ a \in Anc[Parent[x]] /\ Parent[x] # a
    BY <2>2
  <2> QED BY <2>2, <2>3, ZenonT(60)
<1>5. \A b \in Blocks : Height(b) \in Nat
  <2>1. ASSUME NEW b \in Blocks PROVE Cardinality(Anc[b]) \in Nat \ {0}
    BY AncFinite, FS_EmptySet
  <2> QED BY <2>1 DEF Height
<1>6. ASSUME NEW b \in Blocks, NEW a \in Anc[b]
      PROVE  Height(a) <= Height(b)
  <2>1. a \in Blocks /\ Anc[a] \in SUBSET Anc[b]
    BY <1>3, Zenon
  <2>2. Cardinality(Anc[a]) <= Cardinality(Anc[b])
    BY <2>1, AncFinite, FS_Subset, ZenonT(60)
  <2>3. Cardinality(Anc[a]) \in Nat /\ Cardinality(Anc[b]) \in Nat
    BY <2>1, AncFinite
  <2> QED BY <2>2, <2>3 DEF Height
<1> QED BY <1>1, <1>2, <1>3, <1>4, <1>5, <1>6, ZenonT(60) DEF Tree

-----------------------------------------------------------------------------
(* The theorems.                                                           *)

LEMMA AlwaysStoreInv ==
  ASSUME KilledOnly
  PROVE  Spec => []StoreInv
<1>1. Init => StoreInv
  BY InitDiskInv, DiskStore, ZenonT(60)
<1>2. StoreInv /\ [Next]_vars => StoreInv'
  BY TreeFacts, NextStoreInv
<1> QED BY <1>1, <1>2, PTL DEF Spec

LEMMA AlwaysDiskInv ==
  ASSUME KilledOnly
  PROVE  Spec => [](unclean \/ DiskInv)
<1>1. Init => DiskInv
  BY InitDiskInv, ZenonT(60)
<1>2. (unclean \/ DiskInv) /\ [Next]_vars => (unclean \/ DiskInv)'
  BY TreeFacts, NextDiskInv, UncleanStays, Zenon
<1> QED BY <1>1, <1>2, PTL DEF Spec

(* On a machine on which the process may be killed between any two writes  *)
(* and the disk may be full, whatever coins a restart finds, their block   *)
(* and all its ancestors are in the block index on disk with their data    *)
(* and undo data: the order of the writes in FlushStateToDisk.  An unclean *)
(* DisconnectBlock changes nothing in this.                                *)
THEOREM CoinsAlwaysStored ==
  ASSUME KilledOnly
  PROVE  Spec => []CoinsBlockStored
<1>1. StoreInv => CoinsBlockStored
  BY StoreInvImplies, ZenonT(60)
<1> QED BY <1>1, AlwaysStoreInv, PTL

(* On such a machine LoadBlockIndexDB and VerifyDB succeed at every start  *)
(* until DisconnectBlock meets coins that do not match their block: no     *)
(* crash leaves a disk the node cannot start from, whichever blocks spend  *)
(* which coinstakes and however little room VerifyDB has for its coins.    *)
THEOREM NodeAlwaysStarts ==
  ASSUME KilledOnly
  PROVE  Spec => []AlwaysStarts
<1>1. unclean \/ DiskInv => AlwaysStarts
  BY DiskInvImplies, ZenonT(60)
<1> QED BY <1>1, AlwaysDiskInv, PTL

(* On such a machine, and until then, IsSerialInBlockchain finds every     *)
(* serial spent in the active chain whenever the node is up, however often *)
(* DisconnectBlock or VerifyDB was cut short after it had erased serials.  *)
THEOREM SerialsAlwaysFound ==
  ASSUME KilledOnly
  PROVE  Spec => []SpentSerialsFound
<1>1. unclean \/ DiskInv => SpentSerialsFound
  BY DiskInvImplies, ZenonT(60)
<1> QED BY <1>1, AlwaysDiskInv, PTL

(* On such a machine, and until then, no serial is spent twice in the      *)
(* active chain: the checks of ConnectBlock are enough across crashes and  *)
(* reorganisations.                                                        *)
THEOREM SerialNeverTwice ==
  ASSUME KilledOnly
  PROVE  Spec => []NoSerialTwice
<1>1. unclean \/ DiskInv => NoSerialTwice
  BY DiskInvImplies, ZenonT(60)
<1> QED BY <1>1, AlwaysDiskInv, PTL

(* On such a machine ConnectBlock refuses a block for its spends only if   *)
(* the block's own chain spends a serial twice, never because of a record  *)
(* that a crash or a disconnected block, clean or not, left behind.        *)
THEOREM OnlyTwiceRefused ==
  ASSUME KilledOnly
  PROVE  Spec => []RefusedSpendsTwice
<1>1. StoreInv => RefusedSpendsTwice
  BY StoreInvImplies, ZenonT(60)
<1> QED BY <1>1, AlwaysStoreInv, PTL
=============================================================================
