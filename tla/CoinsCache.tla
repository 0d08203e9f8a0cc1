------------------------------ MODULE CoinsCache -----------------------------
(***************************************************************************)
(* CCoinsViewCache and CCoinsViewDB (coins.cpp, txdb.cpp): a stack of       *)
(* caches on the coin database.  An entry of a cache carries the flags      *)
(* DIRTY and FRESH; what is not in a cache is read through from below and   *)
(* remembered on the way up.  pcoinsTip is the cache at level 1; ConnectTip *)
(* and DisconnectTip stack one more on it, flush it when the block is done  *)
(* and drop it when the block is not.                                       *)
(***************************************************************************)
EXTENDS Naturals

CONSTANTS
  Txids, Coins, Pruned, Blocks, MaxDepth,
  CoinsAt,     \* the coins after each block, as the chain defines them
  NoEntry, NoTx, NoBlock

ASSUME CoinsAssumption ==
  /\ Pruned \in Coins
  /\ CoinsAt \in [Blocks -> [Txids -> Coins]]
  /\ NoTx \notin Txids /\ NoBlock \notin Blocks
  /\ NoEntry \notin [coins : Coins, dirty : BOOLEAN, fresh : BOOLEAN]

ASSUME DepthAssumption == MaxDepth \in Nat \ {0}

VARIABLES
  db,        \* the database: coins by transaction; absent is Pruned
  dbBest,    \* the database: key 'B'
  depth,     \* how many caches there are
  cache,     \* cacheCoins of each
  hashBlock, \* hashBlock of each; NoBlock is 0
  modifier,  \* the transaction under a CCoinsModifier of the top cache
  failed     \* history: a write to the database has failed

vars == <<db, dbBest, depth, cache, hashBlock, modifier, failed>>

Levels == 1 .. MaxDepth
Entry  == [coins : Coins, dirty : BOOLEAN, fresh : BOOLEAN]
Empty  == [t \in Txids |-> NoEntry]

Has(l, t) == cache[l][t] # NoEntry

(* The level that answers a read of t at level l of the caches c; 0 is the *)
(* database.                                                               *)
Topmost(S)      == CHOOSE k \in S : \A j \in S : j <= k
Source(c, l, t) == Topmost({k \in 1 .. l : c[k][t] # NoEntry} \cup {0})

(* What GetCoins of level l answers, over the database d.                  *)
ReadOf(c, d, l, t) == IF Source(c, l, t) = 0 THEN d[t] ELSE c[Source(c, l, t)][t].coins
Read(l, t)         == ReadOf(cache, db, l, t)

(* GetCoins of level l returns true.  The database stores nothing pruned.  *)
Found(l, t) == Source(cache, l, t) # 0 \/ db[t] # Pruned

(* The block hash that GetBestBlock of level l returns, for the hashes h.  *)
BestSource(h, l) == Topmost({k \in 1 .. l : h[k] # NoBlock} \cup {0})
BestOf(h, d, l)  == IF BestSource(h, l) = 0 THEN d ELSE h[BestSource(h, l)]
Best(l)          == BestOf(hashBlock, dbBest, l)

(* The chain has reached the state after the block b at level l.           *)
Complete(l, b) == \A t \in Txids : Read(l, t) = CoinsAt[b][t]

-----------------------------------------------------------------------------
Init ==
  /\ dbBest \in Blocks /\ db = CoinsAt[dbBest]
  /\ depth = 1
  /\ cache = [l \in Levels |-> Empty]
  /\ hashBlock = [l \in Levels |-> NoBlock]
  /\ modifier = NoTx /\ failed = FALSE

(* CCoinsViewCache on the top of the stack, and its destruction.           *)
Construct ==
  /\ depth < MaxDepth /\ modifier = NoTx
  /\ depth' = depth + 1
  /\ UNCHANGED <<db, dbBest, cache, hashBlock, modifier, failed>>

Destroy ==
  /\ depth > 1 /\ modifier = NoTx
  /\ depth' = depth - 1
  /\ cache' = [cache EXCEPT ![depth] = Empty]
  /\ hashBlock' = [hashBlock EXCEPT ![depth] = NoBlock]
  /\ UNCHANGED <<db, dbBest, modifier, failed>>

Copy(l, t) == [coins |-> Read(l, t), dirty |-> FALSE, fresh |-> Read(l, t) = Pruned]

(* FetchCoins at level l: every cache on the way keeps what was found.     *)
Fetched(l, t) ==
  [k \in Levels |-> IF k > Source(cache, l, t) /\ k <= l /\ Found(l, t)
                    THEN [cache[k] EXCEPT ![t] = Copy(l, t)] ELSE cache[k]]

(* GetCoins, AccessCoins, HaveCoins and their users, at any level.         *)
AccessCoins(l, t) ==
  /\ l <= depth
  /\ cache' = Fetched(l, t)
  /\ UNCHANGED <<db, dbBest, depth, hashBlock, modifier, failed>>

(* Faulty: a new entry is FRESH whatever the parent has.                   *)
ModifyCoinsFresh(t) ==
  /\ depth > 1 /\ modifier = NoTx
  /\ cache' = [Fetched(depth - 1, t) EXCEPT ![depth][t] =
                 IF Has(depth, t) THEN [@ EXCEPT !.dirty = TRUE]
                 ELSE [coins |-> Read(depth - 1, t), dirty |-> TRUE, fresh |-> TRUE]]
  /\ modifier' = t
  /\ UNCHANGED <<db, dbBest, depth, hashBlock, failed>>

(* ModifyCoins on the top cache; pcoinsTip is never modified directly.     *)
ModifyCoins(t) ==
  /\ depth > 1 /\ modifier = NoTx
  /\ cache' = IF Has(depth, t)
              THEN [cache EXCEPT ![depth][t].dirty = TRUE]
              ELSE [Fetched(depth - 1, t) EXCEPT ![depth][t] = [Copy(depth - 1, t) EXCEPT !.dirty = TRUE]]
  /\ modifier' = t
  /\ UNCHANGED <<db, dbBest, depth, hashBlock, failed>>

(* The modification, and ~CCoinsModifier.                                  *)
EndModify(c) ==
  /\ modifier # NoTx
  /\ cache' = [cache EXCEPT ![depth][modifier] =
                 IF @.fresh /\ c = Pruned THEN NoEntry ELSE [@ EXCEPT !.coins = c]]
  /\ modifier' = NoTx
  /\ UNCHANGED <<db, dbBest, depth, hashBlock, failed>>

(* GetBestBlock fills in the hash of every cache on the way.               *)
GetBestBlock(l) ==
  /\ l <= depth
  /\ hashBlock' = [k \in Levels |-> IF k > BestSource(hashBlock, l) /\ k <= l THEN Best(l) ELSE hashBlock[k]]
  /\ UNCHANGED <<db, dbBest, depth, cache, modifier, failed>>

(* SetBestBlock, at the end of ConnectBlock and DisconnectBlock.           *)
SetBestBlock(b) ==
  /\ depth > 1 /\ modifier = NoTx
  /\ hashBlock' = [hashBlock EXCEPT ![depth] = b]
  /\ UNCHANGED <<db, dbBest, depth, cache, modifier, failed>>

-----------------------------------------------------------------------------
(* CCoinsViewCache::BatchWrite: entry e of the child meets the parent's p. *)
Merged(e, p) ==
  IF e = NoEntry \/ ~e.dirty THEN p
  ELSE IF p = NoEntry THEN IF e.coins = Pruned THEN NoEntry
                           ELSE [coins |-> e.coins, dirty |-> TRUE, fresh |-> TRUE]
  ELSE IF p.fresh /\ e.coins = Pruned THEN NoEntry
  ELSE [p EXCEPT !.coins = e.coins, !.dirty = TRUE]

(* Faulty: the parent keeps its own best block.                            *)
FlushViewOldBest ==
  /\ depth > 1 /\ modifier = NoTx
  /\ hashBlock[depth] # NoBlock /\ Complete(depth, hashBlock[depth])
  /\ cache' = [cache EXCEPT ![depth] = Empty,
                 ![depth - 1] = [t \in Txids |-> Merged(cache[depth][t], cache[depth - 1][t])]]
  /\ UNCHANGED <<db, dbBest, depth, hashBlock, modifier, failed>>

(* view.Flush() in ConnectTip and DisconnectTip, when the block is done.   *)
FlushView ==
  /\ depth > 1 /\ modifier = NoTx
  /\ hashBlock[depth] # NoBlock /\ Complete(depth, hashBlock[depth])
  /\ cache' = [cache EXCEPT ![depth] = Empty,
                 ![depth - 1] = [t \in Txids |-> Merged(cache[depth][t], cache[depth - 1][t])]]
  /\ hashBlock' = [hashBlock EXCEPT ![depth - 1] = hashBlock[depth]]
  /\ UNCHANGED <<db, dbBest, depth, modifier, failed>>

(* Faulty: coins that were spent entirely are not erased.                  *)
BatchWriteKeeps ==
  /\ db' = [t \in Txids |-> IF Has(1, t) /\ cache[1][t].dirty /\ cache[1][t].coins # Pruned
                            THEN cache[1][t].coins ELSE db[t]]
  /\ dbBest' = IF hashBlock[1] # NoBlock THEN hashBlock[1] ELSE dbBest

(* CCoinsViewDB::BatchWrite, one atomic write.                             *)
BatchWrite ==
  /\ db' = [t \in Txids |-> IF Has(1, t) /\ cache[1][t].dirty THEN cache[1][t].coins ELSE db[t]]
  /\ dbBest' = IF hashBlock[1] # NoBlock THEN hashBlock[1] ELSE dbBest

(* pcoinsTip->Flush() in FlushStateToDisk.                                 *)
FlushTip ==
  /\ depth = 1
  /\ BatchWrite
  /\ cache' = [cache EXCEPT ![1] = Empty]
  /\ UNCHANGED <<depth, hashBlock, modifier, failed>>

(* The write fails after BatchWrite has emptied the map.                   *)
FlushTipFails ==
  /\ depth = 1
  /\ cache' = [cache EXCEPT ![1] = Empty]
  /\ failed' = TRUE
  /\ UNCHANGED <<db, dbBest, depth, hashBlock, modifier>>

(* The process ends without a flush and is started again.                  *)
Restart ==
  /\ depth' = 1
  /\ cache' = [l \in Levels |-> Empty]
  /\ hashBlock' = [l \in Levels |-> NoBlock]
  /\ modifier' = NoTx
  /\ UNCHANGED <<db, dbBest, failed>>

Next ==
  \/ Construct \/ Destroy
  \/ \E t \in Txids : (\E l \in Levels : AccessCoins(l, t)) \/ ModifyCoins(t)
  \/ \E c \in Coins : EndModify(c)
  \/ \E l \in Levels : GetBestBlock(l)
  \/ \E b \in Blocks : SetBestBlock(b)
  \/ FlushView \/ FlushTip \/ FlushTipFails \/ Restart

Spec == Init /\ [][Next]_vars

-----------------------------------------------------------------------------
(* The caches stay in their types, and those that do not exist are empty.  *)
CachesTyped ==
  /\ db \in [Txids -> Coins] /\ dbBest \in Blocks
  /\ depth \in Levels
  /\ cache \in [Levels -> [Txids -> Entry \cup {NoEntry}]]
  /\ hashBlock \in [Levels -> Blocks \cup {NoBlock}]
  /\ modifier \in Txids \cup {NoTx}
  /\ \A l \in Levels : l > depth => cache[l] = Empty /\ hashBlock[l] = NoBlock

(* The state stays in its types.                                           *)
TypeOK == CachesTyped /\ failed \in BOOLEAN

(* What coins.h says of the flags: an entry without DIRTY is what the       *)
(* parent view has, and of an entry with FRESH "the parent view does not    *)
(* have this entry (or it is pruned)".  The entry under a modifier is DIRTY. *)
FlagsRight ==
  /\ \A l \in Levels, t \in Txids : Has(l, t) =>
       /\ cache[l][t].dirty \/ cache[l][t].coins = Read(l - 1, t)
       /\ cache[l][t].fresh => Read(l - 1, t) = Pruned
  /\ modifier # NoTx => depth > 1 /\ Has(depth, modifier) /\ cache[depth][modifier].dirty

(* The assertion in BatchWrite, "if the grandparent did have it, we would   *)
(* have pulled it in at first GetCoins": an entry that the level below does *)
(* not have is FRESH.                                                       *)
PulledIn ==
  \A l \in Levels \ {1}, t \in Txids :
    Has(l, t) /\ ~Has(l - 1, t) => cache[l][t].fresh

(* "Retrieve the block hash whose state this CCoinsView currently           *)
(* represents" (GetBestBlock), for the database: whatever was flushed,      *)
(* dropped or interrupted, the coins on disk are those of the block on disk, *)
(* as long as no write has failed.                                          *)
DbDescribesItsBlock == failed \/ \A t \in Txids : db[t] = CoinsAt[dbBest][t]

(* The same also after a write that failed and was followed by another one. *)
DbSurvivesFailure == \A t \in Txids : db[t] = CoinsAt[dbBest][t]

(* The stack of caches with their flags implements a stack of whole maps.   *)
Abs == INSTANCE CoinsView WITH
         disk   <- [coins |-> db, best |-> dbBest],
         views  <- [l \in 1 .. depth |-> [coins |-> [t \in Txids |-> Read(l, t)], best |-> Best(l)]],
         height <- depth
ImplementsView == Abs!ASpec
=============================================================================
