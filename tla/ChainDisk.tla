----------------------------- MODULE ChainDisk -----------------------------
(***************************************************************************)
(* What the node keeps on disk and what survives of it: the block and undo *)
(* files, the block index with the transaction index, the coins and the    *)
(* zerocoin serials, each written at its own moment by AcceptBlock,        *)
(* ConnectBlock, DisconnectBlock and FlushStateToDisk (main.cpp, txdb.cpp);*)
(* the start of the node from it (LoadBlockIndexDB, VerifyDB) and the      *)
(* shutdown (init.cpp).                                                    *)
(*                                                                         *)
(* The process may be killed between any two writes, or the machine may    *)
(* lose power, which also loses writes that were not synced.  All of this  *)
(* code holds cs_main, so there is one program counter.  The coins are the *)
(* name of the block they belong to and the blocks whose coinstake has     *)
(* lost its flag; which coins these are is the subject of CoinsCache and   *)
(* BlockUndo.                                                              *)
(***************************************************************************)
EXTENDS Naturals, Sequences, FiniteSets

CONSTANTS
  Blocks, Genesis,
  Parent,      \* hashPrevBlock, for every block but the genesis block
  Anc,         \* a block and all its ancestors
  Txs,         \* the zerocoin spends
  Spends,      \* the zerocoin spends in each block
  Serial,      \* the serial number that a spend reveals
  CheckDepth,  \* -checkblocks: how deep VerifyDB looks when the node starts
  Envs,        \* [cap: blocks per file, room: how many blocks below the tip
               \*  VerifyDB disconnects before its cache is full, rpc: the
               \*  argument of the RPC command verifychain, 0 when it is not
               \*  used, spent: the pairs <<a, b>> in which b spends the last
               \*  output of the coinstake of its ancestor a, faults: what may
               \*  go wrong, max: how often]
  MaxLog,      \* bound on the coin batches that LevelDB has not synced
  None

Serials == {Serial[t] : t \in Txs}
Faults == {"crash", "power", "space", "index"}

ASSUME ChainDiskAssumption ==
  /\ Genesis \in Blocks /\ IsFiniteSet(Blocks) /\ None \notin Blocks \cup Txs
  /\ Parent \in [Blocks \ {Genesis} -> Blocks]
  /\ Anc \in [Blocks -> SUBSET Blocks]
  /\ Anc[Genesis] = {Genesis}
  /\ \A b \in Blocks \ {Genesis} :
        Anc[b] = Anc[Parent[b]] \cup {b} /\ b \notin Anc[Parent[b]]
  /\ Spends \in [Blocks -> SUBSET Txs] /\ Spends[Genesis] = {}
  /\ Serial \in [Txs -> Serials]
  /\ \A b \in Blocks : \A t, u \in Spends[b] : Serial[t] = Serial[u] => t = u  \* CheckBlock
  /\ CheckDepth \in Nat \ {0} /\ MaxLog \in Nat \ {0}
  /\ \A e \in Envs : /\ e.cap \in Nat \ {0} /\ e.rpc \in Nat /\ e.max \in Nat
                     /\ e.room \in Nat /\ e.spent \subseteq Blocks \X Blocks
                     /\ e.faults \subseteq Faults

VARIABLES
  pc,       \* the next step of the code that holds cs_main; "off": no process
  after,    \* where to go on when a flush ends, or when VerifyDB fails
  index,    \* mapBlockIndex: "absent", "data", "undo" (also has undo data), "failed"
  file,     \* nFile of a block's position
  dirty,    \* setDirtyBlockIndex
  tip,      \* chainActive.Tip()
  best,     \* pcoinsTip->GetBestBlock()
  bare,     \* blocks whose coinstake has coins without fCoinStake in pcoinsTip
  target,   \* pindexMostWork; the tip when ActivateBestChainStep is not running
  oldTip,   \* pindexOldTip of ActivateBestChainStep
  cur,      \* the block that ConnectBlock works on; pindexState of VerifyDB
  indexDb,  \* the block index in blocks/index
  data,     \* block files: "none", "cache" (written), "synced"
  undo,     \* undo files, the same
  coinsLog, \* best and bare of the coin batches LevelDB may still go back to
  serDb,    \* zerocoin database: the transaction that spent a serial
  serSync,  \* what of it is synced
  txDb,     \* transaction index: the block that holds a transaction
  txSync,   \* what of it is synced
  env,      \* the machine and what may go wrong on it
  faults,   \* the number of faults so far
  unclean   \* DisconnectBlock has met coins that do not match the block

memory == <<after, index, file, dirty, tip, best, bare, target, oldTip, cur>>
files  == <<data, undo>>
zdb    == <<serDb, serSync>>
txidx  == <<txDb, txSync>>
world  == <<env, faults, unclean>>
vars   == <<pc, memory, indexDb, files, coinsLog, zdb, txidx, world>>

Height(b) == Cardinality(Anc[b]) - 1
Chain == Anc[tip]
HasData(b) == index[b] \in {"data", "undo"}

(* The child of a on the way to b.                                         *)
Toward(a, b) == CHOOSE c \in Anc[b] \ {Genesis} : Parent[c] = a

coinsDb   == coinsLog[Len(coinsLog)].best
coinsBare == coinsLog[Len(coinsLog)].bare

(* Disconnecting b builds the coins of these coinstakes anew, and the undo *)
(* data does not tell that they are coinstakes.                            *)
LastSpent(b) == {a \in Anc[b] \ {b} : <<a, b>> \in env.spent}

(* nLastBlockFile, and vinfoBlockFile[f].nSize counted in blocks.          *)
LastFile == LET used == {file[b] : b \in {x \in Blocks : index[x] # "absent"}}
            IN  CHOOSE f \in used : \A other \in used : other <= f
FileSize(f) == Cardinality({b \in Blocks : index[b] # "absent" /\ file[b] = f})

(* FlushBlockFile: FileCommit of the last block file and its undo file.    *)
Commit(f, store) ==
  [b \in Blocks |-> IF file[b] = f /\ store[b] = "cache" THEN "synced" ELSE store[b]]

(* Faulty: the chain is not consulted.                                     *)
IsSerialInBlockchainStale(s) == serDb[s] # None

(* IsTransactionInChain and IsSerialInBlockchain: the transaction index    *)
(* names a block of the active chain.                                      *)
IsTransactionInChain(t) == txDb[t] \in Chain
IsSerialInBlockchain(s) == serDb[s] # None /\ IsTransactionInChain(serDb[s])

Init ==
  /\ pc = "idle" /\ after = "idle" /\ env \in Envs /\ faults = 0
  /\ index = [b \in Blocks |-> IF b = Genesis THEN "data" ELSE "absent"]
  /\ indexDb = index /\ dirty = {} /\ file = [b \in Blocks |-> 0]
  /\ tip = Genesis /\ best = Genesis /\ target = Genesis
  /\ oldTip = Genesis /\ cur = Genesis /\ bare = {} /\ unclean = FALSE
  /\ data = [b \in Blocks |-> IF b = Genesis THEN "synced" ELSE "none"]
  /\ undo = [b \in Blocks |-> "none"]
  /\ coinsLog = <<[best |-> Genesis, bare |-> {}]>>
  /\ serDb = [s \in Serials |-> None] /\ serSync = serDb
  /\ txDb = [t \in Txs |-> None] /\ txSync = txDb

-----------------------------------------------------------------------------
(* FindMostWorkChain: a block with more work than the tip, stored with all *)
(* its ancestors, none of them failed.                                     *)
Candidates == {b \in Blocks : \A a \in Anc[b] : HasData(a)}
Better == {b \in Candidates : /\ Height(b) > Height(tip)
                              /\ \A c \in Candidates : Height(c) <= Height(b)}

(* AcceptBlock for a block whose parent is indexed and not failed:         *)
(* FindBlockPos leaves a full block file behind and commits it;            *)
(* WriteBlockToDisk; ReceivedBlockTransactions.  The thread that calls it  *)
(* has brought ActivateBestChain to its end for the block before: to the   *)
(* best chain, or to a tip that cannot be disconnected.                    *)
AcceptBlock(b) ==
  LET full == FileSize(LastFile) >= env.cap
      f    == IF full THEN LastFile + 1 ELSE LastFile
  IN  /\ pc = "idle" /\ \A c \in Better : tip \in bare /\ tip \notin Anc[c]
      /\ index[b] = "absent" /\ HasData(Parent[b])
      /\ index' = [index EXCEPT ![b] = "data"]
      /\ file' = [file EXCEPT ![b] = f]
      /\ dirty' = dirty \cup {b}
      /\ data' = [(IF full THEN Commit(LastFile, data) ELSE data) EXCEPT ![b] = "cache"]
      /\ undo' = [(IF full THEN Commit(LastFile, undo) ELSE undo) EXCEPT ![b] = "none"]
      /\ UNCHANGED <<pc, after, tip, best, bare, target, oldTip, cur, indexDb, coinsLog, zdb, txidx, world>>

(* ActivateBestChain starts a step.  It keeps cs_main until the tip is     *)
(* better than it was (see UpdateTip).                                     *)
ActivateBestChain ==
  /\ pc = "idle" /\ target = tip /\ best = tip /\ target' \in Better /\ oldTip' = tip
  /\ UNCHANGED <<pc, after, index, file, dirty, tip, best, bare, cur, indexDb, files,
                 coinsLog, zdb, txidx, world>>

(* The databases in DisconnectBlock: the serials are erased, not synced.   *)
EraseSpends(b) ==
  /\ serDb' = [s \in Serials |-> IF \E t \in Spends[b] : Serial[t] = s THEN None ELSE serDb[s]]
  /\ UNCHANGED serSync

(* DisconnectTip: DisconnectBlock, then FLUSH_STATE_ALWAYS, then UpdateTip.*)
(* Coins without their flag do not match the block: ActivateBestChain gives*)
(* up, and the serials are erased all the same.                            *)
DisconnectTip ==
  /\ pc = "idle" /\ best = tip /\ target # tip /\ tip \notin Anc[target]
  /\ data[tip] # "none" /\ undo[tip] # "none"
  /\ EraseSpends(tip)
  /\ IF tip \in bare
     THEN unclean' = TRUE /\ target' = tip /\ UNCHANGED <<pc, after, best, bare>>
     ELSE /\ best' = Parent[tip] /\ bare' = bare \cup LastSpent(tip)
          /\ pc' = "sync" /\ after' = "tip" /\ UNCHANGED <<target, unclean>>
  /\ UNCHANGED <<index, file, dirty, tip, oldTip, cur, indexDb, files, coinsLog, txidx,
                 env, faults>>

(* Faulty: VerifyDB is held to the check of a new block.                   *)
SpendsAllowedOnce(b, fVerifyingBlocks) ==
  \A t \in Spends[b] : ~IsTransactionInChain(t) /\ ~IsSerialInBlockchain(Serial[t])

(* Faulty: the serials are not looked up.                                  *)
SpendsAllowedByTxid(b, fVerifyingBlocks) ==
  \A t \in Spends[b] :
    IsTransactionInChain(t) => fVerifyingBlocks /\ Height(b) <= Height(txDb[t])

(* The checks of ConnectBlock on zerocoin spends.  With fVerifyingBlocks a *)
(* transaction may already be in the chain, at the height of this block.   *)
SpendsAllowed(b, fVerifyingBlocks) ==
  \A t \in Spends[b] :
    /\ IsTransactionInChain(t) => fVerifyingBlocks /\ Height(b) <= Height(txDb[t])
    /\ ~IsSerialInBlockchain(Serial[t])

(* The first half of what ConnectBlock writes: undo data unless it has a   *)
(* position, then the serials, synced (WriteCoinSpendBatch).               *)
WriteUndoAndSpends(b) ==
  /\ IF index[b] = "undo" THEN UNCHANGED <<index, dirty, undo>>
     ELSE /\ index' = [index EXCEPT ![b] = "undo"]
          /\ dirty' = dirty \cup {b}
          /\ undo' = [undo EXCEPT ![b] = "cache"]
  /\ serDb' = [s \in Serials |->
                 IF \E t \in Spends[b] : Serial[t] = s
                 THEN CHOOSE t \in Spends[b] : Serial[t] = s ELSE serDb[s]]
  /\ serSync' = serDb'

(* The second half: WriteTxIndex, not synced.                              *)
WriteTxIndex(b) ==
  /\ txDb' = [t \in Txs |-> IF t \in Spends[b] THEN b ELSE txDb[t]]
  /\ UNCHANGED txSync

ConnectTip(b) ==
  /\ pc = "idle" /\ best = tip /\ target # tip /\ tip \in Anc[target]
  /\ b = Toward(tip, target)
  /\ data[b] # "none"
  /\ IF SpendsAllowed(b, FALSE)
     THEN /\ WriteUndoAndSpends(b) /\ pc' = "connect" /\ cur' = b
          /\ UNCHANGED target
     ELSE /\ index' = [index EXCEPT ![b] = "failed"]          \* InvalidBlockFound
          /\ dirty' = dirty \cup {b} /\ target' = tip
          /\ UNCHANGED <<pc, cur, undo, zdb>>
  /\ UNCHANGED <<after, file, tip, best, bare, oldTip, indexDb, data, coinsLog, txidx, world>>

(* The rest of ConnectTip: always a flush when the block is the first of a *)
(* new file, otherwise one if the coin cache is large.                     *)
ConnectTipFinish ==
  /\ pc = "connect"
  /\ WriteTxIndex(cur) /\ best' = cur
  /\ pc' \in IF file[cur] # file[Parent[cur]] THEN {"sync"} ELSE {"sync", "tip"}
  /\ after' = "tip"
  /\ UNCHANGED <<index, file, dirty, tip, bare, target, oldTip, cur, indexDb, files, coinsLog, zdb,
                 world>>

UpdateTip ==
  /\ pc = "tip" /\ tip' = best /\ pc' = "idle"
  /\ target' = IF Height(best) > Height(oldTip) THEN best ELSE target
  /\ UNCHANGED <<after, index, file, dirty, best, bare, oldTip, cur, indexDb, files,
                 coinsLog, zdb, txidx, world>>

-----------------------------------------------------------------------------
(* FlushStateToDisk while cs_main is free: at the end of ActivateBestChain,*)
(* by RPC, or by the shutdown.                                             *)
Flush(cont) ==
  /\ pc = "idle" /\ target = tip /\ pc' = "sync" /\ after' = cont
  /\ cont = "idle" => dirty # {} \/ best # coinsDb
  /\ UNCHANGED <<index, file, dirty, tip, best, bare, target, oldTip, cur, indexDb, files,
                 coinsLog, zdb, txidx, world>>

PeriodicFlush == Flush("idle")

(* PrepareShutdown: the other threads have ended.                          *)
Shutdown == Flush("off")

(* Faulty: the undo file is not committed.                                 *)
FlushBlockFileNoUndo ==
  /\ pc = "sync" /\ pc' = "index" /\ data' = Commit(LastFile, data)
  /\ UNCHANGED <<memory, indexDb, undo, coinsLog, zdb, txidx, world>>

(* First the block files, ...                                              *)
FlushBlockFile ==
  /\ pc = "sync" /\ pc' = "index"
  /\ data' = Commit(LastFile, data) /\ undo' = Commit(LastFile, undo)
  /\ UNCHANGED <<memory, indexDb, coinsLog, zdb, txidx, world>>

(* ... then the dirty entries of the block index, synced together with the *)
(* transaction index, which is in the same database, ...                   *)
WriteBatchSync ==
  /\ pc = "index" /\ pc' = "coins"
  /\ indexDb' = [b \in Blocks |-> IF b \in dirty THEN index[b] ELSE indexDb[b]]
  /\ dirty' = {} /\ txSync' = txDb
  /\ UNCHANGED <<after, index, file, tip, best, bare, target, oldTip, cur, files, coinsLog, zdb, txDb, world>>

(* ... and the coins, not synced: LevelDB syncs some part of its log when  *)
(* it likes.                                                               *)
CanLoseWrites == "power" \in env.faults
WriteCoins ==
  /\ pc = "coins" /\ pc' = after
  /\ coinsLog' \in IF CanLoseWrites
                   THEN {s \in {Append(SubSeq(coinsLog, k, Len(coinsLog)), [best |-> best, bare |-> bare]) :
                                  k \in 1 .. Len(coinsLog) + 1} : Len(s) <= MaxLog}
                   ELSE {<<[best |-> best, bare |-> bare]>>}
  /\ UNCHANGED <<memory, indexDb, files, zdb, txidx, world>>

(* A flush that fails, "out of disk space" before it writes anything or    *)
(* in WriteBatchSync, when the dirty set has been emptied already: the     *)
(* node asks for its own shutdown, which flushes again.                    *)
Fault(kind) == kind \in env.faults /\ faults < env.max /\ faults' = faults + 1
FlushFails ==
  /\ \/ pc = "sync" /\ Fault("space") /\ UNCHANGED dirty
     \/ pc = "index" /\ Fault("index") /\ dirty' = {}
  /\ pc' = IF after = "off" THEN "off" ELSE "idle"
  /\ target' = tip
  /\ UNCHANGED <<after, index, file, tip, best, bare, oldTip, cur, indexDb, files,
                 coinsLog, zdb, txidx, env, unclean>>

-----------------------------------------------------------------------------
(* LoadBlockIndexDB.  Without the coins' best block in the index the       *)
(* active chain stays empty and the node cannot go on from these coins.    *)
(* What the files hold without a position in the index is never read.      *)
LoadBlockIndex ==
  /\ pc = "off"
  /\ index' = indexDb /\ dirty' = {}
  /\ file' = [b \in Blocks |-> IF index'[b] = "absent" THEN 0 ELSE file[b]]
  /\ data' = [b \in Blocks |-> IF index'[b] = "absent" THEN "none" ELSE data[b]]
  /\ undo' = [b \in Blocks |-> IF index'[b] = "undo" THEN undo[b] ELSE "none"]
  /\ tip' = coinsDb /\ best' = coinsDb /\ bare' = coinsBare /\ target' = coinsDb
  /\ oldTip' = coinsDb /\ cur' = coinsDb
  /\ pc' = IF indexDb[coinsDb] = "absent" THEN "broken" ELSE "disconnect"
  /\ after' = "broken"
  /\ UNCHANGED <<indexDb, coinsLog, zdb, txidx, world>>

(* The RPC command verifychain runs the same VerifyDB on the live node.    *)
VerifyChain ==
  /\ pc = "idle" /\ target = tip /\ best = tip /\ env.rpc > 0
  /\ pc' = "disconnect" /\ after' = "idle" /\ cur' = tip
  /\ UNCHANGED <<index, file, dirty, tip, best, bare, target, oldTip, indexDb, files, coinsLog,
                 zdb, txidx, world>>

(* VerifyDB, check levels 0 to 3: read the blocks of the window and their  *)
(* undo data and, while the coin caches are not too large, disconnect them *)
(* in a scratch view.  The serials are erased from the database all the    *)
(* same.                                                                   *)
Depth == IF after = "broken" THEN CheckDepth ELSE env.rpc
InWindow(b) == b # Genesis /\ Height(b) + Depth >= Height(tip)
Roomy(b) == Height(b) + env.room >= Height(tip)
Readable(b) == data[b] # "none" /\ (index[b] = "undo" => undo[b] # "none")

(* fClean is false for b, after the blocks above it.                       *)
Mismatch(b) == b \in bare \/ \E c \in Chain \ Anc[b] : b \in LastSpent(c)

VerifyDisconnect ==
  /\ pc = "disconnect" /\ InWindow(cur) /\ Roomy(cur)
  /\ IF Readable(cur) /\ index[cur] = "undo"
     THEN /\ EraseSpends(cur) /\ cur' = Parent[cur]
          /\ unclean' = (unclean \/ Mismatch(cur)) /\ UNCHANGED pc
     ELSE pc' = after /\ UNCHANGED <<zdb, cur, unclean>>
  /\ UNCHANGED <<after, index, file, dirty, tip, best, bare, target, oldTip, indexDb, files,
                 coinsLog, txidx, env, faults>>

(* Faulty: VerifyDB ends with check level 3.                               *)
VerifyTurnLevel3 ==
  /\ pc = "disconnect" /\ (InWindow(cur) /\ Roomy(cur) => after = "idle") /\ pc' = "idle"
  /\ UNCHANGED <<memory, indexDb, files, coinsLog, zdb, txidx, world>>

(* No more blocks are disconnected.  What is left of the window is read,   *)
(* and without a mismatch (pindexFailure) it goes on to check level 4.     *)
(* Beside verifychain there is the cache of a node that has been running:  *)
(* there may be less room.                                                 *)
VerifyTurn ==
  /\ pc = "disconnect" /\ (InWindow(cur) /\ Roomy(cur) => after = "idle")
  /\ pc' = IF /\ \A b \in Anc[cur] : InWindow(b) => Readable(b)
              /\ \A b \in Chain \ Anc[cur] : ~Mismatch(b)
           THEN "reconnect" ELSE after
  /\ UNCHANGED <<memory, indexDb, files, coinsLog, zdb, txidx, world>>

(* ShutdownRequested in that loop: VerifyDB returns, the node shuts down.  *)
VerifyShutdown ==
  /\ pc = "disconnect" /\ cur # tip /\ pc' = "sync" /\ after' = "off"
  /\ UNCHANGED <<index, file, dirty, tip, best, bare, target, oldTip, cur, indexDb, files, coinsLog,
                 zdb, txidx, world>>

(* Check level 4: ConnectBlock for every block up to the tip.              *)
VerifyReconnect ==
  /\ pc = "reconnect" /\ cur # tip
  /\ LET b == Toward(cur, tip)
     IN  IF SpendsAllowed(b, TRUE)
         THEN WriteUndoAndSpends(b) /\ cur' = b /\ pc' = "reconnect2"
         ELSE pc' = after /\ UNCHANGED <<index, dirty, undo, zdb, cur>>
  /\ UNCHANGED <<after, file, tip, best, bare, target, oldTip, indexDb, data, coinsLog, txidx, world>>

VerifyReconnectFinish ==
  /\ pc = "reconnect2" /\ WriteTxIndex(cur) /\ pc' = "reconnect"
  /\ UNCHANGED <<memory, indexDb, files, coinsLog, zdb, world>>

VerifyDone ==
  /\ pc = "reconnect" /\ cur = tip /\ pc' = "idle"
  /\ UNCHANGED <<memory, indexDb, files, coinsLog, zdb, txidx, world>>

-----------------------------------------------------------------------------
(* The process is gone, and with it all that was only in memory.           *)
LoseMemory ==
  /\ pc' = "off" /\ after' = "off" /\ index' = indexDb /\ dirty' = {}
  /\ tip' = Genesis /\ best' = Genesis /\ bare' = {} /\ target' = Genesis
  /\ oldTip' = Genesis /\ cur' = Genesis
  /\ UNCHANGED <<file, indexDb, env, unclean>>

Crash ==
  /\ pc \notin {"off", "broken"} /\ Fault("crash") /\ LoseMemory
  /\ UNCHANGED <<files, coinsLog, zdb, txidx>>

(* What was written to a file or a database and not synced may be on disk  *)
(* or not.                                                                 *)
Survives(cache, lost) == [b \in Blocks |-> IF cache[b] # "cache" THEN cache[b]
                                           ELSE IF b \in lost THEN "none" ELSE "synced"]
Revert(now, synced, lost) == [x \in DOMAIN now |-> IF x \in lost THEN synced[x] ELSE now[x]]
PowerLoss ==
  /\ pc # "broken" /\ Fault("power") /\ LoseMemory
  /\ \E lost \in SUBSET {b \in Blocks : data[b] = "cache"} : data' = Survives(data, lost)
  /\ \E lost \in SUBSET {b \in Blocks : undo[b] = "cache"} : undo' = Survives(undo, lost)
  /\ \E k \in 1 .. Len(coinsLog) : coinsLog' = <<coinsLog[k]>>
  /\ \E lost \in SUBSET {s \in Serials : serDb[s] # serSync[s]} :
        serDb' = Revert(serDb, serSync, lost)
  /\ \E lost \in SUBSET {t \in Txs : txDb[t] # txSync[t]} : txDb' = Revert(txDb, txSync, lost)
  /\ serSync' = serDb' /\ txSync' = txDb'

Next ==
  \/ \E b \in Blocks \ {Genesis} : AcceptBlock(b) \/ ConnectTip(b)
  \/ ActivateBestChain \/ DisconnectTip \/ ConnectTipFinish \/ UpdateTip
  \/ PeriodicFlush \/ Shutdown
  \/ FlushBlockFile \/ WriteBatchSync \/ WriteCoins \/ FlushFails
  \/ LoadBlockIndex \/ VerifyChain
  \/ VerifyDisconnect \/ VerifyTurn \/ VerifyShutdown
  \/ VerifyReconnect \/ VerifyReconnectFinish \/ VerifyDone
  \/ Crash \/ PowerLoss

Spec == Init /\ [][Next]_vars

-----------------------------------------------------------------------------
(* What a restart may find: a file's content counts when it cannot be lost.*)
Durable(x) == IF CanLoseWrites THEN x = "synced" ELSE x # "none"

(* Whatever coins a restart finds, and in every state between two writes,  *)
(* their best block and all its ancestors are in the block index with      *)
(* their data and their undo data, in the database and in the files        *)
(* (FlushStateToDisk writes the files, the index and the coins in this     *)
(* order).                                                                 *)
CoinsBlockStoredAlways ==
  \A k \in 1 .. Len(coinsLog) : \A b \in Anc[coinsLog[k].best] \ {Genesis} :
    indexDb[b] = "undo" /\ Durable(data[b]) /\ Durable(undo[b])

(* The same on a machine on which the write of the block index does not    *)
(* fail, and that may lose power only while there is one block file.       *)
(* FlushStateToDisk empties its dirty sets before that write, so the next  *)
(* flush writes coins for blocks that are not in the index; and it syncs   *)
(* the undo data of the last block file only.                              *)
Reliable ==
  "index" \notin env.faults /\ ("power" \in env.faults => Cardinality(Blocks) <= env.cap)
CoinsBlockStored == Reliable => CoinsBlockStoredAlways

(* On such a machine the node starts again, unless DisconnectBlock has met *)
(* coins without their flag: LoadBlockIndexDB finds the coins' best block, *)
(* and VerifyDB finds every block of its window, with undo data, and can   *)
(* connect those it has disconnected.                                      *)
AlwaysStarts == Reliable /\ ~unclean => pc # "broken"

(* The same without the exceptions: without that for coins that have lost  *)
(* their flag, and without that for the machine.                           *)
StartsUnflagged == Reliable => pc # "broken"
StartsUnreliable == ~unclean => pc # "broken"

(* When the node is up, IsSerialInBlockchain finds every serial spent in   *)
(* the active chain, whatever reorganisation was cut short by a crash and  *)
(* though DisconnectBlock erases serials that the coins on disk still      *)
(* count as spent: VerifyDB writes them again before the node is up.  Not  *)
(* so after an unclean DisconnectBlock: the block stays in the chain, its  *)
(* serials are gone.                                                       *)
SpentSerialsFoundAlways ==
  pc = "idle" /\ best = tip =>
    \A b \in Chain : \A t \in Spends[b] :
      serDb[Serial[t]] = t /\ IsSerialInBlockchain(Serial[t])
SpentSerialsFound == ~unclean => SpentSerialsFoundAlways

(* A serial is spent at most once in the chain the node ends up with, as   *)
(* long as none was erased in that way.                                    *)
NoSerialTwice ==
  ~unclean => \A b, c \in Chain : \A t \in Spends[b], u \in Spends[c] :
    Serial[t] = Serial[u] => b = c /\ t = u

(* A block is refused for its spends only if its own chain spends a serial *)
(* twice: records of spends whose block was disconnected, or never became  *)
(* part of the coins before a crash, are not held against a later block.   *)
RefusedSpendsTwice ==
  \A b \in Blocks : index[b] = "failed" =>
    \E a \in Anc[b] : \E t \in Spends[a], u \in Spends[b] :
      Serial[t] = Serial[u] /\ (a # b \/ t # u)
=============================================================================
