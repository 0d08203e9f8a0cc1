# Verification of the DogeCash node

TLA+ models of the DogeCash daemon (the C++ core under `src/src`, a descendant of Bitcoin Core 0.10, Dash and PIVX),
configurations that check them with TLC, and proofs checked by TLAPS. `PROJECT.json` lists the components, the runs,
the source lines each definition translates, the hazards and the theorems.

## The system and its parts

A node keeps a tree of blocks and follows its best valid chain. Several threads work on it: the message handler, RPC
workers, the staking thread, the masternode thread, the scheduler and the script check threads. One lock, `cs_main`,
protects most of the chain; smaller locks protect the memory pool, the peers and the check queue; the masternode code
has many maps without a lock.

| Part | State | Operations | What is hard about it | Module |
|---|---|---|---|---|
| script check queue (`checkqueue.h`) | queue, counters of idle and busy threads, result | Add, Wait, worker loop | condition variables, copies used after unlock, interruption | `CheckQueue`, `CheckControl` |
| block tree and best chain (`main.cpp`) | index, flags, candidates, unlinked blocks, tip | ProcessNewBlock, ActivateBestChain, invalidate, reconsider, ReprocessBlocks | cs_main is released between steps; data before parents; failed reorganisations | `ChainState` |
| coin views (`coins.cpp`, `txdb.cpp`) | stack of caches with DIRTY and FRESH, database | fetch, modify, flush, restart | flags about the layer below, failing writes, crashes | `CoinsCache`, `CoinsView` |
| block undo data (`undo.h`, `coins.h`, `main.cpp`) | unspent outputs, undo entries | connect and disconnect a block | metadata saved once and restored later | `BlockUndo` |
| memory pool and orphans (`txmempool.cpp`, `main.cpp`) | mapTx, mapNextTx, orphans and their index | accept, remove, reorganise, orphans | reorganisations, recursive removal, RPC without cs_main | `Mempool` |
| SwiftX locks (`swifttx.cpp`) | requests, votes, locks, held inputs | ix, txlvote, clean-up, block filter | votes before requests, conflicts, expiry | `SwiftTx` |
| masternode sync (`masternode-sync.cpp`) | stage, attempts, times, what peers were asked | Process, items, resets | busy locks, sleeping machines, time-outs, RPC | `MasternodeSync` |
| chain state on disk (`main.cpp`, `txdb.cpp`, `init.cpp`) | block and undo files, block index, transaction index, coins, serials | accept, connect, flush, VerifyDB, start, shutdown | several files and databases, one crash or loss of power | `ChainDisk` |
| block download (`main.cpp`) | blocks in flight per peer, sync counters, messages | getblocks, inv, getdata, block, SendMessages, FinalizeNode | two ways of fetching, peers that leave, time-outs | `BlockDownload` |
| HTTP server (`httpserver.cpp`) | work queue, count of workers, requests | callback, Enqueue, Run, start, interrupt, stop | one condition variable for two purposes, late threads | `HttpServer` |
| scheduler (`scheduler.cpp`) | queue of tasks, count of threads | schedule, serviceQueue, stop | waiting for the time of a task that is no longer the first | `Scheduler` |
| threads from start to shutdown (`init.cpp`) | the two above | AppInit2, PrepareShutdown | order of interruption and joining | `Services` |

The parts that stay out are listed in `PROJECT.json` with the reason, and under "What is not modelled".

How the parts meet: ConnectBlock (in `ChainState` one step, `ConnectTip`) runs its script checks through
`CheckQueue`, changes coins through a cache stacked as in `CoinsCache` with the contents described by `BlockUndo`,
and then removes the block's transactions from the pool as in `Mempool`. `SwiftTx` decides which transactions a block
may contain; in `ChainState` its changing answer is the set `conflicting`. Each module takes the guarantee of the one
below as an assumption: `ChainState` treats connecting a block as a verdict, `Mempool` takes the coins as a function of
the chain (property `OutputsFollowChain` of `BlockUndo`), `BlockUndo` takes a map of coins (what `CoinsView` specifies
and `CoinsCache` is proved to implement). `ChainDisk` takes the coins as the name of their block, which is what
`DbDescribesItsBlock` of `CoinsCache` justifies, and asks what of it survives together with the other files. `Services`
composes `HttpServer` and `Scheduler` with the main thread, which starts both and stops one after the other.

## Modules

**CheckQueue** has one action per critical section of the queue's mutex: `Enter`, `Resume` and `Finish` are the ways a
thread gets the mutex in `Loop`, `Construct`, `Add` and `CallWait` the owner's calls. `SpuriousWake`, `InterruptAll`,
`WorkerInterrupted` and `MasterInterrupted` are the environment: boost interrupts every thread of the group at
shutdown. The queue is a set, because any batch may be taken. `CheckControl` is the abstract specification: open, hand
in checks, close with their conjunction. `ImplementsControl` is the refinement, with the mapping
`CheckControl` <- the history of the session.

**ChainState** gives each thread a program counter with the points where the code takes or gives up `cs_main`;
`ActivateBestChain` takes one step per block connected or disconnected. The block tree is constant; what is known of it
varies. Validity is given by constant sets, one for each kind of failure: refused in context, refused when connected,
damaged on disk, no verdict, fork checks. `ChangeVerdict` moves the answer of the payee and lock checks.
Work and arrival order decide as in `CBlockIndexWorkComparator`.

**CoinsCache** is a stack of at most `MaxDepth` caches over the database. `ModifyCoins` and `EndModify` are the two
ends of a `CCoinsModifier`. `BatchWrite`, `FlushTip`, `FlushTipFails` and `Restart` are the database's side. `CoinsAt`
gives the coins of each block; a view may only name a block when it shows that block's coins (`Complete`, which stands
for ConnectBlock and DisconnectBlock). `failed` is a history variable: a write has failed. **CoinsView** is the abstract
specification: a stack of whole maps, in which layers are opened, changed, committed and forgotten; `Crash` drops all
but the database and `Lose` is the failed write, which drops what was changed in the bottom cache but not its best
block.

**BlockUndo** connects and disconnects whole blocks over `CCoins` records, with `Spend` saving the metadata only with
the last output, `CheckInputs` with maturity, and `DisconnectBlock` with its consistency checks.

**Mempool** has `mapTx` and `mapNextTx`, and a `stage` for what the holder of cs_main is in the middle of, since
threads with only `mempool.cs` see the states in between. The "tx" handler's loop over orphans is one step per orphan.
`RpcCheck` and `RpcAdd` are `sendrawtransaction`, which does not take cs_main; they are steps of `RpcSpec` only, since
with them the pool is no longer consistent (finding 1). `unflagged` has the coinstakes whose coins were rebuilt from
undo data by a disconnect and so no longer ask for maturity; a block that created such coins cannot be disconnected
(DisconnectBlock finds a mismatch), which is a guard of `DisconnectBlock`.

**SwiftTx** is one node with the handlers of requests and votes, the expiry and clean-up of locks, and the filters in
the pool and in CheckBlock. `ReprocessBlocks` is part of the request or vote that completes the lock of a
refused request: it disconnects blocks, whose transactions are offered to the pool again, and connects those that the
locks allow.

**MasternodeSync** has `Process` with the loop over peers resolved into one disjunct per way it ends. Times are kept as
what the code tells apart. GetNextAsset reads the stage in the step that calls it and writes the next one in
`GetNextAssetWrites`: no lock protects the stage, so a reset may come in between. Two history variables: `forced`, the
operator has pushed this round on by RPC; `raced`, GetNextAsset wrote over a stage that it had not read.

**ChainDisk** has one program counter, since all of this code holds cs_main, and one action per write: the block file in
`AcceptBlock`, undo data, serials and transaction index in `ConnectBlock`, and the four writes of a flush (files, index,
coins). What is written but not synced is told apart from what is synced; `PowerLoss` loses any of the former that
LevelDB and the file system may lose, `Crash` only the memory. `LoadBlockIndex` and `VerifyDB` start the node from what
is left: VerifyDB reads the blocks of its window, disconnects them as long as its cache has room, reports coins that do
not match, and connects them again. The coins mismatch where a disconnect built a coinstake's coins from undo data
without their flag (`bare` in memory and with each batch on disk); `unclean` is a history variable: DisconnectBlock has
met such coins, and has erased the block's serials although the block stays. A machine (`Envs`) says how many blocks
fit in a file, how many VerifyDB has room for, which blocks spend which coinstake's last output, and which faults may
happen.

**BlockDownload** has the node and its peers exchanging messages over ordered connections. The peers run the same
program, so their handlers of `getblocks` and `getdata` and their inventory queue are actions as well, over chains
that do not change. `SendMessages` is one step, as in the code: it starts the sync, gives up a stalling or timed-out
peer, and requests blocks; time-outs happen when no message is on its way (`Quiet`).

**HttpServer** gives the event thread, each worker and the main thread a program counter with one step per critical
section of the queue's mutex. `unsent`, `received` and the replies follow each request through callback, queue,
worker, full queue and destructor. `late` is a history variable: the workers that had been created but had not entered
Run when WaitExit found no thread counted, and with which nothing keeps the queue alive. **Scheduler** is serviceQueue with one step per critical section; tasks are
entries with a time, and the clock stops at `MaxTime` and advances only while a task lies ahead. **Services** joins
them to the main thread: the node with one service thread, or the scheduler's unit test with several and `stop`.

Every `MC` module gives its component's constants small values. Operators with the comment "Faulty" are not part of a
specification: each is a plausible mistake in the definition that follows it, and replacing the definition by it
violates the property named in `PROJECT.json`.

## Runs

Each run is `tlc -config <cfg> <module>`; `PROJECT.json` has the exact properties.

| Run | Configuration | Shows |
|---|---|---|
| `checkqueue` | `MCCheckQueue.cfg` | for any number of sessions the answer is the conjunction of the session's checks, no check is held afterwards, the queue implements `CheckControl`, and every Wait() returns |
| `chain_race` | `MCChainRace.cfg` | two threads on two branches, an invalid block and invalidations: the active chain stays usable, the internal assertions hold, the tip is best when all is quiet, and ActivateBestChain returns |
| `chain_ops` | `MCChainOps.cfg` | one thread with every operation and every kind of failure: the index agrees with itself |
| `coins` | `MCCoinsCache.cfg` | flags mean what `coins.h` says, the database describes its block until a write fails, and the stack implements whole maps |
| `undo` | `MCBlockUndo.cfg` | unspent outputs are exactly those of the active chain, and no coinbase is spent too early |
| `mempool` | `MCMempool.cfg` | through blocks, conflicts, reorganisations and orphans, the assertions of CTxMemPool::check hold, ordinary transactions of disconnected blocks come back, the orphan index is exact and bounded, and an accepted transaction resolves the orphans that waited for it |
| `swifttx` | `MCSwiftTx.cfg` | votes count once; while a transaction holds its inputs no rival of it enters the pool or the chain, not even from a block that ReprocessBlocks undoes; locks go away |
| `mnsync` | `MCMasternodeSync.cfg` | stages come in order and an enforcing node is synced only with data, unless GetNextAsset writes over a reset; a failed sync is retried |
| `disk` | `MCChainDisk.cfg` | whatever is killed or lost between two writes (power only with one block file, no failed write of the index), the coins name a block that is stored with its chain; until DisconnectBlock meets coins without their coinstake flag the node starts again and knows the serials of its chain, and none is spent twice; and no block is refused for a serial that its chain has not spent |
| `download` | `MCBlockDownload.cfg` | blocks in flight, the lists of the peers and the sync counters agree while peers leave and return, and the node ends with the best chain on offer |
| `services` | `MCServices.cfg` | every request gets at most one reply, tasks run on time and are not forgotten, the work queue is deleted after every worker that WaitExit could count has left, and a shutdown at any moment ends with every request answered, unless a thread that WaitExit could not count is left with the deleted queue |
| `mempool_rpc` | `MCMempoolRpc.cfg` | violated: the pool has a transaction whose input is spent (finding 1) |

### Bounds

- `checkqueue`: two workers, four checks, one of them failing, batches of at most two, one interruptible master. Two
  workers are the least with which one finishes while another holds a batch; four checks make two batches, so that the
  master can meet an empty queue with work outstanding. Sessions are not bounded.
- `chain_race`: genesis and two branches of two, the second overtaking and ending in an invalid block, two threads.
  `chain_ops`: one thread, six blocks, each kind of failure on a different block. `nBlocks = 0` disconnects one block in
  ReprocessBlocks.
- `coins`: two caches over the database (the tip and ConnectBlock's view), two transactions, three blocks between which
  coins appear and vanish, so that an entry is created, pruned and recreated across layers.
- `undo`: `MaxHeight` blocks out of eleven, with a block that spends its own outputs, transactions that come in one block
  or in another, and a coinstake whose last output is spent; the maturity is small so that it can be missed and reached.
- `mempool`: nine transactions with a chain, two conflicts, a coinstake with two outputs spent by two transactions, so that
  a disconnect rebuilds its coins and a spend can become immature, an orphan with two parents and one with an invalid script; two peers, an orphan map of two, heights up to `MaxHeight`. Zerocoin
  spends are left to the further configurations, because they break what the run checks.
- `swifttx`: two conflicting transactions, one with a second input, two masternodes, one vote required; the node is one
  of the two masternodes.
- `mnsync`: two peers, one too old for masternode data, `Threshold = 1`.
- `disk`: two branches of three and two blocks, a spend that is in both, a serial spent by a different transaction in
  each, and a block that spends a serial again. Six machines: two crashes or full disks with two blocks to a file and a
  cache that is full after one block; one loss of power with one file, and one with several; one crash during verifychain, and
  one with a coinstake whose last output the next block spends; one failed write of the index. `CheckDepth = 1`, so that
  blocks lie deeper than the start looks (the defaults are 10 for the start and 288 for verifychain); `MaxLog = 2`
  batches of coins that a loss of power may take back.
- `download`: a chain of six blocks in batches of two, so that two further getblocks are needed, with a window and a
  limit per peer of two; a branch of three blocks that AcceptBlock may refuse; two peers, of which each may leave once.
- `services`: two workers and a queue of one, the least with which the queue is full while both are busy or one sleeps;
  two requests; one service thread for the node and up to two for the test; a task that repeats and one that does not.

### Fairness

- `CheckQueue`: a thread that wants the mutex gets it, and a batch ends. Workers need not start; new sessions need not
  come.
- `ChainState` (`LiveSpec`): a call that has begun goes on. ActivateBestChain polls cs_main with TRY_LOCK; the property
  therefore assumes that new requests stop competing for it.
- `SwiftTx` (`FairSpec`): hours pass and the masternode thread cleans up every minute, which it does while the chain is
  synced.
- `MasternodeSync` (`SyncFairSpec`): the masternode thread calls Process every second and does not find cs_vNodes taken for
  ever; a GetNextAsset that has begun ends; minutes pass. `TimeoutSpec` adds that stages become overdue and items stop coming.
- `BlockDownload` (`Spec`): the message handler calls SendMessages for every peer again and again, messages in a
  connection are handled, a dropped peer is finalised, and a peer that may connect does. Peers need not leave.
- `Services` (`FairSpec`): threads that can run do; the clock ticks; the node that has been told to stop goes on to
  stop its threads. No request need come and no shutdown need begin.

Deadlock is checked everywhere except where the system may really stop: `SwiftTx`, `BlockDownload` and `ChainDisk` when
nothing more arrives, `Services` after the shutdown, and the violated configurations that look for a state only.

## Findings

1. `sendrawtransaction` calls AcceptToMemoryPool without cs_main (`rpc/rawtransaction.cpp:870`); a block connected
   between its checks and its addition leaves a transaction with spent inputs in the pool (run `mempool_rpc`).

### Further configurations

These instances ask questions that the runs above do not. All but the first are violated: they show where the code does
not do what a comment, an assertion or a document says. They are run in the same way; a configuration marked * is that
of a run or of another row, with this property in place of its own.

| Configuration | Property | What it shows |
|---|---|---|
| `MCChainIndex.cfg` | `CandidatesExact`, `IndexConsistent` | With one thread and no reconsideration, CheckBlockIndex's assertions on setBlockIndexCandidates, mapBlocksUnlinked and nChainTx hold on a tree of seven blocks, with data arriving before its parent's. |
| `MCBlockUndo.cfg` * | `CoinstakeSpendsMature` | DisconnectBlock restores `fCoinBase`, `nHeight` and `nVersion` of a fully spent transaction but not `fCoinStake`: a restored coinstake can be spent before it is mature. It takes a coinstake of which every output has been spent, the empty first one included. (`main.cpp:2694`) |
| `MCCoinsCache.cfg` * | `DbSurvivesFailure` | `CCoinsViewDB::BatchWrite` empties the cache's map before the write that may throw; the hash of the best block stays in the cache, and the flush at shutdown writes it without the coins. (`txdb.cpp:68`) |
| `MCChainDiskDeepVerify.cfg` | `SpentSerialsFound` | A verifychain deeper than -checkblocks that a shutdown cuts short has erased serials that the next start does not write again. (`main.cpp:5406`) |
| `MCChainDiskManyFiles.cfg` | `StartsUnreliable` | Undo data of a block in an older file is not synced before the index that points to it; after a loss of power the node does not start. (`main.cpp:3454`) |
| `MCChainDisk.cfg` * | `CoinsBlockStoredAlways` | After a failed write of the block index, whose dirty sets are already empty, the shutdown writes coins for blocks that the index does not have. (`main.cpp:3468`) |
| `MCChainDisk.cfg` * | `StartsUnflagged` | A disconnect restores a fully spent coinstake without its flag; the start's VerifyDB finds that its coins do not match the block, and the node does not start. (`main.cpp:5419`) |
| `MCChainDisk.cfg` * | `SpentSerialsFoundAlways` | DisconnectBlock erases the serials before it finds the mismatch; the disconnect is given up and the block stays in the chain without them. (`main.cpp:2625`) |
| `MCBlockDownloadAlone.cfg` | `SyncsToRequested` | With a single peer and a chain of more than one batch the end of the chain is not fetched: the tip is dropped when it arrives early, and getblocks leaves out its stop block. (`main.cpp:6682`) |
| `MCBlockDownload.cfg` * | `ValidatedHeadersCounted` | FinalizeNode drops a peer's blocks in flight without lowering nQueuedValidatedHeaders, from which time-outs are computed. (`main.cpp:403`) |
| `MCServices.cfg` * with `StartMayFail = TRUE` | `StopsUnstarted` | When AppInitServers fails after InitHTTPServer, StopHTTPServer joins a thread that was never started, and the exception ends the shutdown. (`httpserver.cpp:496`) |
| `MCServices.cfg` * | `QueueUnusedWhenDeleted` | WaitExit counts only workers that have entered Run: a late worker, or a callback about to enqueue, meets a deleted queue. (`httpserver.cpp:153`) |
| `MCServices.cfg` * | `OnTime` | Two service threads wait for the same first task; one takes it and the other runs the next task before its time. (`scheduler.cpp:71`) |
| `MCChainRace.cfg` * | `CandidatesExact` | A failed reorganisation releases cs_main on a worse tip; another thread's CheckBlockIndex then finds valid blocks as good as the tip that are not candidates. (`main.cpp:3896`) |
| `MCChainReconsiderFlags.cfg` | `FailedHasCause` | Reconsidering one child of an invalidated block clears the parent's flag and leaves the other child marked failed with no failed ancestor. (`main.cpp:4067`) |
| `MCChainReconsiderStuck.cfg` | `BestChainWhenQuiet` | ReconsiderBlock clears the flags of ancestors without making them candidates: the node stays on a worse chain although a better one is no longer marked invalid. (`main.cpp:4067`) |
| `MCChainReprocessStuck.cfg` | `BestChainWhenQuiet` | ReprocessBlocks lowers the tip without restoring the pruned candidates: when the old tip is refused now, the node stays below another valid branch. (`main.cpp:3670`) |
| `MCChainDamagedDisk.cfg` | `ActivationReturns` | A stored block that fails CheckBlock with fCorruptionPossible is neither marked nor removed, and ActivateBestChain tries it for ever. (`main.cpp:3892`) |
| `MCChainRejectedDropped.cfg` | `RejectedAreStored` | A block refused on arrival for its payee or a transaction lock is remembered in mapRejectedBlocks but not stored, so it cannot be reconsidered. (`main.cpp:5072`) |
| `MCSwiftTx.cfg` * | `HeldByCompleteLock` | A request that the memory pool refuses holds its inputs against blocks without a single vote. (`swifttx.cpp:108`) |
| `MCSwiftTx.cfg` * | `CancelsCompleteLocks` | A complete lock is cancelled by a refused request that has no complete lock. (`swifttx.cpp:410`) |
| `MCSwiftNotify.cfg` | `CompleteIsNotified` | When more votes than required precede the request, the lock is complete and nobody is notified. (`swifttx.cpp:93`) |
| `MCSwiftTx.cfg` * | `InputsReleased` | The inputs of a refused request are never released. (`swifttx.cpp:450`) |
| `MCMasternodeSyncStuck.cfg` | `StagesEnd` | When every connected peer has been asked, the timeout is not looked at any more and the stage waits for ever. (`masternode-sync.cpp:328`) |
| `MCBlockUndo.cfg` * | `DisconnectsCleanly` | A block this node connected cannot be disconnected any more. (`main.cpp:2674`) |
| `MCMempool.cfg` * | `UnlockedViewConsistent` | In the middle of DisconnectTip a thread that takes only mempool.cs sees half of a block's transactions. (`main.cpp:3558`) |
| `MCMempool.cfg` * | `StakeSpendsMature` | The pool takes, and removeCoinbaseSpends leaves there, a spend of an immature coinstake whose coins a disconnect has rebuilt without the flag. (`main.cpp:2694`) |
| `MCMempoolFinal.cfg` | `FinalInNextBlock` | After a block is disconnected the pool keeps a transaction whose lock height is beyond the next block. (`main.cpp:3566`) |
| `MCMempoolZerocoin.cfg` * | `SerialsUnspent` | A block that spends a zerocoin serial leaves another spend of the serial in the pool. (`txmempool.cpp:500`) |
| `MCMempoolZerocoin.cfg` | `CoinsFound` | With a zerocoin spend in the pool the assertion of removeCoinbaseSpends fails at the next reorganisation. (`txmempool.cpp:481`) |
| `MCMempoolZerocoin.cfg` * | `ReAdded` | A zerocoin spend of a disconnected block does not come back into the pool. (`main.cpp:3563`) |

## What is proved

TLAPS checks the theorems of eight modules for every value of the constants: any tree of blocks, any number of
threads, workers, checks, caches, transactions, coins, masternodes, peers, requests and tasks, any limits. Each rests on
an inductive invariant, which TLC finds true on the instances above, and has one lemma for each action.

**ConnectBlock_proofs** has the two halves of ConnectBlock, the script checks and the coins.

Of `CheckQueue`: `ConstructorAssertion`, `AnswerCorrect`, `ChecksReleased` and `Refinement`, from finite sets of
workers and checks and a positive batch size. The properties are not inductive: an answer is right only because
nothing is outstanding when the master returns. `IInv` adds the ledger (nTodo is the number of checks queued or held, and
none is in two places), that fAllOk is false only if the session has a bad check and true only if no accounted check is bad, that exactly
the executing threads hold a batch, and the counts nTotal = nIdle + executing and nIdle >= asleep. The last is an
inequality because an interrupted thread leaves its count behind. A critical section of Loop does its clean-up and then
takes work, waits or returns; `Mid` is the state in between, so that each half is proved once.

Of `BlockUndo`: `OutputsAlwaysFollow`, `CoinbasesAlwaysMature` and `UndoTypeCorrect`, for any transactions, blocks and
maturity. The assumptions are what the checks before ConnectBlock guarantee: a transaction that is not a coinbase has
inputs, no two of them the same (CheckTransaction), and only the first transaction of a block is a coinbase
(CheckBlock). `OutputsFollowChain` alone is not kept by DisconnectTip, which trusts the undo data. `UndoInv` says that
there is a height for each transaction such that the coins are those of the chain (`View`), that no transaction
is mined twice (`Fits`), that what each input spent was there, unspent and mature at its height (`Spendable`), and that
each undo entry with a height holds the height and the coinbase flag of its transaction (`Entry`). Nothing is said of an entry without a height, nor of the coinstake flag, which DisconnectBlock does not
restore; neither is needed. That no transaction is mined twice follows from the heights in coinbases (`FreshCoinbase`)
and from the inputs of all others; the check of BIP30 is not used. The loops over inputs and over
transactions are proved one turn at a time (`SpendView`, `UpdateFacts`, `ApplyFacts`, `ApplyBlockFacts` forwards,
`RestoreView`, `UndoTxFacts`, `DisconnectedFacts` backwards). DisconnectTip steps only when DisconnectBlock finds no
problem; that it always finds none is false (`DisconnectsCleanly`, among the further configurations).

**ChainState_proofs.** `ActiveChainAlwaysUsable`, `TargetAlwaysCandidate` and `IndexAlwaysConsistent`, from the shape of
the tree and positive work, with every operation; `BestChainOnceQuiet` and `FailedAlwaysHasCause` under `Calm`. `IInv`
is the shared state (`SharedOK`) and what each thread may rely on at each program counter (`LocalOK`): cs_main is its
own where the code holds it, its locals are set where they are used, and the target of a reorganisation stays a
candidate. `NewlyLinkedExact` is the lemma about
ReceivedBlockTransactions' queue: it links exactly the blocks whose ancestors are now complete. There is one lemma per
action, over lemmas for what other threads keep (`OthersOK`) and for lowering the tip (`TipDown`).

`BestChainWhenQuiet` is false in general: three of the further configurations break it, by ReconsiderBlock, by
ReprocessBlocks and by verdicts that change. `Calm` leaves these out, and blocks without a verdict and fork checks with
them; what is left are blocks and headers in any order from any number of threads, invalid blocks, and invalidateblock.
`QInv` adds to `IInv` that every usable block is a candidate or worse than a candidate or tip that ConnectBlock has
accepted and that nothing can take back (`Covered`), and that as long as the tip is not the best of the usable blocks
some thread is still on its way to change it. The first part is what PruneBlockIndexCandidates must not destroy; the
second is why a thread may leave ActivateBestChain although another has moved the tip since.

**CoinsCache_proofs.** `FlagsAlwaysRight`, `AssertionAlwaysHolds`, `DbAlwaysDescribesItsBlock` and
`StackImplementsView`. `FInv` is types, flags and the absence of gaps between layers; it is inductive without
assumptions on what is stored. The lemmas on `Source` and `Read` say how a read through the stack changes when one layer
does (`ReadStep`, `ReadFrame`), so that fetching is shown to change no view (`FetchedReads`) and a flush to move one
(`MergedIs`). `DInv` adds, until a write fails, that the lowest cache shows the coins of the block it names. The refinement maps
each step to a step of `CoinsView` or a stutter, with one lemma per step.

**Services_proofs.** `EveryRequestAnsweredOrHeld`, `QueueOutlivesWorkers`,
`TasksOnTime` and `SchedulerAssertionHolds`. `HttpInv` says of each request where it is (not received, with the
callback, in the queue once, with one worker, answered), and of the workers that numThreads is the number of them
between `Count` and `Uncount`; from the latter it follows that every worker is gone when WaitExit returns, but for those that
had not entered Run (`late`). Of these it says that the queue has been told to stop before they enter, so that they take nothing and do
not wait. That there are none is not true (`QueueUnusedWhenDeleted`, among the further configurations).
`SchedulerInv` says that a single thread that waits for a time, or is about to take, waits for a time no later than that
of the first task, and that nThreadsServicingQueue counts the threads inside. Each invariant is proved inductive for its
component; `StepOfEach` shows that a step of the composition is a step, or a stutter, of each.

**Masternodes_proofs** has the theorems of two components.

Of `SwiftTx`: `VotesCountedOnce` and `LockedOutRivals`, from the inputs of each
transaction and a marker that is no transaction. `CountedOnce` is not inductive: HandleVote looks at mapTxLockVote and not at the lock.
`LocksOK` adds that every vote in a lock is still remembered there, which holds because the clean-up forgets a vote only
together with its lock (`CleanOK`). For the rivals the argument is that each step that adds to the pool or the chain looks at the
holders of the inputs, before it or after it (`Entrance`), and a rival has an input whose holder is the transaction.

Of `MasternodeSync`: `SyncedAlwaysHasData` and `StagesAlwaysInOrder`, from a positive threshold, with the exceptions for a
stage that GetNextAsset wrote without having read it. `Gathered` extends
`SyncedHasData` from the last stage to all: an item of the list once that stage is over, one of the winners once theirs is.
`LoopStart` says from which stage a call of Process enters the loop over the peers (the one before, the sporks, or the beginning), and
`Loop` what each way out of it does to the stage.

**Mempool_proofs.** `PoolAlwaysChecked` and `OrphansAlwaysIndexed`, from finitely many transactions, spends that name
existing outputs, and a first chain whose blocks connect. They hold for any coinstakes, with the maturity that the coins
still ask for after any of them has lost its flag. `PoolChecked` says nothing of the states in the middle of
ConnectTip and DisconnectTip, which is where it could break. `PoolInv` therefore has a clause for each stage: while the
transactions of a disconnected block come back one by one, an input of the pool may also be an output of one that has
yet to come (`Disconnecting`); while the pool is to hear of a new block, it still fits the coins before that block
(`Connecting`). The lemmas on removal say what is left when a transaction goes with its descendants
(`RemoveRecursiveOK`), and `RemoveForBlockOK` follows removeForBlock through the block. The theorems are about `Spec`,
in which every thread holds cs_main; run `mempool_rpc` shows that they fail with `RpcSpec`.

**ChainDisk_proofs.** `CoinsAlwaysStored`, `NodeAlwaysStarts`, `SerialsAlwaysFound`, `SerialNeverTwice` and
`OnlyTwiceRefused`, for machines on which the process may be killed between any two writes and the disk may be full,
any number of times (`KilledOnly`), and on which verifychain looks no deeper than the start; any blocks may spend any
coinstakes, and VerifyDB may have any room. Beyond these assumptions some of them are false (see the configurations of
`MCChainDisk` above), and what holds after a loss of power depends on which file is synced when; the run `disk` checks
it on its instance. That no block spends a serial twice by itself is CheckBlock's part and an assumption here.

The proof has two invariants. `StoreInv` is about the files, the index and the coins: an index entry on disk has its
data and undo data, the chain of the coins has undo data in the index on disk and, while the node is up, in the one in
memory (`Linked`), and the coins on disk belong to a block of the chain in memory. It always holds, and gives
`CoinsAlwaysStored` and `OnlyTwiceRefused`. `DiskInv` adds the serials and holds until `unclean`: the transaction index
names the right block for each spend of the chain (`Located`), no serial is spent twice in it (`Once`), and the serials that are missing are those
of the last blocks, no more than the next VerifyDB disconnects and connects again: `CheckDepth`, or as many as its cache has room
for (`Partial`, `Back`). The last clause is the reason why a crash in the middle of VerifyDB or of a reorganisation does no
harm. It gives the other three; that VerifyDB itself has met no mismatch on its way down (`Matching`) is why it goes on to
connect.

**BlockDownload_proofs.** `FlightAlwaysAgrees`, `SyncAlwaysCounted` and `CommonAlwaysStored`, for any block tree in which
every block has finitely many ancestors. `BInv` adds to the two views of the blocks in flight that the index, and the part of
it with data, are closed under ancestors, that the best block of each peer is in the index and its last common block
has data, and that nothing is left of a peer that has gone. `FlightAgrees` needs the first two of these: a request is
entered without a look at the list it goes to, and is not there already only because the path from the last common
block has every block once and the ones in flight are left out. `CommonStored` needs
them because AcceptBlock enters headers of blocks that it then refuses. `SyncingStep` shows that nSyncStarted moves by one exactly when the set of peers with fSyncStarted does.

What recursive functions compute (the walk over inventories, requests, a block's transactions and their inputs, and the
paths of the tree) is proved by induction over the set of numbers for which a claim holds, which has a least missing element
otherwise (`InductionUpTo`, from `LeastNumbers`).

## What is only model-checked

- Liveness (`WaitReturns`, `ActivationReturns`, `LocksGoAway`, `FailedIsRetried`, `SyncCompletes`, `RequestsAnswered`,
  `TasksRun`, `ShutdownEnds`): TLAPS 1.4.5 does not do fairness or ENABLED.
- `ReAdded` and `OrphansResolved` of `Mempool`. They say of a loop that nothing it has left out would be accepted when it
  ends; that needs, for each turn, what the later ones may still make acceptable.
- What a loss of power leaves in `ChainDisk`, and what is true of `ChainState` with reconsiderblock, ReprocessBlocks or changing verdicts
  beyond the three theorems with every operation.

## What is not modelled

Data races on unlocked maps as such (a handler is one step, or split where the code releases a lock); failing
allocations; the bytes of messages and files; values, fees and scripts beyond the sets that say who accepts what. Inside
the modelled parts: fork warnings and notifications of the chain, the serialisation of `CCoins`, the fee estimator and
priorities of the pool, IsIXTXValid and the relaying of unknown votes in SwiftX, the displayed counters of the sync,
-reindex and -loadblock, the block-spam filter and header download (which the code has switched off), the parsing of
HTTP requests.

Whole parts that are left out, and why:

- *Sporks, masternode list, active masternode, payments, budget.* These maps are read and written mostly without locks,
  ranked by hash scores over the masternode list, and change meaning over tens of thousands of blocks; a small instance
  would keep none of the ranking. What other parts see of them is a choice in `ChainState` (`Disputed` blocks) and
  `MasternodeSync` (items that come or not). Three places in them deserve a test of their own: ProcessSpork compares
  signing times, gives up the lock and then writes (`spork.cpp:113`); CheckAndRemove erases a broadcast with `it3++`
  and then reads the next one through the iterator (`masternodeman.cpp:323`); and a budget with exactly five per cent of the votes is treated in two
  ways (`masternode-budget.cpp:653` and `:689`).
- *Wallet, zerocoin wallet, key storage.* They follow notifications of chain and pool and are as large as all the modelled
  parts together; their persistence is Berkeley DB.
- *Address manager and peer objects.* Sequential tables under one lock, placed by hashes; reference counts that need every
  caller.
- *Kernel, difficulty and subsidy, script evaluation, cryptography, accumulators, bloom filters.* Arithmetic on
  256-bit and larger numbers and pure evaluation of byte strings, which small instances do not represent.
- *Sockets, Tor, ZMQ, RPC dispatch, user interface, tools.* Input, output, parsing and presentation.
