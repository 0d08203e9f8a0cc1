------------------------------- MODULE Mempool -------------------------------
(***************************************************************************)
(* The memory pool (txmempool.cpp) with everything that changes it:        *)
(* AcceptToMemoryPool, the "tx" message with its orphan transactions,      *)
(* ConnectTip, DisconnectTip and CreateNewBlock (main.cpp, miner.cpp).     *)
(*                                                                         *)
(* All of these hold cs_main, so none runs while another does.  What lies  *)
(* between two of their critical sections under mempool.cs is a state of   *)
(* its own, which a thread that takes only mempool.cs can see.  The RPC    *)
(* sendrawtransaction does not take cs_main: its checks and its addition   *)
(* to the pool are two steps that anything may come between.               *)
(*                                                                         *)
(* The coins are those of the blocks whose effects pcoinsTip holds: module *)
(* BlockUndo shows that.  SwiftX locks are in module SwiftTx.              *)
(***************************************************************************)
EXTENDS Naturals, Sequences, FiniteSets

CONSTANTS
    Txs, Peers,
    Outs,        \* [Txs -> number of outputs]
    Spends,      \* [Txs -> set of outpoints <<transaction, position>>]
    Minted,      \* coinbases and coinstakes
    CoinStake,   \* those of them that are coinstakes; output 0 is an empty marker
    Zerocoin,    \* zerocoin spends: they have a serial and no outpoint
    Serial,      \* [Zerocoin -> serial number]
    LockTime,    \* [Txs -> height the block of the transaction must exceed]
    Standard,    \* what IsStandardTx, the fee rules and AreInputsStandard accept
    Bad,         \* transactions with an invalid script
    Large,       \* transactions of more than 5000 bytes
    RpcTxs,      \* those submitted with sendrawtransaction
    Genesis,     \* the blocks of the chain at the start
    Blocks,      \* the blocks that may arrive
    Maturity,    \* Params().COINBASE_MATURITY()
    MaxOrphans,  \* -maxorphantx
    MaxHeight,   \* bound: no block is connected above this height
    NoTx, NoPeer

Front(s) == [i \in 1 .. Len(s) - 1 |-> s[i]]
Last(s) == s[Len(s)]
TxsOf(b) == {b[i] : i \in DOMAIN b}

Outpoints == UNION {{<<t, n>> : n \in 0 .. Outs[t] - 1} : t \in Txs}

VARIABLES
    chain,      \* the blocks pcoinsTip describes
    unflagged,  \* coinstakes whose coins have lost fCoinStake
    stage,      \* what the holder of cs_main is in the middle of
    block,      \* ... the block it is connecting or disconnecting
    at,         \* ... and the next transaction of it to resurrect
    pool,       \* [tx |-> mapTx, next |-> mapNextTx]
    orphans,    \* mapOrphanTransactions: the peer each one came from
    byPrev,     \* mapOrphanTransactionsByPrev
    loop,       \* the locals of the loop over orphans in the "tx" handler
    rpc         \* the transaction sendrawtransaction is about to add

vars == <<chain, unflagged, stage, block, at, pool, orphans, byPrev, loop, rpc>>

NoLoop == [work |-> <<>>, i |-> 0, left |-> {}, erase |-> {}, misbehaving |-> {}]

Parents(t) == {out[1] : out \in Spends[t]}

-----------------------------------------------------------------------------
(* The coins of a chain c, and those of the transactions S of a chain *)

InChain(c) == UNION {TxsOf(c[h]) : h \in DOMAIN c}

Unspent(S, out) == out[1] \in S /\ \A t \in S : out \notin Spends[t]

HaveCoins(S, t) == \E n \in 0 .. Outs[t] - 1 : Unspent(S, <<t, n>>)

\* Whether a block on top of c may spend from p.  The check is for coins that say
\* they are of a coinbase or coinstake; those of the coinstakes in lost do not.
Mature(c, lost, p) ==
    p \in Minted \ lost =>
       \A h \in DOMAIN c : p \in TxsOf(c[h]) => Len(c) + 1 - h >= Maturity

SerialSpent(S, t) == \E u \in S \cap Zerocoin : Serial[u] = Serial[t]

IsFinalTx(t, height) == LockTime[t] < height

\* chainActive, which UpdateTip changes after pcoinsTip
Active ==
    CASE stage = "connect"    -> Front(chain)
      [] stage = "disconnect" -> Append(chain, block)
      [] OTHER                -> chain

\* What a transaction of c spends is in c, in no later block
Connected(c) ==
    \A h \in DOMAIN c : \A t \in TxsOf(c[h]) : \A p \in Parents(t) :
       \E g \in 1 .. h : p \in TxsOf(c[g])

\* CheckTransaction: only a zerocoin spend or a new coin has no outpoint
ASSUME ConstantsAssumption ==
    /\ NoTx \notin Txs /\ NoPeer \notin Peers /\ IsFiniteSet(Txs)
    /\ Outs \in [Txs -> Nat \ {0}]
    /\ Spends \in [Txs -> SUBSET Outpoints]
    /\ LockTime \in [Txs -> Nat]
    /\ \A t \in Zerocoin : Spends[t] = {}
    /\ \A t \in Txs \ (Minted \cup Zerocoin) : Spends[t] # {}
    /\ Genesis \in Seq(Seq(Txs)) /\ Connected(Genesis)
    /\ \A b \in Blocks : b \in Seq(Txs)
    /\ CoinStake \subseteq Minted
    /\ Maturity \in Nat /\ MaxOrphans \in Nat /\ MaxHeight \in Nat

-----------------------------------------------------------------------------
(* Removal *)

\* The transactions of the pool that spend an output of one in S
Spenders(m, S) == {m.next[out] : out \in {o \in Outpoints : o[1] \in S}} \ {NoTx}

\* S and everything in the pool that depends on it
WithDescendants(m, S) ==
    S \cup {t \in m.tx : \A D \in SUBSET m.tx : Spenders(m, S \cup D) \subseteq D => t \in D}

\* The members of S taken out of mapTx, and their inputs out of mapNextTx
Without(m, S) ==
    LET gone == S \cap m.tx
    IN  [tx   |-> m.tx \ gone,
         next |-> [out \in Outpoints |->
                     IF \E t \in gone : out \in Spends[t] THEN NoTx ELSE m.next[out]]]

\* remove(tx, removed, true): a transaction that is not in the pool may still
\* have children there
RemoveRecursive(m, S) == Without(m, WithDescendants(m, S))

RemoveConflicts(m, t) ==
    RemoveRecursive(m, {m.next[out] : out \in Spends[t]} \ {NoTx, t})

\* removeForBlock: every transaction of the block leaves the pool without its
\* children, and everything that conflicts with it leaves with its children
RemoveForBlock(m, b) ==
    LET after[i \in 0 .. Len(b)] ==
          IF i = 0 THEN m ELSE RemoveConflicts(Without(after[i - 1], {b[i]}), b[i])
    IN  after[Len(b)]

\* The pool transactions removeCoinbaseSpends throws out: those with an input
\* that is neither in the pool nor in the coins, and those that spend a coinbase
\* or coinstake too early.  The input of a zerocoin spend is null, so its coins
\* are never found.
CoinbaseSpends(m, c, lost) ==
    {t \in m.tx :
       \/ t \in Zerocoin
       \/ \E p \in Parents(t) \ m.tx : ~HaveCoins(InChain(c), p) \/ ~Mature(c, lost, p)}

-----------------------------------------------------------------------------
(* AcceptToMemoryPool *)

\* The checks before the coins are looked at: not a coinbase or coinstake, final
\* in the block after the tip of chainActive, standard, not yet in the pool, and
\* no input spent by a transaction of the pool
Candidate(t) ==
    /\ t \notin Minted
    /\ IsFinalTx(t, Len(Active) + 1)
    /\ t \in Standard
    /\ t \notin pool.tx
    /\ \A out \in Spends[t] : pool.next[out] = NoTx

\* HaveCoins of CCoinsViewMemPool on top of pcoinsTip
Have(t) == t \in pool.tx \/ HaveCoins(InChain(chain), t)

MissingInputs(t) ==
    /\ Candidate(t)
    /\ t \notin Zerocoin
    /\ ~Have(t)
    /\ \E p \in Parents(t) : ~Have(p)

\* HaveInputs, and CheckInputs up to the scripts
InputsOK(t) ==
    \A out \in Spends[t] :
       out[1] \in pool.tx \/ (Unspent(InChain(chain), out) /\ Mature(chain, unflagged, out[1]))

\* The transaction is rejected for its script, and its sender is punished
Invalid(t) ==
    /\ Candidate(t) /\ t \notin Zerocoin /\ ~Have(t)
    /\ InputsOK(t)
    /\ t \in Bad

Accepted(t) ==
    /\ Candidate(t)
    /\ t \notin Bad
    /\ IF t \in Zerocoin
       THEN t \notin InChain(Active) /\ ~SerialSpent(InChain(chain), t)
       ELSE ~Have(t) /\ InputsOK(t)

\* addUnchecked: a zerocoin spend leaves mapNextTx alone
AddUnchecked(m, t) ==
    [tx   |-> m.tx \cup {t},
     next |-> [out \in Outpoints |-> IF out \in Spends[t] THEN t ELSE m.next[out]]]

-----------------------------------------------------------------------------
(* Orphan transactions *)

Orphans == {t \in Txs : orphans[t] # NoPeer}

\* EraseOrphanTx that forgets the index
EraseOrphanOnly(o, b, S) ==
    [orphans |-> [t \in Txs |-> IF t \in S THEN NoPeer ELSE o[t]], byPrev |-> b]

\* EraseOrphanTx of every member of S
EraseOrphanTxs(o, b, S) ==
    [orphans |-> [t \in Txs |-> IF t \in S THEN NoPeer ELSE o[t]],
     byPrev  |-> [p \in Txs |-> b[p] \ S]]

\* How many LimitOrphanTxSize evicts, at random
Excess(S) == IF Cardinality(S) > MaxOrphans THEN Cardinality(S) - MaxOrphans ELSE 0

\* AddOrphanTx and LimitOrphanTxSize
AddOrphanTx(p, t) ==
    LET new  == t \notin Orphans /\ t \notin Large
        o    == IF new THEN [orphans EXCEPT ![t] = p] ELSE orphans
        b    == [q \in Txs |-> IF new /\ q \in Parents(t) THEN byPrev[q] \cup {t}
                                                          ELSE byPrev[q]]
        held == IF new THEN Orphans \cup {t} ELSE Orphans
    IN  \E evicted \in SUBSET held :
          /\ Cardinality(evicted) = Excess(held)
          /\ orphans' = EraseOrphanTxs(o, b, evicted).orphans
          /\ byPrev' = EraseOrphanTxs(o, b, evicted).byPrev

\* EraseOrphansFor, when a peer goes away
EraseOrphansFor(p) ==
    LET new == EraseOrphanTxs(orphans, byPrev, {t \in Txs : orphans[t] = p})
    IN  /\ stage = "free"
        /\ orphans' = new.orphans
        /\ byPrev' = new.byPrev
        /\ UNCHANGED <<chain, unflagged, stage, block, at, pool, loop, rpc>>

-----------------------------------------------------------------------------
(* The "tx" message *)

TxAccepted(t) ==
    /\ stage = "free"
    /\ Accepted(t)
    /\ pool' = AddUnchecked(pool, t)
    /\ IF t \in Zerocoin
       THEN UNCHANGED <<stage, loop>>
       ELSE stage' = "orphans" /\ loop' = [NoLoop EXCEPT !.work = <<t>>]
    /\ UNCHANGED <<chain, unflagged, block, at, orphans, byPrev, rpc>>

TxOrphan(p, t) ==
    /\ stage = "free"
    /\ MissingInputs(t)
    /\ AddOrphanTx(p, t)
    /\ UNCHANGED <<chain, unflagged, stage, block, at, pool, loop, rpc>>

\* The next transaction of the work queue, with the orphans that wait for it
NextParent ==
    /\ stage = "orphans"
    /\ loop.left = {} /\ loop.i < Len(loop.work)
    /\ loop' = [loop EXCEPT !.i = @ + 1, !.left = byPrev[loop.work[loop.i + 1]]]
    /\ UNCHANGED <<chain, unflagged, stage, block, at, pool, orphans, byPrev, rpc>>

\* An orphan accepted whose own orphans are not looked for
OrphanAcceptedLast(t) ==
    /\ Accepted(t)
    /\ pool' = AddUnchecked(pool, t)
    /\ loop' = [loop EXCEPT !.left = @ \ {t}, !.erase = @ \cup {t}]

\* An orphan accepted: those that wait for it are tried in their turn
OrphanAccepted(t) ==
    /\ Accepted(t)
    /\ pool' = AddUnchecked(pool, t)
    /\ loop' = [loop EXCEPT !.left = @ \ {t}, !.work = Append(@, t), !.erase = @ \cup {t}]

\* An orphan that still misses inputs, or whose peer has sent an invalid one in
\* this loop, stays
OrphanKept(t) ==
    /\ orphans[t] \in loop.misbehaving \/ MissingInputs(t)
    /\ loop' = [loop EXCEPT !.left = @ \ {t}]
    /\ UNCHANGED pool

\* An orphan that has its inputs and is not accepted is dropped
OrphanDropped(t) ==
    /\ ~Accepted(t) /\ ~MissingInputs(t)
    /\ loop' = [loop EXCEPT !.left = @ \ {t}, !.erase = @ \cup {t},
                            !.misbehaving = IF Invalid(t) THEN @ \cup {orphans[t]} ELSE @]
    /\ UNCHANGED pool

TryOrphan(t) ==
    /\ stage = "orphans"
    /\ t \in loop.left
    /\ \/ OrphanKept(t)
       \/ orphans[t] \notin loop.misbehaving /\ (OrphanAccepted(t) \/ OrphanDropped(t))
    /\ UNCHANGED <<chain, unflagged, stage, block, at, orphans, byPrev, rpc>>

\* vEraseQueue, at the end of the handler
EraseQueue ==
    LET new == EraseOrphanTxs(orphans, byPrev, loop.erase)
    IN  /\ stage = "orphans"
        /\ loop.left = {} /\ loop.i = Len(loop.work)
        /\ orphans' = new.orphans
        /\ byPrev' = new.byPrev
        /\ stage' = "free" /\ loop' = NoLoop
        /\ UNCHANGED <<chain, unflagged, block, at, pool, rpc>>

\* sendrawtransaction, in AcceptToMemoryPool without cs_main
RpcCheck(t) ==
    /\ rpc = NoTx
    /\ Accepted(t)
    /\ rpc' = t
    /\ UNCHANGED <<chain, unflagged, stage, block, at, pool, orphans, byPrev, loop>>

RpcAdd ==
    /\ rpc # NoTx
    /\ pool' = AddUnchecked(pool, rpc)
    /\ rpc' = NoTx
    /\ UNCHANGED <<chain, unflagged, stage, block, at, orphans, byPrev, loop>>

\* The wallet and SwiftX accept under cs_main, without looking at orphans
AcceptOwn(t) ==
    /\ stage = "free"
    /\ Accepted(t)
    /\ pool' = AddUnchecked(pool, t)
    /\ UNCHANGED <<chain, unflagged, stage, block, at, orphans, byPrev, loop, rpc>>

-----------------------------------------------------------------------------
(* Blocks *)

\* Whether ConnectBlock takes b on top of chain
Connects(b) ==
    \A i \in DOMAIN b :
       LET before == InChain(chain) \cup {b[j] : j \in 1 .. i - 1}
       IN  /\ b[i] \in Minted => i = 1
           /\ b[i] \notin before /\ b[i] \notin Bad
           /\ IsFinalTx(b[i], Len(chain) + 1)
           /\ b[i] \in Zerocoin => ~SerialSpent(before, b[i])
           /\ \A out \in Spends[b[i]] :
                /\ Unspent(before, out)
                /\ out[1] \in InChain(chain) => Mature(chain, unflagged, out[1])
                /\ out[1] \notin InChain(chain) => out[1] \notin Minted

\* ConnectTip up to FlushStateToDisk
ConnectBlock(b) ==
    /\ stage = "free"
    /\ Len(chain) < MaxHeight
    /\ Connects(b)
    /\ chain' = Append(chain, b)
    /\ stage' = "connect" /\ block' = b
    /\ UNCHANGED <<unflagged, at, pool, orphans, byPrev, loop, rpc>>

\* ... and from there to UpdateTip
ConnectTip ==
    /\ stage = "connect"
    /\ pool' = RemoveForBlock(pool, block)
    /\ stage' = "free" /\ block' = <<>>
    /\ UNCHANGED <<chain, unflagged, at, orphans, byPrev, loop, rpc>>

\* The coinstakes whose last output the tip spends
LastSpent ==
    {p \in CoinStake \cap InChain(Front(chain)) :
       /\ \E t \in TxsOf(Last(chain)) : p \in Parents(t)
       /\ ~HaveCoins(InChain(chain), p)}

\* DisconnectTip up to FlushStateToDisk.  The coins of a transaction whose last
\* output was spent are built anew, without fCoinStake.  They no longer match the
\* transaction, and its block cannot be disconnected.
DisconnectBlock ==
    /\ stage = "free"
    /\ Len(chain) > Len(Genesis)
    /\ TxsOf(Last(chain)) \cap unflagged = {}
    /\ chain' = Front(chain)
    /\ unflagged' = unflagged \cup LastSpent
    /\ stage' = "disconnect" /\ block' = Last(chain) /\ at' = 1
    /\ UNCHANGED <<pool, orphans, byPrev, loop, rpc>>

\* A transaction of the block that does not come back
NotResurrected(t) == RemoveRecursive(pool, {t})

\* One transaction of the block comes back into the pool, or takes its children
\* out of it
Resurrected(t) ==
    IF Accepted(t) THEN AddUnchecked(pool, t) ELSE RemoveRecursive(pool, {t})

Resurrect ==
    /\ stage = "disconnect"
    /\ at <= Len(block)
    /\ pool' = Resurrected(block[at])
    /\ at' = at + 1
    /\ UNCHANGED <<chain, unflagged, stage, block, orphans, byPrev, loop, rpc>>

\* removeCoinbaseSpends forgotten
DisconnectTipNoCheck ==
    /\ stage = "disconnect"
    /\ at > Len(block)
    /\ stage' = "free" /\ block' = <<>> /\ at' = 0
    /\ UNCHANGED <<chain, unflagged, pool, orphans, byPrev, loop, rpc>>

\* ... removeCoinbaseSpends and UpdateTip
DisconnectTip ==
    /\ stage = "disconnect"
    /\ at > Len(block)
    /\ pool' = RemoveRecursive(pool, CoinbaseSpends(pool, chain, unflagged))
    /\ stage' = "free" /\ block' = <<>> /\ at' = 0
    /\ UNCHANGED <<chain, unflagged, orphans, byPrev, loop, rpc>>

\* CreateNewBlock clears the pool when the block it made is not valid
CreateNewBlockFails ==
    /\ stage = "free"
    /\ pool' = [tx |-> {}, next |-> [out \in Outpoints |-> NoTx]]
    /\ UNCHANGED <<chain, unflagged, stage, block, at, orphans, byPrev, loop, rpc>>

-----------------------------------------------------------------------------
Init ==
    /\ chain = Genesis /\ unflagged = {}
    /\ stage = "free" /\ block = <<>> /\ at = 0
    /\ pool = [tx |-> {}, next |-> [out \in Outpoints |-> NoTx]]
    /\ orphans = [t \in Txs |-> NoPeer]
    /\ byPrev = [t \in Txs |-> {}]
    /\ loop = NoLoop /\ rpc = NoTx

Next ==
    \/ \E t \in Txs : TxAccepted(t) \/ AcceptOwn(t) \/ TryOrphan(t)
    \/ \E p \in Peers, t \in Txs : TxOrphan(p, t)
    \/ NextParent \/ EraseQueue
    \/ \E p \in Peers : EraseOrphansFor(p)
    \/ \E b \in Blocks : ConnectBlock(b)
    \/ ConnectTip \/ DisconnectBlock \/ Resurrect \/ DisconnectTip
    \/ CreateNewBlockFails

Spec == Init /\ [][Next]_vars

\* With a thread in sendrawtransaction beside those that hold cs_main
RpcSpec == Init /\ [][Next \/ (\E t \in RpcTxs : RpcCheck(t)) \/ RpcAdd]_vars

-----------------------------------------------------------------------------
(* Properties *)

TypeOK ==
    /\ chain \in Seq(Blocks) /\ Len(chain) \in Len(Genesis) .. MaxHeight
    /\ unflagged \subseteq CoinStake
    /\ stage \in {"free", "connect", "disconnect", "orphans"}
    /\ block \in Blocks /\ at \in 0 .. Len(block) + 1
    /\ pool \in [tx: SUBSET Txs, next: [Outpoints -> Txs \cup {NoTx}]]
    /\ orphans \in [Txs -> Peers \cup {NoPeer}]
    /\ byPrev \in [Txs -> SUBSET Txs]
    /\ loop \in [work: Seq(Txs), i: 0 .. Len(loop.work), left: SUBSET Txs, erase: SUBSET Txs, misbehaving: SUBSET Peers]
    /\ rpc \in RpcTxs \cup {NoTx}

\* mapNextTx names exactly the inputs of the transactions in mapTx, so no two of
\* them spend the same output (the assertions at the end of CTxMemPool::check).
NextTxAgrees ==
    \A out \in Outpoints :
       {t \in pool.tx : out \in Spends[t]} = {pool.next[out]} \ {NoTx}

\* Whenever the chain is not being changed, every input of the pool is an output
\* of another transaction of the pool or an unspent coin a next block may spend:
\* what CTxMemPool::check asserts, after any reorganisation and any conflict.  It
\* asks the coins, as ConnectBlock does, so a coinstake that has lost its flag
\* passes for an ordinary transaction (StakeSpendsMature).
InputsAvailable ==
    stage \in {"free", "orphans"} =>
       \A t \in pool.tx : \A out \in Spends[t] :
          out[1] \in pool.tx \/ (Unspent(InChain(chain), out) /\ Mature(chain, unflagged, out[1]))

\* "Remove transactions spending a coinbase which are now immature": the same of
\* what the coinstakes are, whatever their coins say.
StakeSpendsMature ==
    stage \in {"free", "orphans"} =>
       \A t \in pool.tx : \A p \in Parents(t) \ pool.tx : Mature(chain, {}, p)

\* No transaction is in the pool and in the active chain: the memory pool's
\* coins are "guaranteed to never conflict with the underlying cache".
NeverInBoth ==
    stage \in {"free", "orphans"} => pool.tx \cap (InChain(chain) \cup Minted) = {}

\* What CTxMemPool::check asserts of the pool after each of its changes, and what
\* CCoinsViewMemPool relies on: an exact index of spent outputs, inputs that are
\* there, and no transaction that a block already has.
PoolChecked == NextTxAgrees /\ InputsAvailable /\ NeverInBoth

\* The index of orphans by parent names exactly the orphans there are, and there
\* are never more than -maxorphantx of them.
OrphansIndexed ==
    /\ \A p \in Txs : byPrev[p] = {t \in Orphans : p \in Parents(t)}
    /\ Cardinality(Orphans) <= MaxOrphans

\* When the handler of a "tx" message ends, an orphan that waited for one of the
\* transactions it accepted is acceptable no more: it is in the pool, or still
\* misses inputs, or is dropped, unless its peer sent an invalid one.
OrphansResolved ==
    [][stage = "orphans" /\ stage' = "free" =>
         \A t \in Orphans' :
           /\ Parents(t) \cap (TxsOf(loop.work) \cup (loop.erase \cap pool.tx)) # {}
           /\ orphans[t] \notin loop.misbehaving
           => ~Accepted(t)']_vars

\* A transaction of a disconnected block that could be in the pool is in it when
\* DisconnectTip is done: "all the missing transactions will have been re-added".
ReAdded ==
    [][stage = "disconnect" /\ stage' = "free" =>
         \A t \in TxsOf(block) : t \in pool'.tx \/ ~Accepted(t)']_vars

\* removeCoinbaseSpends asserts that it finds the coins of every input that is
\* not an output of the pool.
CoinsFound ==
    stage = "disconnect" /\ at > Len(block) =>
       \A t \in pool.tx : t \notin Zerocoin /\ \A p \in Parents(t) \ pool.tx : HaveCoins(InChain(chain), p)

\* The pool "stores valid-according-to-the-current-best-chain transactions that
\* may be included in the next block": none is locked beyond that block.
FinalInNextBlock ==
    stage \in {"free", "orphans"} => \A t \in pool.tx : IsFinalTx(t, Len(chain) + 1)

\* ... and no zerocoin spend in it has a serial the chain has seen.
SerialsUnspent ==
    stage = "free" => \A t \in pool.tx \cap Zerocoin : ~SerialSpent(InChain(chain), t)

\* What a thread sees that takes mempool.cs without cs_main: "a mempool
\* consistent with some chain that was active since cs_main was last locked, and
\* that is fully populated".  Either pool and pcoinsTip fit, with nothing of the
\* disconnected block missing, or pool and chainActive fit.
UnlockedViewConsistent ==
    \/ /\ pool.tx \cap InChain(chain) = {}
       /\ stage = "disconnect" =>
             \A t \in TxsOf(block) : t \in Minted \/ t \in pool.tx \/ ~Accepted(t)
    \/ pool.tx \cap InChain(Active) = {}
=============================================================================
