------------------------------ MODULE BlockUndo ------------------------------
(***************************************************************************)
(* The set of unspent outputs as blocks are connected and disconnected:    *)
(* CCoins (coins.h, coins.cpp), the undo data of a block (undo.h), and the *)
(* parts of ConnectBlock and DisconnectBlock (main.cpp) that read and      *)
(* change them.  Everything runs under cs_main, so one block is one step.  *)
(*                                                                         *)
(* A transaction is a model value; vin gives the outputs it spends, in     *)
(* order, and nOut how many outputs it creates.  What an output holds is   *)
(* abstracted away: a CCoins keeps the positions that are not null.        *)
(***************************************************************************)
EXTENDS Integers, Sequences, Functions

CONSTANTS
    Txs,         \* the transactions
    CoinBase,    \* those that are coinbases
    CoinStake,   \* those that are coinstakes
    vin,         \* [Txs -> sequence of outpoints <<transaction, position>>]
    nOut,        \* [Txs -> number of outputs]
    Blocks,      \* the blocks that can arrive, as sequences of transactions
    Maturity,    \* Params().COINBASE_MATURITY()
    MaxHeight    \* bound: no block is connected above this height

ASSUME ConstantsAssumption ==
    /\ CoinBase \subseteq Txs /\ CoinStake \subseteq Txs
    /\ CoinBase \cap CoinStake = {}
    /\ nOut \in [Txs -> Nat \ {0}]
    /\ vin \in [Txs -> Seq(Txs \X Nat)]
    /\ \A t \in CoinBase : vin[t] = <<>>
    /\ \A t \in Txs \ CoinBase : vin[t] # <<>>          \* CheckTransaction
    /\ \A t \in Txs : IsInjective(vin[t])              \* CheckTransaction
    /\ Blocks \subseteq Seq(Txs)
    /\ \A b \in Blocks : \A i \in DOMAIN b :
          b[i] \in CoinBase => i = 1                    \* CheckBlock
    /\ Maturity \in Nat /\ MaxHeight \in Nat

VARIABLES
    chain,   \* the blocks of the active chain above the genesis block
    undo,    \* CBlockUndo of each of them, as written to the rev files
    coins    \* pcoinsTip: the CCoins of every transaction

undoVars == <<chain, undo, coins>>

Coin == [vout: SUBSET Nat, fCoinBase: BOOLEAN, fCoinStake: BOOLEAN, nHeight: Nat]

\* CCoins(): no outputs, no metadata
Empty == [vout |-> {}, fCoinBase |-> FALSE, fCoinStake |-> FALSE, nHeight |-> 0]

IsPruned(c) == c.vout = {}

\* operator==: two empty CCoins are equal whatever their metadata
SameCoins(c, d) == (IsPruned(c) /\ IsPruned(d)) \/ c = d

FromTx(t, height) ==
    [vout |-> 0 .. nOut[t] - 1, fCoinBase |-> t \in CoinBase,
     fCoinStake |-> t \in CoinStake, nHeight |-> height]

IsAvailable(cs, out) == out[2] \in cs[out[1]].vout

-----------------------------------------------------------------------------
(* Connecting a block *)

\* CCoins::Spend: null the output; the metadata goes into the undo entry only
\* when this was the last output of its transaction
SpendUndo(c, n) ==
    IF c.vout = {n} THEN [c EXCEPT !.vout = {}] ELSE Empty

\* What is left; a pruned CCoins is dropped from the database, so its metadata
\* is gone
SpendCoin(c, n) ==
    IF c.vout = {n} THEN Empty ELSE [c EXCEPT !.vout = @ \ {n}]

\* One input spent, and its entry added to the undo data
SpendInput(s, out) ==
    [cs  |-> [s.cs EXCEPT ![out[1]] = SpendCoin(@, out[2])],
     rev |-> Append(s.rev, SpendUndo(s.cs[out[1]], out[2]))]

\* UpdateCoins on a pair of the coins and the block's undo data: the inputs in
\* order, then the transaction's own outputs
UpdateCoins(s, t, height) ==
    LET spent[i \in 0 .. Len(vin[t])] ==
          IF i = 0 THEN [cs |-> s.cs, rev |-> <<>>]
          ELSE SpendInput(spent[i - 1], vin[t][i])
        all == spent[Len(vin[t])]
    IN  [cs  |-> [all.cs EXCEPT ![t] = FromTx(t, height)],
         rev |-> Append(s.rev, all.rev)]

\* A check of maturity that forgets coinbases
CheckInputsOfStakes(cs, t, nSpendHeight) ==
    \A i \in DOMAIN vin[t] :
       LET out == vin[t][i]
           c   == cs[out[1]]
       IN  /\ IsAvailable(cs, out)
           /\ c.fCoinStake => nSpendHeight - c.nHeight >= Maturity

\* CheckInputs: every input exists, and a coinbase or coinstake it spends from
\* is deep enough
CheckInputs(cs, t, nSpendHeight) ==
    \A i \in DOMAIN vin[t] :
       LET out == vin[t][i]
           c   == cs[out[1]]
       IN  /\ IsAvailable(cs, out)
           /\ c.fCoinBase \/ c.fCoinStake => nSpendHeight - c.nHeight >= Maturity

\* One transaction of the block, with ok FALSE once one of them was refused
ApplyTx(s, t, height) ==
    LET new == UpdateCoins(s, t, height)
    IN  [ok  |-> s.ok /\ CheckInputs(s.cs, t, height),
         cs  |-> new.cs,
         rev |-> new.rev]

\* The state after the transactions of a block are applied in order
ApplyBlock(cs, b, height) ==
    LET applied[i \in 0 .. Len(b)] ==
          IF i = 0 THEN [ok |-> TRUE, cs |-> cs, rev |-> <<>>]
          ELSE ApplyTx(applied[i - 1], b[i], height)
    IN  applied[Len(b)]

\* No transaction of the block may overwrite one that still has outputs (BIP30)
EnforceBIP30(cs, b) == \A i \in DOMAIN b : IsPruned(cs[b[i]])

\* A coinbase begins with its block's height (ContextualCheckBlock, from
\* BIP65_Start on: the chain of the model lies above it), so no two blocks of a
\* chain have the same one
FreshCoinbase(b) ==
    \A h \in DOMAIN chain : Range(b) \cap Range(chain[h]) \cap CoinBase = {}

ConnectBlock(b) ==
    LET height == Len(chain) + 1
        new    == ApplyBlock(coins, b, height)
    IN  /\ height <= MaxHeight
        /\ FreshCoinbase(b)
        /\ EnforceBIP30(coins, b)
        /\ new.ok
        /\ coins' = new.cs
        /\ undo' = Append(undo, new.rev)
        /\ chain' = Append(chain, b)

-----------------------------------------------------------------------------
(* Disconnecting the tip *)

\* An input restored without looking at the metadata of its undo entry
RestoreOutputOnly(c, n, u) == [c EXCEPT !.vout = @ \cup {n}]

\* One input restored from its undo entry u.  An entry with a height is that of
\* a transaction whose last output was spent: its CCoins is built afresh, with
\* the coinbase flag and the height of the entry.
RestoreInput(c, n, u) ==
    IF u.nHeight # 0
    THEN [Empty EXCEPT !.vout = {n}, !.fCoinBase = u.fCoinBase, !.nHeight = u.nHeight]
    ELSE [c EXCEPT !.vout = @ \cup {n}]

\* What DisconnectBlock requires of the coins before it restores an input
CleanInput(c, n, u) == n \notin c.vout /\ (IsPruned(c) <=> u.nHeight # 0)

\* One input put back from its undo entry
UndoInput(s, out, u) ==
    [clean |-> s.clean /\ CleanInput(s.cs[out[1]], out[2], u),
     cs    |-> [s.cs EXCEPT ![out[1]] = RestoreInput(@, out[2], u)]]

\* One transaction undone: its outputs must be exactly those it created, they
\* are removed, and its inputs are restored in reverse order
UndoTx(s, t, rev, height) ==
    LET n == Len(vin[t])
        restored[i \in 0 .. n] ==
          IF i = 0
          THEN [clean |-> s.clean /\ SameCoins(s.cs[t], FromTx(t, height)),
                cs    |-> [s.cs EXCEPT ![t] = Empty]]
          ELSE UndoInput(restored[i - 1], vin[t][n + 1 - i], rev[n + 1 - i])
    IN  restored[n]

\* DisconnectBlock: the transactions in reverse order
Disconnected(cs, b, rev, height) ==
    LET n == Len(b)
        undone[i \in 0 .. n] ==
          IF i = 0 THEN [clean |-> TRUE, cs |-> cs]
          ELSE UndoTx(undone[i - 1], b[n + 1 - i], rev[n + 1 - i], height)
    IN  undone[n]

Front(s) == SubSeq(s, 1, Len(s) - 1)
Last(s) == s[Len(s)]

TipDisconnected == Disconnected(coins, Last(chain), Last(undo), Len(chain))

\* DisconnectTip: the coins are flushed only when DisconnectBlock found no problem
DisconnectTip ==
    /\ chain # <<>>
    /\ TipDisconnected.clean
    /\ coins' = TipDisconnected.cs
    /\ chain' = Front(chain)
    /\ undo' = Front(undo)

-----------------------------------------------------------------------------
UndoInit ==
    /\ chain = <<>>
    /\ undo = <<>>
    /\ coins = [t \in Txs |-> Empty]

UndoNext == (\E b \in Blocks : ConnectBlock(b)) \/ DisconnectTip

UndoSpec == UndoInit /\ [][UndoNext]_undoVars

-----------------------------------------------------------------------------
(* Properties *)

\* Type invariant: every block of the chain has its undo data, one entry per
\* input of every transaction (DisconnectBlock refuses any other shape).
UndoTypeOK ==
    /\ chain \in Seq(Blocks) /\ Len(chain) <= MaxHeight
    /\ coins \in [Txs -> Coin]
    /\ Len(undo) = Len(chain)
    /\ \A h \in DOMAIN chain :
         /\ Len(undo[h]) = Len(chain[h])
         /\ \A i \in DOMAIN chain[h] :
              /\ undo[h][i] \in Seq(Coin)
              /\ Len(undo[h][i]) = Len(vin[chain[h][i]])

\* The reference: the coins of a chain are what its blocks say, whatever was
\* connected and disconnected before.
Mined == UNION {{<<h, i>> : i \in DOMAIN chain[h]} : h \in DOMAIN chain}

Spent == UNION {Range(vin[chain[m[1]][m[2]]]) : m \in Mined}

MinedTxs == {chain[m[1]][m[2]] : m \in Mined}

HeightOf(t) == CHOOSE h \in DOMAIN chain :
                  /\ t \in Range(chain[h])
                  /\ \A g \in DOMAIN chain : t \in Range(chain[g]) => g <= h

\* The outputs that are unspent, and the height of those that are, are exactly
\* what the blocks of the active chain say: connecting and disconnecting in any
\* order neither loses nor revives an output (UpdateCoins, DisconnectBlock).
OutputsFollowChain ==
    \A t \in Txs :
       /\ coins[t].vout = IF t \in MinedTxs
                          THEN {n \in 0 .. nOut[t] - 1 : <<t, n>> \notin Spent}
                          ELSE {}
       /\ coins[t].vout # {} =>
             /\ coins[t].nHeight = HeightOf(t)
             /\ coins[t].fCoinBase = (t \in CoinBase)

\* A coinbase output spent in the active chain was at least Maturity blocks deep
\* (the check in CheckInputs), also after any number of reorganisations.
CoinbaseSpendsMature ==
    \A m \in Mined : \A i \in DOMAIN vin[chain[m[1]][m[2]]] :
       LET t == vin[chain[m[1]][m[2]]][i][1]
       IN  t \in CoinBase => m[1] - HeightOf(t) >= Maturity

\* The same of the outputs of coinstakes, which CheckInputs treats alike.
CoinstakeSpendsMature ==
    \A m \in Mined : \A i \in DOMAIN vin[chain[m[1]][m[2]]] :
       LET t == vin[chain[m[1]][m[2]]][i][1]
       IN  t \in CoinStake => m[1] - HeightOf(t) >= Maturity

\* DisconnectBlock finds no problem in a block this node connected itself: it
\* undoes "the effects of this block on the UTXO set".
DisconnectsCleanly == chain # <<>> => TipDisconnected.clean
=============================================================================
