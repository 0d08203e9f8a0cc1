------------------------------ MODULE MCMempool ------------------------------
(* Small instances of Mempool. *)
EXTENDS Mempool, TLC

CONSTANTS g, a, y, c, d, k, v, w, x, z1, z2

None(S) == [t \in S |-> 0]

\* Every instance starts with a mature coinbase g of two outputs.
MCGenesis == << <<g>>, <<>> >>

\* Blocks of at most two transactions beside the empty coinbase of a stake block
SmallBlocks == {<<>>} \cup {<<t>> : t \in Txs} \cup {<<t, u>> : t \in Txs, u \in Txs}

\* Reorganisations: y depends on a; the coinstake k conflicts with c and x, x also
\* depends on y, and w spends k.  d, which is not standard, conflicts with a and
\* spends the marker of k, so that d and w together spend the last of k.  v, which
\* spends y, may have an invalid script.
ReorgTxs == {g, a, y, c, d, k, v, w, x}
ReorgOuts == g :> 2 @@ y :> 2 @@ k :> 2 @@ [t \in ReorgTxs |-> 1]
ReorgSpends == a :> {<<g, 0>>} @@ y :> {<<a, 0>>} @@ c :> {<<g, 1>>}
               @@ d :> {<<g, 0>>, <<k, 0>>} @@ k :> {<<g, 1>>} @@ w :> {<<k, 1>>}
               @@ x :> {<<g, 1>>, <<y, 0>>} @@ v :> {<<y, 1>>} @@ g :> {}
ReorgMinted == {g, k}
JustK == {k}
ReorgStandard == {a, y, c, k, v, w, x}

\* Zerocoin: z1 and z2 spend the same serial.
ZeroTxs == {g, a, y, z1, z2}
ZeroSerial == z1 :> 1 @@ z2 :> 1
ZeroOuts == g :> 2 @@ [t \in ZeroTxs |-> 1]
ZeroSpends == a :> {<<g, 0>>} @@ y :> {<<a, 0>>} @@ [t \in ZeroTxs |-> {}]

ReorgLock == None(ReorgTxs)
ZeroLock == None(ZeroTxs)
\* Only a block above height 3 may have y.
LateLock == y :> 3 @@ None(ReorgTxs)
NoSerial == [t \in {} |-> 0]
JustG == {g}

\* The peers are alike.
PeerSymmetry == Permutations(Peers)
=============================================================================
