------------------------- MODULE Masternodes_proofs -------------------------
(***************************************************************************)
(* Proofs about the two parts of the masternode layer that are modelled,   *)
(* SwiftTx and MasternodeSync.                                             *)
(*                                                                         *)
(* For any transactions, inputs, masternodes and number of votes required: *)
(* votes are counted once, and while a transaction holds its inputs no     *)
(* rival of it gets into the pool or the chain.                            *)
(*                                                                         *)
(* For any peers and any threshold: the members of masternodeSync keep     *)
(* their types, the stages come in order, and a node that enforces         *)
(* payments is synced only with data.                                      *)
(***************************************************************************)
EXTENDS SwiftTx, MasternodeSync, TLAPS

-----------------------------------------------------------------------------
(* Transaction locks.                                                      *)

Lock == [dated : BOOLEAN, votes : Seq(Vote)]

Distinct(votes) == \A j, k \in DOMAIN votes : votes[j].mn = votes[k].mn => j = k

\* A lock has votes of different masternodes, and each of them is remembered in
\* mapTxLockVote, so that none is heard again.  CountedOnce alone is not kept by
\* HandleVote: a vote in the lock could be forgotten.
LockOK(l, t, heard) ==
  l # NoLock =>
    /\ l \in Lock /\ Distinct(l.votes)
    /\ \A k \in DOMAIN l.votes : <<l.votes[k].mn, t>> \in heard

LocksOK == /\ DOMAIN lock = Txs /\ lock = [t \in Txs |-> lock[t]]
           /\ \A t \in Txs : LockOK(lock[t], t, seen)

-----------------------------------------------------------------------------
(* Locks and votes.                                                        *)

\* A vote of a masternode that is not in the list yet.
LEMMA OneMore ==
  ASSUME NEW votes \in Seq(Vote), NEW v \in Vote, Distinct(votes),
         \A k \in DOMAIN votes : votes[k].mn # v.mn
  PROVE  /\ Append(votes, v) \in Seq(Vote) /\ Distinct(Append(votes, v))
         /\ \A k \in DOMAIN Append(votes, v) :
               \/ Append(votes, v)[k] = v
               \/ \E j \in DOMAIN votes : Append(votes, v)[k] = votes[j]
<1> DEFINE more == Append(votes, v)
<1>1. /\ more \in Seq(Vote) /\ Len(more) = Len(votes) + 1
      /\ DOMAIN more = 1 .. Len(votes) + 1 /\ DOMAIN votes = 1 .. Len(votes)
      /\ Len(votes) \in Nat
  OBVIOUS
<1>2. /\ \A k \in 1 .. Len(votes) : more[k] = votes[k]
      /\ more[Len(votes) + 1] = v
  OBVIOUS
<1> HIDE DEF more
<1>3. Distinct(more)
  <2> SUFFICES ASSUME NEW j \in 1 .. Len(votes) + 1, NEW k \in 1 .. Len(votes) + 1,
                      more[j].mn = more[k].mn
               PROVE  j = k
    BY <1>1 DEF Distinct
  <2>1. CASE j \in 1 .. Len(votes) /\ k \in 1 .. Len(votes)
    BY <2>1, <1>1, <1>2 DEF Distinct
  <2>2. CASE j = Len(votes) + 1 \/ k = Len(votes) + 1
    BY <2>2, <1>1, <1>2
  <2> QED  BY <2>1, <2>2, <1>1
<1>4. \A k \in DOMAIN more : more[k] = v \/ \E j \in DOMAIN votes : more[k] = votes[j]
  BY <1>1, <1>2
<1> QED  BY <1>1, <1>3, <1>4 DEF more

\* CreateNewLock keeps the votes there are.
LEMMA NewLockOK ==
  ASSUME LocksOK, NEW t \in Txs, NEW heard, seen \subseteq heard,
         lock' = NewLock(t), seen' = heard
  PROVE  LocksOK'
<1>1. CASE t \notin aged
  BY <1>1 DEF LocksOK, LockOK, NewLock
<1>2. CASE t \in aged
  <2> DEFINE l == [dated |-> TRUE, votes |-> IF lock[t] = NoLock THEN <<>> ELSE lock[t].votes]
  <2>1. lock' = [lock EXCEPT ![t] = l]
    BY <1>2 DEF NewLock
  <2>2. LockOK(l, t, heard)
    <3>1. CASE lock[t] = NoLock
      <4>1. l \in Lock /\ l.votes = <<>>
        BY <3>1 DEF Lock
      <4> QED  BY <4>1 DEF LockOK, Distinct
    <3>2. CASE lock[t] # NoLock
      <4>1. LockOK(lock[t], t, seen)
        BY DEF LocksOK
      <4>2. l \in Lock /\ l.votes = lock[t].votes
        BY <3>2, <4>1 DEF LockOK, Lock
      <4> QED  BY <3>2, <4>1, <4>2 DEF LockOK
    <3> QED  BY <3>1, <3>2
  <2>3. \A u \in Txs \ {t} : lock'[u] = lock[u] /\ LockOK(lock[u], u, heard)
    BY <2>1 DEF LocksOK, LockOK
  <2>4. lock'[t] = l /\ DOMAIN lock' = Txs /\ lock' = [u \in Txs |-> lock'[u]]
    BY <2>1, Zenon DEF LocksOK
  <2> HIDE DEF l
  <2> QED  BY <2>2, <2>3, <2>4 DEF LocksOK
<1> QED  BY <1>1, <1>2

\* AddSignature of a vote that was not heard before.
LEMMA AddedOK ==
  ASSUME LocksOK, NEW t \in Txs, NEW v \in Vote, <<v.mn, t>> \notin seen,
         lock' = Added(v, t), seen' = seen \cup {<<v.mn, t>>}
  PROVE  LocksOK'
<1> DEFINE votes == IF lock[t] = NoLock THEN <<>> ELSE lock[t].votes
           l == [dated |-> lock[t] # NoLock /\ lock[t].dated, votes |-> Append(votes, v)]
<1>1. /\ votes \in Seq(Vote) /\ Distinct(votes)
      /\ \A k \in DOMAIN votes : <<votes[k].mn, t>> \in seen
  <2>1. CASE lock[t] = NoLock
    BY <2>1 DEF Distinct
  <2>2. CASE lock[t] # NoLock
    BY <2>2 DEF LocksOK, LockOK, Lock
  <2> QED  BY <2>1, <2>2
<1>2. (lock[t] # NoLock /\ lock[t].dated) \in BOOLEAN
  OBVIOUS
<1>3. lock' = [lock EXCEPT ![t] = l]
  BY DEF Added
<1> HIDE DEF votes
<1>4. \A k \in DOMAIN votes : votes[k].mn # v.mn
  BY <1>1
<1>5. /\ Append(votes, v) \in Seq(Vote) /\ Distinct(Append(votes, v))
      /\ \A k \in DOMAIN Append(votes, v) :
            \/ Append(votes, v)[k] = v
            \/ \E j \in DOMAIN votes : Append(votes, v)[k] = votes[j]
  BY <1>1, <1>4, OneMore
<1>6. \A k \in DOMAIN Append(votes, v) : <<Append(votes, v)[k].mn, t>> \in seen'
  BY <1>1, <1>5
<1>7. l \in Lock /\ l.votes = Append(votes, v)
  BY <1>2, <1>5 DEF Lock
<1>8. lock'[t] = l /\ DOMAIN lock' = Txs /\ lock' = [u \in Txs |-> lock'[u]]
  BY <1>3, Zenon DEF LocksOK
<1>9. \A u \in Txs \ {t} : lock'[u] = lock[u] /\ LockOK(lock[u], u, seen')
  BY <1>3 DEF LocksOK, LockOK
<1> HIDE DEF l
<1>10. LockOK(l, t, seen')
  BY <1>5, <1>6, <1>7 DEF LockOK
<1> QED  BY <1>8, <1>9, <1>10 DEF LocksOK

\* The votes of a lock are forgotten only together with the lock.
LEMMA CleanOK == ASSUME LocksOK, CleanTransactionLocksList PROVE LocksOK'
<1>1. lock' = [t \in Txs |-> IF t \in expired THEN NoLock ELSE lock[t]]
  BY DEF CleanTransactionLocksList
<1>2. ASSUME NEW t \in Txs, t \notin expired, NEW m, <<m, t>> \in seen
      PROVE  <<m, t>> \in seen'
  BY <1>2 DEF CleanTransactionLocksList
<1>3. ASSUME NEW t \in Txs PROVE LockOK(lock'[t], t, seen')
  <2>1. CASE t \in expired
    BY <2>1, <1>1 DEF LockOK
  <2>2. CASE t \notin expired
    <3>1. lock'[t] = lock[t] /\ LockOK(lock[t], t, seen)
      BY <2>2, <1>1 DEF LocksOK
    <3> QED  BY <3>1, <2>2, <1>2 DEF LockOK
  <2> QED  BY <2>1, <2>2
<1> QED  BY <1>1, <1>3 DEF LocksOK

-----------------------------------------------------------------------------
(* Every step.                                                             *)

LEMMA LocksInit == Init => LocksOK
BY DEF Init, LocksOK, LockOK

LEMMA LocksKept == ASSUME LocksOK, lock' = lock, seen \subseteq seen' PROVE LocksOK'
BY DEF LocksOK, LockOK

\* The handler of a vote, in each of the ways it goes.
LEMMA VoteOK ==
  ASSUME LocksOK, NEW t \in Txs, NEW v \in Vote, HandleVote(v, t)
  PROVE  LocksOK'
<1>1. /\ <<v.mn, t>> \notin seen /\ seen' = seen \cup {<<v.mn, t>>}
      /\ VoteIgnored(v, t) \/ VoteCounted(v, t) \/ VoteCompletes(v, t)
  BY DEF HandleVote
<1>2. CASE VoteIgnored(v, t)
  <2>1. lock' = lock
    BY <1>2 DEF VoteIgnored
  <2> QED  BY <1>1, <2>1, LocksKept
<1>3. CASE VoteCounted(v, t) \/ VoteCompletes(v, t)
  <2>1. lock' = Added(v, t)
    BY <1>3 DEF VoteCounted, VoteCompletes
  <2> QED  BY <1>1, <2>1, AddedOK
<1> QED  BY <1>1, <1>2, <1>3

LEMMA LocksNext == ASSUME LocksOK, [Next]_vars PROVE LocksOK'
<1>1. ASSUME NEW t \in Txs,
             \/ RequestAccepted(t) \/ RequestRejected(t)
             \/ SendRaw(t) \/ RelayWalletTransaction(t)
      PROVE  LocksOK'
  <2>1. lock' = NewLock(t) /\ seen \subseteq seen'
    BY <1>1 DEF RequestAccepted, RequestRejected, SendRaw, RelayWalletTransaction
  <2> QED  BY <2>1, NewLockOK
<1>2. ASSUME \/ UNCHANGED vars
             \/ \E t \in Txs : AcceptTx(t) \/ ConnectBlock(t) \/ InputsAge(t) \/ HourPasses(t)
             \/ \E m \in Masternodes : MasternodeKnown(m)
      PROVE  LocksOK'
  <2>1. lock' = lock /\ seen' = seen
    BY <1>2 DEF vars, locks, AcceptTx, ConnectBlock, InputsAge, HourPasses, MasternodeKnown
  <2> QED  BY <2>1, LocksKept
<1> QED
  BY <1>1, <1>2, VoteOK, CleanOK DEF Next

LEMMA AlwaysLocksOK == Spec => []LocksOK
<1>1. LocksOK /\ [Next]_vars => LocksOK'
  BY LocksNext
<1> QED  BY <1>1, LocksInit, PTL DEF Spec

-----------------------------------------------------------------------------
(* What gets into the pool or the chain.                                   *)

Entered(u) == u \in pool' \ pool \/ u \in mined' \ mined

\* The inputs of u are free for u, before the step or after it: ReprocessBlocks
\* looks at them when the lock has taken its own.
FreeFor(u) == \/ \A i \in InputsOf[u] : holder[i] \in {u, Nobody}
              \/ \A i \in InputsOf[u] : holder'[i] \in {u, Nobody}

LEMMA Entrance == ASSUME [Next]_vars, NEW u \in Txs, Entered(u) PROVE FreeFor(u)
<1>1. ASSUME NEW t \in Txs, RequestAccepted(t) \/ SendRaw(t) \/ AcceptTx(t)
      PROVE  FreeFor(u)
  <2>1. mined' = mined /\ (pool' = pool \/ (pool' = pool \cup {t} /\ Acceptable(t)))
    BY <1>1 DEF RequestAccepted, SendRaw, AcceptTx
  <2>2. u = t /\ Acceptable(t)
    BY <2>1 DEF Entered
  <2> QED  BY <2>2 DEF Acceptable, FreeFor
<1>2. ASSUME NEW t \in Txs, ConnectBlock(t) PROVE FreeFor(u)
  <2>1. u = t
    BY <1>2 DEF ConnectBlock, Entered
  <2> QED  BY <1>2, <2>1 DEF ConnectBlock, FreeFor
<1>3. ASSUME ReprocessBlocks(holder') PROVE FreeFor(u)
  BY <1>3 DEF ReprocessBlocks, Entered, FreeFor
<1>4. (pool' = pool /\ mined' = mined) => FALSE
  BY DEF Entered
<1>5. ASSUME NEW t \in Txs, RequestRejected(t) PROVE FreeFor(u)
  <2>1. (pool' = pool /\ mined' = mined) \/ ReprocessBlocks(holder')
    BY <1>5 DEF RequestRejected
  <2> QED  BY <2>1, <1>3, <1>4
<1>6. ASSUME NEW t \in Txs, NEW v \in Vote, HandleVote(v, t) PROVE FreeFor(u)
  <2>1. (pool' = pool /\ mined' = mined) \/ ReprocessBlocks(holder')
    BY <1>6 DEF HandleVote, VoteIgnored, VoteCounted, VoteCompletes
  <2> QED  BY <2>1, <1>3, <1>4
<1>7. ASSUME \/ UNCHANGED vars
             \/ \E t \in Txs : RelayWalletTransaction(t) \/ InputsAge(t) \/ HourPasses(t)
             \/ \E m \in Masternodes : MasternodeKnown(m)
             \/ CleanTransactionLocksList
      PROVE  FALSE
  <2>1. pool' = pool /\ mined' = mined
    BY <1>7 DEF vars, node, RelayWalletTransaction, InputsAge, HourPasses, MasternodeKnown,
                CleanTransactionLocksList
  <2> QED  BY <2>1, <1>4
<1> QED
  BY <1>1, <1>2, <1>5, <1>6, <1>7 DEF Next

-----------------------------------------------------------------------------
(* CountSignatures adds up vecConsensusVotes; a masternode's vote is never *)
(* in it twice, in whatever order requests, votes and clean-ups come.      *)
THEOREM VotesCountedOnce == Spec => []CountedOnce
<1>1. LocksOK => CountedOnce
  BY DEF LocksOK, LockOK, Distinct, CountedOnce
<1> QED  BY <1>1, AlwaysLocksOK, PTL

(* While a transaction holds all its inputs in mapLockedInputs, no rival   *)
(* of it gets into the pool or the chain, and ReprocessBlocks gives none   *)
(* back to the pool.                                                       *)
THEOREM LockedOutRivals == Spec => RivalsStayOut
<1> DEFINE Out == \A t \in Txs : HoldsInputs(t) /\ HoldsInputs(t)' =>
                    /\ Rivals(t) \cap pool' \subseteq pool
                    /\ Rivals(t) \cap mined' \subseteq mined
<1>1. ASSUME [Next]_vars PROVE Out
  <2> SUFFICES ASSUME NEW t \in Txs, HoldsInputs(t), HoldsInputs(t)',
                      NEW u \in Rivals(t), Entered(u)
               PROVE  FALSE
    BY DEF Entered
  <2>1. u \in Txs \ {t} /\ \E i \in InputsOf[u] : i \in InputsOf[t]
    BY DEF Rivals
  <2>2. FreeFor(u)
    BY <1>1, <2>1, Entrance
  <2>3. PICK i \in InputsOf[u] : i \in InputsOf[t]
    BY <2>1
  <2>4. holder[i] = t /\ holder'[i] = t
    BY <2>3 DEF HoldsInputs
  <2> QED  BY <2>1, <2>2, <2>3, <2>4, SwiftAssumption DEF FreeFor
<1>2. [Next]_vars => [Out]_vars
  BY <1>1
<1> QED  BY <1>2, PTL DEF Spec, RivalsStayOut

-----------------------------------------------------------------------------
(* The synchronisation.                                                    *)

\* What the stages that are over have left: an item of the list once the stage
\* of the list is over, one of the winners once theirs is.  SyncedHasData speaks
\* of the last stage only and is not kept by a step from the budget to it.
HasData(x) ==
  /\ x.asset \in {"winners", "budget", "finished"} => x.last["list"] # "never"
  /\ x.asset \in {"budget", "finished"} => x.last["winners"] # "never"

Gathered == Enforced /\ ~forced /\ ~raced => HasData(s)

\* The stage that GetNextAsset has read had an item, if it is still the stage.
ReadOK == ~forced /\ s.asset = reading => s.last[reading] # "never"

SyncTypes == /\ s \in Sync /\ reading \in Data \cup {"none"}
             /\ forced \in BOOLEAN /\ raced \in BOOLEAN

SyncInv == SyncTypes /\ Gathered /\ ReadOK

\* A step of the stage from a to b that the code may take without an operator.
InOrder(a, b) ==
  \/ b \in {a, "initial"}
  \/ a = "initial" /\ b = "sporks"
  \/ a = "sporks" /\ b = "list"
  \/ a = "list" /\ b \in {"winners", "failed"}
  \/ a = "winners" /\ b \in {"budget", "failed"}
  \/ a = "budget" /\ b = "finished"

StageStep == \/ InOrder(s.asset, s'.asset)
             \/ s.asset = "failed" /\ s'.asset = "sporks" /\ forced'
             \/ reading \notin {"none", s.asset} /\ reading' = "none"

-----------------------------------------------------------------------------
(* The operators.                                                          *)

\* No stage is called "none", and the stages of data are neither the first nor the last.
LEMMA NoStage ==
  /\ "none" \notin Assets /\ "initial" \notin Data \cup {"none"}
BY DEF Assets, Data

LEMMA AfterIs ==
  /\ After["initial"] = "sporks" /\ After["failed"] = "sporks" /\ After["sporks"] = "list"
  /\ After["list"] = "winners" /\ After["winners"] = "budget"
  /\ After["budget"] = "finished" /\ After["finished"] = "finished"
BY DEF After

LEMMA ResetIs ==
  /\ Reset \in Sync /\ Reset.asset = "initial" /\ Reset.attempt = 0
  /\ Reset.slept /\ HasData(Reset)
<1>1. 0 \in 0..Threshold /\ 0 \in Nat
  BY SyncAssumption
<1>2. [d \in Data |-> "never"] \in [Data -> {"never", "lately", "long ago"}]
  OBVIOUS
<1>3. [d \in Data |-> 0] \in [Data -> 0..Threshold]
  BY <1>1
<1> QED  BY <1>1, <1>2, <1>3 DEF Reset, Sync, Assets, HasData

LEMMA NextAsset ==
  ASSUME NEW x \in Sync
  PROVE  /\ GetNextAsset(x) \in Sync /\ GetNextAsset(x).asset = After[x.asset]
         /\ GetNextAsset(x).attempt = 0
         /\ GetNextAsset(x).last = x.last /\ GetNextAsset(x).slept = x.slept
<1>1. After[x.asset] \in Assets
  BY AfterIs, Zenon DEF Sync, Assets, Data
<1> QED  BY <1>1, Zenon DEF GetNextAsset, Sync

\* IsBlockchainSynced keeps the stage or resets everything.
LEMMA BlockchainSynced ==
  ASSUME NEW x \in Sync, NEW recent \in BOOLEAN
  PROVE  LET y == IsBlockchainSynced(x, recent)
         IN /\ y \in Sync
            /\ x.slept => y.asset = "initial"
            /\ ~x.slept => y.asset = x.asset /\ y.last = x.last /\ y.attempt = x.attempt
<1> DEFINE r == IF x.slept THEN Reset ELSE x
           y == IsBlockchainSynced(x, recent)
<1>1. r \in Sync
  BY ResetIs
<1>2. y = [r EXCEPT !.slept = FALSE, !.chain = @ \/ recent]
  BY DEF IsBlockchainSynced
<1>3. (r.chain \/ recent) \in BOOLEAN
  OBVIOUS
<1> HIDE DEF r, y
<1>4. y \in Sync /\ y.asset = r.asset /\ y.last = r.last /\ y.attempt = r.attempt
  BY <1>1, <1>2, <1>3, ZenonT(60) DEF Sync
<1>5. (x.slept => r.asset = "initial") /\ (~x.slept => r = x)
  BY ResetIs DEF r
<1> QED  BY <1>4, <1>5 DEF y

\* Where the loop over the peers starts from: the stage of before, the first one
\* after a reset, or the beginning of a new round.
LEMMA LoopStart ==
  ASSUME SyncInv, NEW recent \in BOOLEAN, NEW enabled \in BOOLEAN, ~Returns(enabled)
  PROVE  LET x == IsBlockchainSynced(Begun(enabled), recent)
         IN /\ x \in Sync
            /\ \/ x.asset = "initial"
               \/ ~Begins(enabled) /\ s.asset = "initial" /\ x.asset = "sporks" /\ x.attempt = 0
               \/ /\ ~Begins(enabled) /\ x.asset = s.asset /\ x.last = s.last
                  /\ s.asset \notin {"initial", "finished", "failed"}
<1> DEFINE b == Begun(enabled)
           x == IsBlockchainSynced(b, recent)
<1>1. CASE Restarts(enabled)
  <2>1. b = GetNextAsset(Reset)
    BY <1>1, ResetIs DEF Begun
  <2>2. b \in Sync /\ b.slept
    BY <2>1, ResetIs, NextAsset
  <2>3. x.asset = "initial" /\ x \in Sync
    BY <2>2, BlockchainSynced
  <2> QED  BY <2>3
<1>2. CASE ~Restarts(enabled) /\ s.asset = "initial"
  <2>1. b = GetNextAsset(s)
    BY <1>2 DEF Begun
  <2>2. b \in Sync /\ b.slept = s.slept /\ b.asset = "sporks" /\ b.attempt = 0
    BY <2>1, <1>2, NextAsset, AfterIs DEF SyncInv, SyncTypes
  <2>3. /\ x \in Sync
        /\ b.slept => x.asset = "initial"
        /\ ~b.slept => x.asset = b.asset /\ x.attempt = b.attempt
    BY <2>2, BlockchainSynced
  <2> HIDE DEF b, x
  <2>4. \/ x.asset = "initial"
        \/ ~Begins(enabled) /\ x.asset = "sporks" /\ x.attempt = 0
    BY <1>2, <2>2, <2>3 DEF Begins
  <2> QED  BY <1>2, <2>3, <2>4 DEF b, x
<1>3. CASE ~Restarts(enabled) /\ s.asset # "initial"
  <2>1. b = s /\ s \in Sync
    BY <1>3 DEF Begun, SyncInv, SyncTypes
  <2>2. s.asset \notin {"finished", "failed"}
    BY <1>3 DEF Restarts, Returns
  <2>3. /\ x \in Sync
        /\ s.slept => x.asset = "initial"
        /\ ~s.slept => x.asset = s.asset /\ x.last = s.last
    BY <2>1, BlockchainSynced
  <2> HIDE DEF b, x
  <2>4. \/ x.asset = "initial"
        \/ ~Begins(enabled) /\ x.asset = s.asset /\ x.last = s.last
    BY <1>3, <2>3 DEF Begins
  <2> QED  BY <1>3, <2>2, <2>3, <2>4 DEF b, x
<1> QED  BY <1>1, <1>2, <1>3

-----------------------------------------------------------------------------
(* The loop, from x to s'.                                                 *)

Onward(x) ==
  /\ s' \in Sync /\ InOrder(x.asset, s'.asset)
  /\ x.asset = "initial" => s'.asset = "initial"
  /\ x.asset = "sporks" /\ x.attempt = 0 => s'.asset = "sporks"
  /\ Enforced /\ HasData(x) => HasData(s')

\* A stage of data ends with GetNextAsset.
LEMMA StageOver ==
  ASSUME NEW x \in Sync, x.asset \in Data, s' = GetNextAsset(x),
         \/ x.last[x.asset] # "never"
         \/ x.asset = "budget"
         \/ ~Enforced
  PROVE  Onward(x)
<1>1. s' \in Sync /\ s'.asset = After[x.asset] /\ s'.last = x.last
  BY NextAsset
<1>2. InOrder(x.asset, s'.asset)
  BY <1>1, AfterIs DEF Data, InOrder
<1>3. ASSUME Enforced, HasData(x) PROVE HasData(s')
  BY <1>1, <1>3, AfterIs DEF Data, HasData
<1> QED  BY <1>1, <1>2, <1>3 DEF Onward, Data

\* An attempt is counted.
LEMMA Attempted ==
  ASSUME NEW x \in Sync
  PROVE  LET y == [x EXCEPT !.attempt = @ + 1]
         IN y \in Sync /\ y.asset = x.asset /\ y.last = x.last
<1>1. x.attempt \in Nat
  BY Zenon DEF Sync
<1>2. x.attempt + 1 \in Nat
  BY <1>1
<1>3. ASSUME NEW n \in Nat
      PROVE  LET y == [x EXCEPT !.attempt = n]
             IN y \in Sync /\ y.asset = x.asset /\ y.last = x.last
  BY Zenon DEF Sync
<1> QED  BY <1>2, <1>3

\* A peer is asked, or is not.
LEMMA SameStage ==
  ASSUME NEW x \in Sync, s' \in {x, [x EXCEPT !.attempt = @ + 1]}
  PROVE  Onward(x)
<1>1. s' \in Sync /\ s'.asset = x.asset /\ s'.last = x.last
  BY Attempted, Zenon
<1> QED  BY <1>1 DEF Onward, InOrder, HasData

\* The stage of the sporks is over.
LEMMA SporksOver ==
  ASSUME NEW x \in Sync, x.asset = "sporks", x.attempt >= 2,
         s' = [GetNextAsset(x) EXCEPT !.attempt = @ + 1]
  PROVE  Onward(x)
<1> DEFINE y == GetNextAsset(x)
<1>1. y \in Sync /\ y.asset = "list"
  BY NextAsset, AfterIs
<1> HIDE DEF y
<1>2. s' \in Sync /\ s'.asset = "list"
  BY <1>1, Attempted DEF y
<1>3. x.attempt # 0
  OBVIOUS
<1> QED  BY <1>2, <1>3 DEF Onward, InOrder, HasData

\* The sync fails.
LEMMA SyncFails ==
  ASSUME NEW x \in Sync, x.asset \in {"list", "winners"},
         s' = [x EXCEPT !.asset = "failed", !.attempt = 0, !.retry = FALSE]
  PROVE  Onward(x)
<1>1. s' \in Sync /\ s'.asset = "failed"
  BY Zenon DEF Sync, Assets
<1> QED  BY <1>1 DEF Onward, InOrder, HasData

LEMMA Loop ==
  ASSUME NEW x \in Sync, NEW f,
         \/ s' = x
         \/ BudgetTimeout(x, f)
         \/ \E p \in Peers : AskForSporks(x, f, p) \/ AskForList(x, f, p) \/ AskForBudget(x, f, p)
  PROVE  Onward(x)
<1>1. CASE s' = x
  BY <1>1, SameStage
<1>2. CASE BudgetTimeout(x, f)
  <2>1. x.asset = "budget" /\ s' = GetNextAsset(x)
    BY <1>2 DEF BudgetTimeout
  <2> QED  BY <2>1, StageOver DEF Data
<1>3. ASSUME NEW p \in Peers, AskForSporks(x, f, p) PROVE Onward(x)
  <2>1. CASE x.attempt >= 2
    <3>1. x.asset = "sporks" /\ s' = [GetNextAsset(x) EXCEPT !.attempt = @ + 1]
      BY <1>3, <2>1 DEF AskForSporks
    <3> QED  BY <2>1, <3>1, SporksOver
  <2>2. CASE ~(x.attempt >= 2)
    <3>1. s' = [x EXCEPT !.attempt = @ + 1]
      BY <1>3, <2>2 DEF AskForSporks
    <3> QED  BY <3>1, SameStage
  <2> QED  BY <2>1, <2>2
<1>4. ASSUME NEW p \in Peers, AskForList(x, f, p) PROVE Onward(x)
  <2>1. /\ x.asset \in {"list", "winners"}
        /\ s' \in {Failed(x), x, [x EXCEPT !.attempt = @ + 1]}
    BY <1>4 DEF AskForList
  <2>2. CASE s' = Failed(x) /\ Enforced
    BY <2>1, <2>2, SyncFails, Zenon DEF Failed
  <2>3. CASE s' = Failed(x) /\ ~Enforced
    BY <2>1, <2>3, StageOver DEF Failed, Data
  <2>4. CASE s' \in {x, [x EXCEPT !.attempt = @ + 1]}
    BY <2>4, SameStage
  <2> QED  BY <2>1, <2>2, <2>3, <2>4
<1>5. ASSUME NEW p \in Peers, AskForBudget(x, f, p) PROVE Onward(x)
  <2>1. s' \in {x, [x EXCEPT !.attempt = @ + 1]}
    BY <1>5 DEF AskForBudget
  <2> QED  BY <2>1, SameStage
<1> QED  BY <1>1, <1>2, <1>3, <1>4, <1>5

-----------------------------------------------------------------------------
(* Every step.                                                             *)

LEMMA ProcessOK ==
  ASSUME SyncInv, NEW recent \in BOOLEAN, NEW clears \in BOOLEAN, NEW loops \in BOOLEAN,
         NEW enabled \in BOOLEAN, Process(recent, clears, loops, enabled)
  PROVE  SyncInv' /\ StageStep
<1> DEFINE x == IsBlockchainSynced(Begun(enabled), recent)
           f == IF Clears(enabled) THEN ClearFulfilledRequest(clears) ELSE fulfilled
<1>1. /\ ~Returns(enabled) /\ reading = "none"
      /\ forced' = (forced /\ ~Begins(enabled))
      /\ raced' = (raced /\ ~Begins(enabled))
  BY DEF Process
<1>2. /\ x \in Sync
      /\ \/ x.asset = "initial"
         \/ ~Begins(enabled) /\ s.asset = "initial" /\ x.asset = "sporks" /\ x.attempt = 0
         \/ /\ ~Begins(enabled) /\ x.asset = s.asset /\ x.last = s.last
            /\ s.asset \notin {"initial", "finished", "failed"}
  BY <1>1, LoopStart
<1>3. \/ MoveOn(x, f)
      \/ /\ reading' = reading
         /\ \/ s' = x
            \/ BudgetTimeout(x, f)
            \/ \E p \in Peers : AskForSporks(x, f, p) \/ AskForList(x, f, p) \/ AskForBudget(x, f, p)
  BY DEF Process
<1> HIDE DEF x, f
<1>4. /\ MoveOn(x, f) => /\ s' = x /\ reading' = x.asset
                         /\ x.asset \in Data /\ x.last[x.asset] # "never"
  BY DEF MoveOn, Completed
<1>5. Onward(x)
  BY <1>2, <1>3, <1>4, Loop
<1>6. SyncTypes'
  BY <1>1, <1>3, <1>4, <1>5 DEF Onward, SyncInv, SyncTypes
<1>7. StageStep
  BY <1>2, <1>5 DEF Onward, StageStep, InOrder
<1>8. ReadOK'
  <2>1. s'.asset # "none"
    BY <1>6, NoStage, Zenon DEF SyncTypes, Sync
  <2> QED  BY <2>1, <1>1, <1>3, <1>4 DEF ReadOK
<1>9. Gathered'
  <2> SUFFICES ASSUME Enforced, ~forced', ~raced' PROVE HasData(s')
    BY DEF Gathered, HasData
  <2>1. CASE x.asset = "initial"
    BY <2>1, <1>5 DEF Onward, HasData
  <2>2. CASE x.asset = "sporks" /\ x.attempt = 0
    BY <2>2, <1>5 DEF Onward, HasData
  <2>3. CASE ~Begins(enabled) /\ x.asset = s.asset /\ x.last = s.last
    <3>1. ~forced /\ ~raced
      BY <2>3, <1>1 DEF SyncInv
    <3>2. HasData(x)
      BY <3>1, <2>3 DEF SyncInv, Gathered, HasData
    <3> QED  BY <3>2, <1>5 DEF Onward
  <2> QED  BY <1>2, <2>1, <2>2, <2>3
<1> QED  BY <1>6, <1>7, <1>8, <1>9 DEF SyncInv

\* The write of GetNextAsset: the stage after the one it read, and the history
\* tells when that is not the stage any more.
LEMMA WritesOK ==
  ASSUME SyncInv, GetNextAssetWrites PROVE SyncInv' /\ StageStep
<1>1. /\ reading \in Data /\ reading' = "none" /\ forced' = forced
      /\ raced' = (raced \/ s.asset # reading)
      /\ s' = [s EXCEPT !.asset = After[reading], !.attempt = 0, !.overdue = FALSE]
  BY DEF GetNextAssetWrites, SyncInv, SyncTypes
<1>2. After[reading] \in Assets
  BY <1>1, AfterIs, Zenon DEF Assets, Data
<1>3. s' \in Sync /\ s'.asset = After[reading] /\ s'.last = s.last
  BY <1>1, <1>2, Zenon DEF SyncInv, SyncTypes, Sync
<1>4. SyncTypes'
  BY <1>1, <1>3 DEF SyncInv, SyncTypes
<1>5. ReadOK'
  BY <1>1, <1>2, <1>3, NoStage DEF ReadOK
<1>6. CASE s.asset = reading
  <2>1. StageStep
    BY <1>1, <1>3, <1>6, AfterIs DEF Data, StageStep, InOrder
  <2>2. ASSUME Enforced, ~forced', ~raced' PROVE HasData(s')
    <3>1. HasData(s) /\ s.last[reading] # "never"
      BY <1>1, <1>6, <2>2 DEF SyncInv, Gathered, ReadOK
    <3> QED  BY <3>1, <1>1, <1>3, <1>6, AfterIs DEF Data, HasData
  <2>3. Gathered'
    BY <2>2 DEF Gathered, HasData
  <2> QED  BY <2>1, <2>3, <1>4, <1>5 DEF SyncInv
<1>7. CASE s.asset # reading
  <2>1. Gathered'
    BY <1>1, <1>7 DEF Gathered
  <2>2. StageStep
    BY <1>1, <1>7 DEF Data, StageStep
  <2> QED  BY <2>1, <2>2, <1>4, <1>5 DEF SyncInv
<1> QED  BY <1>6, <1>7

\* A step that leaves the stage alone and forgets no item.
LEMMA StageKept ==
  ASSUME SyncInv, s' \in Sync, s'.asset = s.asset,
         reading' = reading, forced' = forced, raced' = raced,
         \A d \in Data : s.last[d] # "never" => s'.last[d] # "never"
  PROVE  SyncInv' /\ StageStep
<1>1. HasData(s) => HasData(s')
  BY DEF HasData, Data
<1>2. Gathered'
  BY <1>1 DEF SyncInv, Gathered, HasData
<1>3. SyncTypes'
  BY DEF SyncInv, SyncTypes
<1>4. ReadOK'
  <2>0. s.asset \in Assets /\ reading \in Data \cup {"none"}
    BY Zenon DEF SyncInv, SyncTypes, Sync
  <2>1. s.asset = reading => reading \in Data
    BY <2>0, NoStage, Zenon
  <2> QED  BY <2>1 DEF SyncInv, ReadOK
<1> QED  BY <1>2, <1>3, <1>4 DEF SyncInv, StageStep, InOrder

\* A step back to the beginning.
LEMMA StartsOver ==
  ASSUME SyncInv, s' \in Sync, s'.asset = "initial",
         reading' = reading, forced' \in BOOLEAN, raced' \in BOOLEAN
  PROVE  SyncInv' /\ StageStep
<1>1. SyncTypes' /\ ReadOK'
  BY NoStage DEF SyncInv, SyncTypes, ReadOK
<1> QED  BY <1>1 DEF SyncInv, Gathered, HasData, StageStep, InOrder

\* What an operator has pushed on.
LEMMA Pushed ==
  ASSUME SyncInv, s' \in Sync, s'.asset = After[s.asset],
         reading' = reading, forced' = TRUE, raced' = raced
  PROVE  SyncInv' /\ StageStep
<1>1. StageStep
  BY AfterIs, ZenonT(60) DEF SyncInv, SyncTypes, Sync, Assets, Data, StageStep, InOrder
<1> QED  BY <1>1 DEF SyncInv, SyncTypes, Gathered, ReadOK

LEMMA SyncNextOK == ASSUME SyncInv, [SyncNext]_syncVars PROVE SyncInv' /\ StageStep
<1>0. s \in Sync /\ forced \in BOOLEAN /\ raced \in BOOLEAN
  BY DEF SyncInv, SyncTypes
<1>1. ASSUME NEW recent \in BOOLEAN, NEW loops \in BOOLEAN, NEW enabled \in Asks(s.asset = "finished"),
             NEW clears \in Asks(Clears(enabled)), Process(recent, clears, loops, enabled)
      PROVE  SyncInv' /\ StageStep
  <2>1. enabled \in BOOLEAN /\ clears \in BOOLEAN
    BY Zenon DEF Asks
  <2> QED  BY <1>1, <2>1, ProcessOK
<1>2. ASSUME NEW d \in Data, AddedItem(d) PROVE SyncInv' /\ StageStep
  <2>0. s.seen[d] \in 0..Threshold /\ Threshold \in Nat /\ Threshold # 0
    BY <1>0, SyncAssumption, Zenon DEF Sync
  <2>1. reading' = reading /\ forced' = forced /\ raced' = raced
    BY <1>2 DEF AddedItem
  <2>2. PICK n \in 0..Threshold : s' = [s EXCEPT !.last[d] = "lately", !.seen[d] = n]
    <3>1. CASE /\ s.seen[d] < Threshold
               /\ s' = [s EXCEPT !.last[d] = "lately", !.seen[d] = @ + 1]
      <4>1. s.seen[d] + 1 \in 0..Threshold
        BY <2>0, <3>1
      <4> QED  BY <3>1, <4>1
    <3>2. CASE s' = [s EXCEPT !.last[d] = "lately", !.seen[d] = IF @ = 0 THEN 1 ELSE @]
      <4>1. (IF s.seen[d] = 0 THEN 1 ELSE s.seen[d]) \in 0..Threshold
        BY <2>0
      <4> QED  BY <3>2, <4>1
    <3> QED  BY <1>2, <3>1, <3>2 DEF AddedItem
  <2>3. /\ s' \in Sync /\ s'.asset = s.asset
        /\ s'.last = [s.last EXCEPT ![d] = "lately"]
    BY <1>0, <2>2, Zenon DEF Sync
  <2>4. \A e \in Data : s.last[e] # "never" => s'.last[e] # "never"
    BY <1>0, <2>3, Zenon DEF Sync
  <2> QED  BY <2>1, <2>3, <2>4, StageKept
<1>3. ASSUME NEW d \in Data, ItemsStop(d) PROVE SyncInv' /\ StageStep
  <2>1. /\ s' = [s EXCEPT !.last[d] = "long ago"]
        /\ reading' = reading /\ forced' = forced /\ raced' = raced
    BY <1>3, Zenon DEF ItemsStop
  <2>2. /\ s' \in Sync /\ s'.asset = s.asset
        /\ s'.last = [s.last EXCEPT ![d] = "long ago"]
    BY <1>0, <2>1, Zenon DEF Sync
  <2>3. \A e \in Data : s.last[e] # "never" => s'.last[e] # "never"
    BY <1>0, <2>2, Zenon DEF Sync
  <2> QED  BY <2>1, <2>2, <2>3, StageKept, Zenon
<1>4. ASSUME NEW b \in Asks(s.slept \/ ~s.chain), Called(b) PROVE SyncInv' /\ StageStep
  <2>0. b \in BOOLEAN
    BY Zenon DEF Asks
  <2>1. /\ s' = IsBlockchainSynced(s, b) /\ reading' = reading
        /\ forced' = (forced /\ ~s.slept) /\ raced' = (raced /\ ~s.slept)
    BY <1>4 DEF Called
  <2>2. /\ s' \in Sync
        /\ s.slept => s'.asset = "initial"
        /\ ~s.slept => s'.asset = s.asset /\ s'.last = s.last
    BY <1>0, <2>0, <2>1, BlockchainSynced
  <2>3. CASE s.slept
    <3>1. forced' \in BOOLEAN /\ raced' \in BOOLEAN
      BY <2>1
    <3> QED  BY <2>1, <2>2, <2>3, <3>1, StartsOver
  <2>4. CASE ~s.slept
    <3>1. forced' = forced /\ raced' = raced
      BY <1>0, <2>1, <2>4
    <3> QED  BY <2>1, <2>2, <2>4, <3>1, StageKept
  <2> QED  BY <2>3, <2>4
<1>5. ASSUME NEW b \in Asks(s.asset \in {"initial", "failed"}), RpcNext(b)
      PROVE  SyncInv' /\ StageStep
  <2>1. b \in BOOLEAN
    BY Zenon DEF Asks
  <2> QED  BY <1>0, <1>5, <2>1, NextAsset, Pushed DEF RpcNext
<1>6. CASE RpcReset
  BY <1>6, ResetIs, StartsOver, Zenon DEF RpcReset
<1>7. CASE GetNextAssetWrites
  BY <1>7, WritesOK
<1>8. CASE StageTakesLong \/ MinutePasses \/ Sleep
  <2>1. /\ \/ s' = [s EXCEPT !.overdue = TRUE]
           \/ s' = [s EXCEPT !.retry = TRUE]
           \/ s' = [s EXCEPT !.slept = TRUE]
        /\ reading' = reading /\ forced' = forced /\ raced' = raced
    BY <1>8 DEF StageTakesLong, MinutePasses, Sleep
  <2>2. s' \in Sync /\ s'.asset = s.asset /\ s'.last = s.last
    BY <1>0, <2>1, ZenonT(60) DEF Sync
  <2> QED  BY <2>1, <2>2, StageKept
<1>9. CASE UNCHANGED syncVars \/ \E p \in Peers : Connect(p) \/ Disconnect(p)
  <2>1. s' = s /\ reading' = reading /\ forced' = forced /\ raced' = raced
    BY <1>9 DEF syncVars, Connect, Disconnect
  <2> QED  BY <1>0, <2>1, StageKept
<1> QED
  BY <1>1, <1>2, <1>3, <1>4, <1>5, <1>6, <1>7, <1>8, <1>9 DEF SyncNext

LEMMA AlwaysSyncInv == SyncSpec => []SyncInv
<1>1. SyncInit => SyncInv
  <2> SUFFICES ASSUME SyncInit PROVE SyncInv
    OBVIOUS
  <2>1. SyncTypes /\ s.asset = "initial" /\ HasData(s)
    BY ResetIs, Zenon DEF SyncInit, SyncTypes
  <2> QED  BY <2>1 DEF SyncInit, SyncInv, Gathered, ReadOK
<1>2. SyncInv /\ [SyncNext]_syncVars => SyncInv'
  BY SyncNextOK
<1> QED  BY <1>1, <1>2, PTL DEF SyncSpec

-----------------------------------------------------------------------------
(* IsSynced: a node that enforces masternode payments has items of the     *)
(* list and of the winners, through failures, resets and sleeps in any     *)
(* order, unless "mnsync next" pushed it on or GetNextAsset wrote over a   *)
(* reset.                                                                  *)
THEOREM SyncedAlwaysHasData == SyncSpec => []SyncedHasData
<1>1. SyncInv => SyncedHasData
  BY DEF SyncInv, Gathered, HasData, SyncedHasData
<1> QED  BY <1>1, AlwaysSyncInv, PTL

(* GetNextAsset and Reset never skip a stage or go back to one in the      *)
(* middle, whichever thread calls them, except where GetNextAsset writes   *)
(* over a stage that it has not read.                                      *)
THEOREM StagesAlwaysInOrder == SyncSpec => StagesInOrder
<1> DEFINE Ordered ==
  \/ s'.asset \in {s.asset, "initial"}
  \/ \E step \in {<<"initial", "sporks">>, <<"sporks", "list">>, <<"list", "winners">>,
                  <<"winners", "budget">>, <<"budget", "finished">>,
                  <<"list", "failed">>, <<"winners", "failed">>} :
       step = <<s.asset, s'.asset>>
  \/ s.asset = "failed" /\ s'.asset = "sporks" /\ forced'
  \/ reading \notin {"none", s.asset} /\ reading' = "none"
<1>1. StageStep => Ordered
  BY DEF StageStep, InOrder
<1>2. SyncInv /\ [SyncNext]_syncVars => [Ordered]_syncVars
  BY <1>1, SyncNextOK
<1> QED  BY <1>2, AlwaysSyncInv, PTL DEF SyncSpec, StagesInOrder
=============================================================================
