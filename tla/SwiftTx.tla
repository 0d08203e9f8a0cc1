------------------------------- MODULE SwiftTx -------------------------------
(***************************************************************************)
(* SwiftX transaction locks at one node (swifttx.cpp): requests ("ix"),     *)
(* the votes of masternodes ("txlvote"), the inputs a lock holds, and the   *)
(* clean-up of the masternode thread.  Requests and votes come in any       *)
(* order, late, or not at all; the memory pool and the chain move under     *)
(* them.  Sporks 2 and 3 are on; requests that IsIXTXValid refuses change    *)
(* nothing and are left out, and so is mapUnknownVotes, which only decides  *)
(* whether a vote is relayed.                                               *)
(***************************************************************************)
EXTENDS Naturals, Sequences, FiniteSets

CONSTANTS
  Txs, Inputs, InputsOf,  \* transactions and what they spend
  Own,                    \* those sent from this node
  Masternodes,            \* the first SWIFTTX_SIGNATURES_TOTAL of the ranking
  Required,               \* SWIFTTX_SIGNATURES_REQUIRED
  Self,                   \* this node, when it is a masternode
  NoLock, Nobody

ASSUME SwiftAssumption ==
  /\ InputsOf \in [Txs -> SUBSET Inputs]
  /\ Required \in Nat \ {0}
  /\ Nobody \notin Txs

VARIABLES
  req,       \* mapTxLockReq
  blank,     \* those of its transactions that operator[] made, with no input
  rejected,  \* mapTxLockReqRejected
  seen,      \* mapTxLockVote, by masternode and transaction
  lock,      \* mapTxLocks
  holder,    \* mapLockedInputs
  cancelled, \* locks whose nExpiration CheckForConflictingLocks set to now
  expired,   \* locks whose nExpiration has passed
  notified,  \* transactions passed to NotifyTransactionLock
  aged,      \* transactions whose inputs are old enough for CreateNewLock
  ranked,    \* masternodes that this node knows and ranks
  pool,      \* the memory pool
  mined      \* transactions in the active chain

locks == <<req, blank, rejected, seen, lock, holder, cancelled, expired, notified>>
node  == <<aged, ranked, pool, mined>>
vars  == <<locks, node>>

Vote == [mn : Masternodes, good : BOOLEAN]

(* CountSignatures: -1 before CreateNewLock has given the height, then the *)
(* votes for that height.                                                  *)
Signatures(l) == Cardinality({k \in DOMAIN l.votes : l.votes[k].good})
Counts(l, n)  == l # NoLock /\ l.dated /\ Signatures(l) = n
Complete(l)   == l # NoLock /\ l.dated /\ Signatures(l) >= Required

Rivals(t) == {u \in Txs \ {t} : InputsOf[u] \cap InputsOf[t] # {}}

(* AcceptToMemoryPool, as far as locks and conflicts decide it.            *)
Acceptable(t) ==
  /\ t \notin pool \cup mined
  /\ \A i \in InputsOf[t] : holder[i] \in {t, Nobody}
  /\ Rivals(t) \cap (pool \cup mined) = {}

(* CreateNewLock: nothing for an input that is too new.                    *)
NewLock(t) ==
  IF t \notin aged THEN lock
  ELSE [lock EXCEPT ![t] = [dated |-> TRUE, votes |-> IF lock[t] = NoLock THEN <<>> ELSE lock[t].votes]]

(* Inputs in S that nobody holds are held by t from now on.                *)
Taken(t, S) == [i \in Inputs |-> IF i \in S /\ holder[i] = Nobody THEN t ELSE holder[i]]

(* CheckForConflictingLocks finds another holder h of an input in S.       *)
ConflictOver(t, S, h, held) == \E i \in S : held[i] = h /\ h \notin {t, Nobody}
Conflicting(t, S, held)     == \E h \in Txs : ConflictOver(t, S, h, held)

Cancel(S, l) == cancelled' = cancelled \cup {u \in S : l[u] # NoLock}

(* Faulty: what the blocks held comes back to the pool unchecked.          *)
ReprocessUnchecked(held) ==
  \E left \in SUBSET mined :
    /\ mined' = mined \ left
    /\ pool' = pool \cup {m \in left : Rivals(m) \cap pool = {}}

(* ReprocessBlocks(15): the last blocks are disconnected, and each offers  *)
(* its transactions to the pool again.  Those with the transactions `left` *)
(* are not connected again: a held input forbids them, a block below them, *)
(* or a branch that ReconsiderBlock readmits is better (its blocks come    *)
(* with ConnectBlock).  What lies deeper stays, forbidden or not.          *)
ReprocessBlocks(held) ==
  \E left \in SUBSET mined :
    /\ mined' = mined \ left
    /\ pool' = pool \cup {m \in left : /\ Rivals(m) \cap pool = {}
                                       /\ \A i \in InputsOf[m] : held[i] \in {m, Nobody}}

-----------------------------------------------------------------------------
Init ==
  /\ req = {} /\ blank = {} /\ rejected = {} /\ seen = {}
  /\ lock = [t \in Txs |-> NoLock]
  /\ holder = [i \in Inputs |-> Nobody]
  /\ cancelled = {} /\ expired = {} /\ notified = {}
  /\ aged = {} /\ ranked = {} /\ pool = {} /\ mined = {}

(* "ix" for a transaction that the memory pool accepts; the node's own     *)
(* vote is remembered and relayed but not added to the lock.               *)
RequestAccepted(t) ==
  /\ t \notin req \cup rejected /\ Acceptable(t)
  /\ lock' = NewLock(t)
  /\ pool' = pool \cup {t}
  /\ seen' = IF Self \in ranked THEN seen \cup {<<Self, t>>} ELSE seen
  /\ req' = req \cup {t}
  /\ notified' = IF Counts(lock'[t], Required) THEN notified \cup {t} ELSE notified
  /\ UNCHANGED <<blank, rejected, holder, cancelled, expired, aged, ranked, mined>>

(* "ix" for a transaction that the memory pool refuses.                    *)
RequestRejected(t) ==
  /\ t \notin req \cup rejected /\ ~Acceptable(t)
  /\ lock' = NewLock(t)
  /\ rejected' = rejected \cup {t}
  /\ holder' = Taken(t, InputsOf[t])
  /\ \/ /\ ~Complete(lock'[t])
        /\ UNCHANGED <<req, cancelled, pool, mined>>
     \/ /\ Complete(lock'[t]) /\ ~Conflicting(t, InputsOf[t], holder')
        /\ ReprocessBlocks(holder')
        /\ req' = req \cup {t}
        /\ UNCHANGED cancelled
     \/ /\ Complete(lock'[t])
        /\ \E h \in Txs : ConflictOver(t, InputsOf[t], h, holder') /\ Cancel({t, h}, lock')
        /\ UNCHANGED <<req, pool, mined>>
  /\ UNCHANGED <<blank, seen, expired, notified, aged, ranked>>

(* sendrawtransaction with swiftx: the request is remembered first.        *)
SendRaw(t) ==
  /\ t \in Own /\ t \notin pool \cup mined
  /\ req' = req \cup {t}
  /\ lock' = NewLock(t)
  /\ pool' = IF Acceptable(t) THEN pool \cup {t} ELSE pool
  /\ UNCHANGED <<blank, rejected, seen, holder, cancelled, expired, notified, aged, ranked, mined>>

(* The wallet relays a transaction of its own as "ix".                     *)
RelayWalletTransaction(t) ==
  /\ t \in Own \cap pool
  /\ req' = req \cup {t}
  /\ lock' = NewLock(t)
  /\ UNCHANGED <<blank, rejected, seen, holder, cancelled, expired, notified, node>>

(* AddSignature, on a lock made for the vote if there is none.             *)
Added(v, t) ==
  [lock EXCEPT ![t] =
     [dated |-> lock[t] # NoLock /\ lock[t].dated,
      votes |-> Append(IF lock[t] = NoLock THEN <<>> ELSE lock[t].votes, v)]]

(* "txlvote" from a masternode that this node does not know or rank: the   *)
(* vote is remembered all the same, and so is never looked at again.       *)
VoteIgnored(v, t) ==
  /\ v.mn \notin ranked
  /\ UNCHANGED <<req, blank, rejected, lock, holder, cancelled, pool, mined>>

(* ProcessConsensusVote while the lock is not complete.                    *)
VoteCounted(v, t) ==
  /\ v.mn \in ranked
  /\ lock' = Added(v, t) /\ ~Complete(lock'[t])
  /\ UNCHANGED <<req, blank, rejected, holder, cancelled, pool, mined>>

(* ProcessConsensusVote once it is.  mapTxLockReq[txHash] makes a request  *)
(* without inputs when the request is not there.                           *)
VoteCompletes(v, t) ==
  LET S == IF t \in req \ blank THEN InputsOf[t] ELSE {}
  IN /\ v.mn \in ranked
     /\ lock' = Added(v, t) /\ Complete(lock'[t])
     /\ req' = req \cup {t}
     /\ blank' = blank \cup ({t} \ req)
     /\ \/ /\ ~Conflicting(t, S, holder)
           /\ holder' = Taken(t, S)
           /\ IF t \in rejected THEN ReprocessBlocks(holder') ELSE UNCHANGED <<pool, mined>>
           /\ UNCHANGED cancelled
        \/ /\ \E h \in Txs : ConflictOver(t, S, h, holder) /\ Cancel({t, h}, lock')
           /\ UNCHANGED <<holder, pool, mined>>
     /\ UNCHANGED rejected

(* Faulty: a vote that was already received is handled again.              *)
VoteHandledAgain(v, t) ==
  /\ v.mn # Self
  /\ seen' = seen \cup {<<v.mn, t>>}
  /\ VoteIgnored(v, t) \/ VoteCounted(v, t) \/ VoteCompletes(v, t)
  /\ lock' # lock => Len(lock'[t].votes) <= 3
  /\ notified' = notified
  /\ UNCHANGED <<expired, aged, ranked>>

(* "txlvote": each masternode is heard once for each transaction.          *)
HandleVote(v, t) ==
  /\ v.mn # Self /\ <<v.mn, t>> \notin seen
  /\ seen' = seen \cup {<<v.mn, t>>}
  /\ VoteIgnored(v, t) \/ VoteCounted(v, t) \/ VoteCompletes(v, t)
  /\ notified' = IF t \in req' \ blank' /\ Counts(lock'[t], Required)
                   THEN notified \cup {t} ELSE notified
  /\ UNCHANGED <<expired, aged, ranked>>

(* Faulty: a lock without a request is passed over.                        *)
CleanRequestedOnly ==
  LET gone == expired \cap req
  IN /\ gone # {}
     /\ lock' = [t \in Txs |-> IF t \in gone THEN NoLock ELSE lock[t]]
     /\ req' = req \ gone
     /\ blank' = blank \ gone
     /\ cancelled' = cancelled \ gone
     /\ expired' = expired \ gone
     /\ UNCHANGED <<rejected, seen, holder, notified, node>>

(* CleanTransactionLocksList.  The inputs are those of the request, if     *)
(* there is one, and are freed whoever holds them.                         *)
CleanTransactionLocksList ==
  LET gone  == expired \cap req
      freed == UNION {InputsOf[t] : t \in gone \ blank}
  IN /\ expired # {} /\ expired' = {}
     /\ holder' = [i \in Inputs |-> IF i \in freed THEN Nobody ELSE holder[i]]
     /\ req' = req \ gone
     /\ blank' = blank \ gone
     /\ rejected' = rejected \ gone
     /\ seen' = {s \in seen : ~ /\ s[2] \in gone
                                /\ \E k \in DOMAIN lock[s[2]].votes : lock[s[2]].votes[k].mn = s[1]}
     /\ lock' = [t \in Txs |-> IF t \in expired THEN NoLock ELSE lock[t]]
     /\ cancelled' = cancelled \ expired
     /\ notified' = notified \ expired
     /\ UNCHANGED node

-----------------------------------------------------------------------------
(* The rest of the node: a plain transaction, a block, blocks piling up on *)
(* the inputs, a masternode becoming known, the hour going by.             *)
AcceptTx(t) ==
  /\ Acceptable(t)
  /\ pool' = pool \cup {t}
  /\ UNCHANGED <<locks, aged, ranked, mined>>

(* A block with t passes the filter of CheckBlock and is connected.        *)
ConnectBlock(t) ==
  /\ t \notin mined /\ Rivals(t) \cap mined = {}
  /\ \A i \in InputsOf[t] : holder[i] \in {t, Nobody}
  /\ mined' = mined \cup {t}
  /\ pool' = pool \ (Rivals(t) \cup {t})
  /\ UNCHANGED <<locks, aged, ranked>>

InputsAge(t) ==
  /\ t \notin aged
  /\ aged' = aged \cup {t}
  /\ UNCHANGED <<locks, ranked, pool, mined>>

MasternodeKnown(m) ==
  /\ m \notin ranked
  /\ ranked' = ranked \cup {m}
  /\ UNCHANGED <<locks, aged, pool, mined>>

HourPasses(t) ==
  /\ lock[t] # NoLock /\ t \notin expired
  /\ expired' = expired \cup {t}
  /\ UNCHANGED <<req, blank, rejected, seen, lock, holder, cancelled, notified, node>>

Next ==
  \/ \E t \in Txs :
       \/ RequestAccepted(t)
       \/ RequestRejected(t)
       \/ SendRaw(t)
       \/ RelayWalletTransaction(t)
       \/ \E v \in Vote : HandleVote(v, t)
       \/ AcceptTx(t)
       \/ ConnectBlock(t)
       \/ InputsAge(t)
       \/ HourPasses(t)
  \/ \E m \in Masternodes : MasternodeKnown(m)
  \/ CleanTransactionLocksList

Spec == Init /\ [][Next]_vars

(* The masternode thread cleans up every minute while the chain is synced, *)
(* and time passes.                                                        *)
FairSpec ==
  /\ Spec
  /\ \A t \in Txs : WF_vars(HourPasses(t))
  /\ WF_vars(CleanTransactionLocksList)

-----------------------------------------------------------------------------
(* Every variable keeps its shape; only locks that exist expire or are     *)
(* cancelled.                                                              *)
TypeOK ==
  /\ req \subseteq Txs /\ blank \subseteq req /\ rejected \subseteq Txs
  /\ seen \subseteq Masternodes \X Txs
  /\ \A t \in Txs : lock[t] # NoLock => lock[t].dated \in BOOLEAN /\ lock[t].votes \in Seq(Vote)
  /\ holder \in [Inputs -> Txs \cup {Nobody}]
  /\ \A t \in cancelled \cup expired : t \in Txs /\ lock[t] # NoLock
  /\ notified \subseteq req
  /\ aged \subseteq Txs /\ ranked \subseteq Masternodes
  /\ pool \subseteq Txs /\ mined \subseteq Txs

(* A masternode's vote is counted at most once in a lock (CountSignatures  *)
(* adds up vecConsensusVotes and relies on mapTxLockVote for this), also   *)
(* after locks have expired and been made again.                           *)
CountedOnce ==
  \A t \in Txs : lock[t] # NoLock =>
    \A j, k \in DOMAIN lock[t].votes : lock[t].votes[j].mn = lock[t].votes[k].mn => j = k

(* What a lock is for: while a transaction holds all its inputs, nothing   *)
(* that conflicts with it gets into the pool or the chain, and a block     *)
(* that ReprocessBlocks undoes gives no rival of it back to the pool.      *)
HoldsInputs(t) == \A i \in InputsOf[t] : holder[i] = t
RivalsStayOut ==
  [][\A t \in Txs : HoldsInputs(t) /\ HoldsInputs(t)' =>
       /\ Rivals(t) \cap pool' \subseteq pool
       /\ Rivals(t) \cap mined' \subseteq mined]_vars

(* "keep transaction locks in memory for an hour" (swifttx.h:61): every    *)
(* lock, also one known from votes only, is removed in the end.            *)
LocksGoAway == \A t \in Txs : []<>(lock[t] = NoLock)

-----------------------------------------------------------------------------
(* "only reject blocks when it's based on complete consensus"              *)
(* (main.cpp:4382): an input that CheckBlock defends belongs to a complete *)
(* lock.                                                                   *)
HeldByCompleteLock ==
  \A i \in Inputs : holder[i] # Nobody => Complete(lock[holder[i]])

(* "found two complete conflicting locks - removing both"                  *)
(* (swifttx.cpp:412): when locks are cancelled, both are complete.         *)
CancelsCompleteLocks == \A t \in cancelled : Complete(lock[t])

(* "When a Transaction Lock occurs the hash of the related transaction is  *)
(* broadcasted" (doc/swifttx.md:9): a complete lock of a request that came *)
(* over the network and was accepted has been notified.                    *)
CompleteIsNotified ==
  \A t \in (req \cap pool) \ (Own \cup rejected) : Complete(lock[t]) => t \in notified

(* "locks expire after 60 minutes" (swifttx.cpp:250): an input that is     *)
(* held is released in the end.                                            *)
InputsReleased == \A i \in Inputs : holder[i] # Nobody ~> holder[i] = Nobody
=============================================================================
