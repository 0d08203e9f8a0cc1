----------------------------- MODULE ChainState -----------------------------
(***************************************************************************)
(* The block tree and the choice of the active chain (main.cpp): accepting *)
(* a block, ActivateBestChain in its many small critical sections, the     *)
(* operator's invalidateblock and reconsiderblock, and ReprocessBlocks.    *)
(*                                                                         *)
(* A thread runs one of these at a time.  cs_main is a variable; a         *)
(* critical section that the code runs as a whole is one action, except    *)
(* that ActivateBestChain takes one step per block it connects or          *)
(* disconnects.                                                            *)
(***************************************************************************)
EXTENDS Naturals, FiniteSets

CONSTANTS
  Blocks,       \* the blocks that exist in the world
  Genesis,      \* Params().GenesisBlock()
  Parent,       \* hashPrevBlock, for every block but the genesis block
  Anc,          \* a block and all its ancestors: the pprev chain
  Work,         \* nChainWork: the cumulative work
  BadContext,   \* blocks that ContextualCheckBlock refuses
  BadConnect,   \* blocks that ConnectBlock finds invalid
  BadDisk,      \* blocks whose stored copy fails CheckBlock with fCorruptionPossible
  NoVerdict,    \* blocks for which ConnectBlock may fail with no verdict
  ForkRisk,     \* proof-of-stake blocks that the fork checks may refuse
  Disputed,     \* blocks whose CheckBlock depends on transaction locks and votes
  Checkpointed, \* blocks that are an exact match of a checkpoint
  Threads,      \* message handler, RPC and staking threads
  Ops,          \* which of "invalidate", "reconsider", "reprocess" are used
  nBlocks,      \* the argument of ReprocessBlocks
  NoBlock,      \* the null CBlockIndex*
  NoThread      \* cs_main is free

(* The blocks form a tree rooted at the genesis block: the ancestors of a  *)
(* block are its parent's and itself, they form a chain, and every one but *)
(* the block itself has the next one as a child.                           *)
ASSUME TreeAssumption ==
  /\ Genesis \in Blocks /\ NoBlock \notin Blocks
  /\ Parent \in [Blocks \ {Genesis} -> Blocks]
  /\ Anc \in [Blocks -> SUBSET Blocks]
  /\ Anc[Genesis] = {Genesis}
  /\ \A b \in Blocks \ {Genesis} :
        Anc[b] = Anc[Parent[b]] \cup {b} /\ b \notin Anc[Parent[b]]
  /\ \A b \in Blocks :
        /\ Genesis \in Anc[b]
        /\ \A a \in Anc[b] : Anc[a] \subseteq Anc[b]
        /\ \A a, c \in Anc[b] : a \in Anc[c] \/ c \in Anc[a]
        /\ \A a \in Anc[b] \ {b} : \E c \in Anc[b] \ {Genesis} : Parent[c] = a

(* The cumulative work grows along a chain: GetBlockProof is positive.     *)
ASSUME WorkAssumption ==
  /\ Work \in [Blocks -> Nat]
  /\ \A b \in Blocks : \A a \in Anc[b] \ {b} : Work[a] < Work[b]

ASSUME ParameterAssumption ==
  /\ Checkpointed \subseteq Blocks /\ Disputed \subseteq Blocks \ {Genesis}
  /\ nBlocks \in Nat /\ IsFiniteSet(Blocks)
  /\ NoThread \notin Threads

VARIABLES
  index,       \* mapBlockIndex
  haveData,    \* BLOCK_HAVE_DATA (nTx > 0)
  level,       \* nStatus & BLOCK_VALID_MASK
  failedValid, \* BLOCK_FAILED_VALID
  failedChild, \* BLOCK_FAILED_CHILD
  linked,      \* nChainTx > 0
  seq,         \* nSequenceId
  nextSeq,     \* nBlockSequenceId
  candidates,  \* setBlockIndexCandidates
  unlinked,    \* mapBlocksUnlinked, each child standing for its pair
  tip,         \* chainActive.Tip(); chainActive is Anc[tip]
  bestInvalid, \* pindexBestInvalid
  bestHeader,  \* pindexBestHeader
  rejected,    \* mapRejectedBlocks
  conflicting, \* disputed blocks that CheckBlock refuses at the moment
  csMain,      \* the owner of cs_main
  pc,          \* where each thread is
  blk,         \* pblock of ProcessNewBlock
  mostWork,    \* pindexMostWork of ActivateBestChain
  oldTip,      \* pindexOldTip of ActivateBestChainStep
  nested,      \* ActivateBestChain was called by AcceptBlock, inside cs_main
  todo         \* the rejected blocks ReprocessBlocks has still to reconsider

status  == <<index, haveData, level, failedValid, failedChild, linked, seq, nextSeq>>
chain   == <<candidates, unlinked, tip, bestInvalid, bestHeader>>
checks  == <<rejected, conflicting>>
locals  == <<blk, mostWork, oldTip, nested, todo>>
vars    == <<status, chain, checks, csMain, pc, locals>>

VALID_TREE         == 2
VALID_TRANSACTIONS == 3
VALID_SCRIPTS      == 5

failed == failedValid \cup failedChild

(* CBlockIndexWorkComparator: less work, or received later.  Sequence      *)
(* numbers of linked blocks are distinct, so addresses never decide.       *)
Worse(a, b) == Work[a] < Work[b] \/ (Work[a] = Work[b] /\ seq[a] > seq[b])

(* pindexBestInvalid after another invalid block b was found.              *)
WorstOf(b) == IF bestInvalid = NoBlock \/ Work[b] > Work[bestInvalid] THEN b ELSE bestInvalid

-----------------------------------------------------------------------------
(* A thread leaves ActivateBestChain: to its caller AcceptBlock, or for    *)
(* good.                                                                   *)
Return(t) ==
  /\ pc' = [pc EXCEPT ![t] = IF nested[t] THEN "accepted" ELSE "idle"]
  /\ csMain' = IF nested[t] THEN t ELSE NoThread
  /\ blk' = IF nested[t] THEN blk ELSE [blk EXCEPT ![t] = NoBlock]
  /\ mostWork' = [mostWork EXCEPT ![t] = NoBlock]
  /\ oldTip' = [oldTip EXCEPT ![t] = NoBlock]
  /\ UNCHANGED <<nested, todo>>

(* A thread leaves cs_main with its locals as they are.                    *)
Leave(t, where) ==
  /\ pc' = [pc EXCEPT ![t] = where]
  /\ csMain' = IF nested[t] THEN t ELSE NoThread
  /\ UNCHANGED locals

(* A thread that holds cs_main goes on.                                    *)
Stay(t, where) ==
  /\ pc' = [pc EXCEPT ![t] = where]
  /\ UNCHANGED <<csMain, locals>>

(* ProcessNewBlock failed and drops the block.                             *)
Drop(t) ==
  /\ pc' = [pc EXCEPT ![t] = "idle"]
  /\ blk' = [blk EXCEPT ![t] = NoBlock]
  /\ UNCHANGED <<csMain, mostWork, oldTip, nested, todo>>

-----------------------------------------------------------------------------
Init ==
  /\ index = {Genesis} /\ haveData = {Genesis} /\ linked = {Genesis}
  /\ level = [b \in Blocks |-> IF b = Genesis THEN VALID_TRANSACTIONS ELSE 0]
  /\ failedValid = {} /\ failedChild = {}
  /\ seq = [b \in Blocks |-> IF b = Genesis THEN 1 ELSE 0]
  /\ nextSeq = 2
  /\ candidates = {Genesis} /\ unlinked = {}
  /\ tip = Genesis /\ bestInvalid = NoBlock /\ bestHeader = Genesis
  /\ rejected = {} /\ conflicting = {}
  /\ csMain = NoThread
  /\ pc = [t \in Threads |-> "idle"]
  /\ blk = [t \in Threads |-> NoBlock]
  /\ mostWork = [t \in Threads |-> NoBlock]
  /\ oldTip = [t \in Threads |-> NoBlock]
  /\ nested = [t \in Threads |-> FALSE]
  /\ todo = [t \in Threads |-> {}]

(* A transaction lock completes or expires, payment votes arrive, a spork  *)
(* changes: CheckBlock's answer about a disputed block changes.            *)
ChangeVerdict(b) ==
  /\ b \in Disputed
  /\ conflicting' = IF b \in conflicting THEN conflicting \ {b} ELSE conflicting \cup {b}
  /\ UNCHANGED <<status, chain, rejected, csMain, pc, locals>>

(* ProcessNewBlock up to cs_main: CheckBlock, without the lock.            *)
CheckNewBlock(t, b) ==
  /\ pc[t] = "idle" /\ b # Genesis
  /\ \/ /\ b \in conflicting
        /\ rejected' = rejected \cup {b}
        /\ UNCHANGED <<pc, blk>>
     \/ /\ b \notin conflicting /\ Parent[b] \in index
        /\ pc' = [pc EXCEPT ![t] = "accept"]
        /\ blk' = [blk EXCEPT ![t] = b]
        /\ UNCHANGED rejected
  /\ UNCHANGED <<status, chain, conflicting, csMain, mostWork, oldTip, nested, todo>>

-----------------------------------------------------------------------------
(* ReconsiderBlock: the flags go from the block, its descendants and its   *)
(* ancestors; only the block and its descendants become candidates again.  *)
NotValid(p) == {d \in index : p \in Anc[d] /\ ~(d \notin failed /\ level[d] >= VALID_TRANSACTIONS)}

ReconsiderBlock(p) ==
  /\ failedValid' = failedValid \ (NotValid(p) \cup Anc[p])
  /\ failedChild' = failedChild \ (NotValid(p) \cup Anc[p])
  /\ candidates' = candidates \cup
        {d \in NotValid(p) : level[d] >= VALID_TRANSACTIONS /\ d \in linked /\ Worse(tip, d)}
  /\ bestInvalid' = IF bestInvalid \in NotValid(p) THEN NoBlock ELSE bestInvalid
  /\ UNCHANGED <<index, haveData, level, linked, seq, nextSeq, unlinked, tip, bestHeader>>

(* AddToBlockIndex, for a block that may be known already.                 *)
AddToBlockIndex(b) ==
  /\ index' = index \cup {b}
  /\ bestHeader' = IF b \notin index /\ Work[bestHeader] < Work[b] THEN b ELSE bestHeader

Raise(b, to) == [level EXCEPT ![b] = IF @ < to THEN to ELSE @]

(* Faulty: only the block itself is linked, not what waited for it.        *)
NewlyLinkedAlone(b) == {b}

(* The stored descendants of b that were only waiting for b.               *)
NewlyLinked(b) == {d \in unlinked \cup {b} : b \in Anc[d] /\ Anc[d] \ Anc[b] \subseteq unlinked}

(* The sequence numbers given to the blocks of S, parents first.           *)
Numberings(S) ==
  {s \in [S -> nextSeq .. nextSeq + Cardinality(S) - 1] :
     \A a, d \in S : a # d => s[a] # s[d] /\ (a \in Anc[d] => s[a] < s[d])}

(* ReceivedBlockTransactions, after the block was written to disk.         *)
ReceivedBlockTransactions(b) ==
  /\ haveData' = haveData \cup {b}
  /\ level' = Raise(b, VALID_TRANSACTIONS)
  /\ IF Parent[b] \in linked
     THEN LET new == NewlyLinked(b) IN
          /\ linked' = linked \cup new
          /\ \E s \in Numberings(new) :
                seq' = [d \in Blocks |-> IF d \in new THEN s[d] ELSE seq[d]]
          /\ nextSeq' = nextSeq + Cardinality(new)
          /\ candidates' = candidates \cup {d \in new : ~Worse(d, tip)'}
          /\ unlinked' = unlinked \ new
     ELSE /\ unlinked' = unlinked \cup {b}
          /\ UNCHANGED <<linked, seq, nextSeq, candidates>>

(* AcceptBlock, the critical section of ProcessNewBlock, by how it ends.   *)
AcceptUnder(t) == pc[t] = "accept" /\ csMain = NoThread /\ UNCHANGED checks

AcceptOnInvalidParent(t) ==
  /\ AcceptUnder(t)
  /\ Parent[blk[t]] \in failed \ Checkpointed
  /\ Drop(t)
  /\ UNCHANGED <<status, chain>>

AcceptReconsidersParent(t) ==
  /\ AcceptUnder(t)
  /\ Parent[blk[t]] \in failed \cap Checkpointed
  /\ ReconsiderBlock(Parent[blk[t]])
  /\ nested' = [nested EXCEPT ![t] = TRUE]
  /\ pc' = [pc EXCEPT ![t] = "activate"]
  /\ csMain' = t
  /\ UNCHANGED <<blk, mostWork, oldTip, todo>>

AcceptKnown(t) ==
  /\ AcceptUnder(t)
  /\ Parent[blk[t]] \notin failed
  /\ \/ blk[t] \in failed /\ Drop(t)
     \/ blk[t] \in haveData \ failed /\ Leave(t, "activate")
  /\ UNCHANGED <<status, chain>>

AcceptHeaderOnly(t) ==
  /\ AcceptUnder(t)
  /\ Parent[blk[t]] \notin failed /\ blk[t] \notin failed \cup haveData
  /\ AddToBlockIndex(blk[t])
  /\ level' = Raise(blk[t], VALID_TREE)
  /\ \/ blk[t] \in BadContext /\ failedValid' = failedValid \cup {blk[t]}
     \/ blk[t] \in ForkRisk \ BadContext /\ UNCHANGED failedValid
  /\ Drop(t)
  /\ UNCHANGED <<haveData, failedChild, linked, seq, nextSeq,
                 candidates, unlinked, tip, bestInvalid>>

AcceptStores(t) ==
  /\ AcceptUnder(t)
  /\ Parent[blk[t]] \notin failed /\ blk[t] \notin failed \cup haveData \cup BadContext
  /\ UNCHANGED <<failedValid, failedChild, tip, bestInvalid>>
  /\ AddToBlockIndex(blk[t])
  /\ ReceivedBlockTransactions(blk[t])
  /\ Leave(t, "activate")

(* The nested ActivateBestChain is over: AcceptBlock returns true, and     *)
(* ProcessNewBlock releases cs_main and activates again.                   *)
AcceptReturns(t) ==
  /\ pc[t] = "accepted"
  /\ pc' = [pc EXCEPT ![t] = "activate"]
  /\ nested' = [nested EXCEPT ![t] = FALSE]
  /\ csMain' = NoThread
  /\ UNCHANGED <<status, chain, checks, blk, mostWork, oldTip, todo>>

-----------------------------------------------------------------------------
(* Faulty: goes on although TRY_LOCK failed.                               *)
LockUnchecked(t) ==
  /\ pc[t] = "activate"
  /\ csMain' = t
  /\ pc' = [pc EXCEPT ![t] = "find"]
  /\ oldTip' = [oldTip EXCEPT ![t] = tip]
  /\ UNCHANGED <<status, chain, checks, blk, mostWork, nested, todo>>

(* ActivateBestChain gets cs_main (TRY_LOCK, again and again).             *)
Lock(t) ==
  /\ pc[t] = "activate"
  /\ csMain = IF nested[t] THEN t ELSE NoThread
  /\ csMain' = t
  /\ pc' = [pc EXCEPT ![t] = "find"]
  /\ oldTip' = [oldTip EXCEPT ![t] = tip]
  /\ UNCHANGED <<status, chain, checks, blk, mostWork, nested, todo>>

IsBest(c) == c \in candidates /\ \A d \in candidates : ~Worse(c, d)

(* Faulty: looks at the candidate itself and not at the path to it.        *)
UnusableItself(c) == {a \in {c} \ Anc[tip] : a \in failed \/ a \notin haveData}

(* The blocks between the active chain and c that make c unusable.         *)
Unusable(c) == {a \in Anc[c] \ Anc[tip] : a \in failed \/ a \notin haveData}

(* One iteration of FindMostWorkChain: the best candidate leads to an      *)
(* unusable block b, and the chain from b up stops being a candidate.      *)
FindUnusable(t) ==
  /\ pc[t] = "find"
  /\ \E c \in candidates : \E b \in Unusable(c) :
       /\ IsBest(c) /\ Unusable(c) \subseteq Anc[b]
       /\ candidates' = candidates \ ((Anc[c] \ Anc[b]) \cup {b})
       /\ bestInvalid' = IF b \in failed THEN WorstOf(c) ELSE bestInvalid
       /\ failedChild' = IF b \in failed THEN failedChild \cup (Anc[c] \ Anc[b]) ELSE failedChild
       /\ unlinked' = IF b \in failed THEN unlinked ELSE unlinked \cup (Anc[c] \ Anc[b])
  /\ UNCHANGED <<index, haveData, level, failedValid, linked, seq, nextSeq, tip, bestHeader,
                 checks, csMain, pc, locals>>

(* FindMostWorkChain returns a chain to switch to ...                      *)
FindTarget(t) ==
  /\ pc[t] = "find"
  /\ \E c \in candidates :
       /\ IsBest(c) /\ Unusable(c) = {} /\ c # tip
       /\ mostWork' = [mostWork EXCEPT ![t] = c]
  /\ pc' = [pc EXCEPT ![t] = "step"]
  /\ UNCHANGED <<status, chain, checks, csMain, blk, oldTip, nested, todo>>

(* ... or there is nothing to do.                                          *)
FindNothing(t) ==
  /\ pc[t] = "find"
  /\ candidates = {} \/ IsBest(tip)
  /\ Return(t)
  /\ UNCHANGED <<status, chain, checks>>

(* ActivateBestChainStep, first loop: DisconnectTip.                       *)
DisconnectTip(t) ==
  /\ pc[t] = "step" /\ tip \notin Anc[mostWork[t]]
  /\ tip' = Parent[tip]
  /\ IF tip' = mostWork[t] THEN Leave(t, "test") ELSE Stay(t, "step")
  /\ UNCHANGED <<status, candidates, unlinked, bestInvalid, bestHeader, checks>>

(* Second loop: the next block towards pindexMostWork.                     *)
NextBlock(t) == CHOOSE c \in Anc[mostWork[t]] \ {Genesis} : Parent[c] = tip
Connecting(t) ==
  pc[t] = "step" /\ tip \in Anc[mostWork[t]] /\ tip # mostWork[t]

(* The block at hand is the one ProcessNewBlock holds in memory, so it is  *)
(* neither read from disk nor checked again.                               *)
InMemory(t) == ~nested[t] /\ blk[t] = mostWork[t] /\ NextBlock(t) = mostWork[t]

(* What CheckBlock, ConnectBlock and the disk say about the next block.    *)
Corrupted(t)  == ~InMemory(t) /\ NextBlock(t) \in BadDisk
Refused(t)    == ~InMemory(t) /\ NextBlock(t) \in conflicting \ BadDisk
Invalid(t)    == ~Corrupted(t) /\ ~Refused(t) /\ NextBlock(t) \in BadConnect

(* ConnectTip succeeds, and the candidates worse than the new tip go.      *)
ConnectTip(t) ==
  /\ Connecting(t) /\ ~Corrupted(t) /\ ~Refused(t) /\ ~Invalid(t)
  /\ tip' = NextBlock(t)
  /\ level' = Raise(tip', VALID_SCRIPTS)
  /\ candidates' = {c \in candidates : ~Worse(c, tip')}
  /\ IF Work[tip'] > Work[oldTip[t]] \/ tip' = mostWork[t]
     THEN Leave(t, "test") ELSE Stay(t, "step")
  /\ UNCHANGED <<index, haveData, failedValid, failedChild, linked, seq, nextSeq,
                 unlinked, bestInvalid, bestHeader, checks>>

(* Faulty: InvalidBlockFound is not called.                                *)
ConnectTipInvalidUnmarked(t) ==
  /\ Connecting(t) /\ (Refused(t) \/ Invalid(t))
  /\ rejected' = IF Refused(t) THEN rejected \cup {NextBlock(t)} ELSE rejected
  /\ Leave(t, "test")
  /\ UNCHANGED <<status, chain, conflicting>>

(* ConnectBlock finds the block invalid: InvalidBlockFound.                *)
ConnectTipInvalid(t) ==
  /\ Connecting(t) /\ (Refused(t) \/ Invalid(t))
  /\ failedValid' = failedValid \cup {NextBlock(t)}
  /\ candidates' = candidates \ {NextBlock(t)}
  /\ bestInvalid' = WorstOf(NextBlock(t))
  /\ rejected' = IF Refused(t) THEN rejected \cup {NextBlock(t)} ELSE rejected
  /\ Leave(t, "test")
  /\ UNCHANGED <<index, haveData, level, failedChild, linked, seq, nextSeq,
                 unlinked, tip, bestHeader, conflicting>>

(* The stored copy is damaged: no block is marked.                         *)
ConnectTipCorrupted(t) ==
  /\ Connecting(t) /\ Corrupted(t)
  /\ Leave(t, "test")
  /\ UNCHANGED <<status, chain, checks>>

(* A system error: ActivateBestChain returns false.                        *)
ConnectTipFails(t) ==
  /\ Connecting(t) /\ NextBlock(t) \in NoVerdict
  /\ Return(t)
  /\ UNCHANGED <<status, chain, checks>>

(* The loop condition, read without cs_main.                               *)
TestTip(t) ==
  /\ pc[t] = "test"
  /\ pc' = [pc EXCEPT ![t] = IF tip = mostWork[t] THEN "check" ELSE "activate"]
  /\ UNCHANGED <<status, chain, checks, csMain, locals>>

(* CheckBlockIndex takes cs_main once more; then ActivateBestChain returns. *)
CheckAndReturn(t) ==
  /\ pc[t] = "check"
  /\ csMain = IF nested[t] THEN t ELSE NoThread
  /\ Return(t)
  /\ UNCHANGED <<status, chain, checks>>

-----------------------------------------------------------------------------
(* Faulty: the blocks that are now as good as the tip are not added again. *)
InvalidateBlockNoReturn(t, b) ==
  /\ "invalidate" \in Ops /\ pc[t] = "idle" /\ csMain = NoThread
  /\ b \in index \ {Genesis}
  /\ tip' = IF b \in Anc[tip] THEN Parent[b] ELSE tip
  /\ failedValid' = failedValid \cup {b}
  /\ failedChild' = failedChild \cup (Anc[tip] \ Anc[tip'])
  /\ candidates' = candidates \ ({b} \cup (Anc[tip] \ Anc[tip']))
  /\ bestInvalid' = WorstOf(b)
  /\ Stay(t, "activate")
  /\ UNCHANGED <<index, haveData, level, linked, seq, nextSeq, unlinked, bestHeader, checks>>

(* RPC invalidateblock: InvalidateBlock in cs_main, then ActivateBestChain. *)
InvalidateBlock(t, b) ==
  /\ "invalidate" \in Ops /\ pc[t] = "idle" /\ csMain = NoThread
  /\ b \in index \ {Genesis}
  /\ tip' = IF b \in Anc[tip] THEN Parent[b] ELSE tip
  /\ failedValid' = failedValid \cup {b}
  /\ failedChild' = failedChild \cup (Anc[tip] \ Anc[tip'])
  /\ candidates' = (candidates \ ({b} \cup (Anc[tip] \ Anc[tip']))) \cup
        {d \in index \cap linked : d \notin failed' /\ level[d] >= VALID_TRANSACTIONS
                                    /\ ~Worse(d, tip')}
  /\ bestInvalid' = WorstOf(b)
  /\ Stay(t, "activate")
  /\ UNCHANGED <<index, haveData, level, linked, seq, nextSeq, unlinked, bestHeader, checks>>

(* RPC reconsiderblock.                                                    *)
ReconsiderRequest(t, b) ==
  /\ "reconsider" \in Ops /\ pc[t] = "idle" /\ csMain = NoThread
  /\ b \in index
  /\ ReconsiderBlock(b)
  /\ Stay(t, "activate")
  /\ UNCHANGED checks

(* ReprocessBlocks: reconsider the recently rejected blocks one by one ... *)
ReprocessBlocks(t) ==
  /\ "reprocess" \in Ops /\ pc[t] = "idle"
  /\ \E recent \in SUBSET rejected : todo' = [todo EXCEPT ![t] = recent]
  /\ pc' = [pc EXCEPT ![t] = "reprocess"]
  /\ UNCHANGED <<status, chain, checks, csMain, blk, mostWork, oldTip, nested>>

ReprocessOne(t, b) ==
  /\ pc[t] = "reprocess" /\ csMain = NoThread
  /\ b \in todo[t]
  /\ todo' = [todo EXCEPT ![t] = @ \ {b}]
  /\ IF b \in index THEN ReconsiderBlock(b) ELSE UNCHANGED <<status, chain>>
  /\ UNCHANGED <<checks, csMain, pc, blk, mostWork, oldTip, nested>>

(* ... then DisconnectBlocks, which calls DisconnectTip nBlocks + 1 times  *)
(* and ignores its failure on the genesis block, and ActivateBestChain.    *)
DisconnectBlocks(t) ==
  /\ pc[t] = "reprocess" /\ csMain = NoThread /\ todo[t] = {}
  /\ \E a \in Anc[tip] :
       /\ LET n == Cardinality(Anc[tip] \ Anc[a]) IN
          n = nBlocks + 1 \/ (a = Genesis /\ n <= nBlocks)
       /\ tip' = a
  /\ Stay(t, "activate")
  /\ UNCHANGED <<status, candidates, unlinked, bestInvalid, bestHeader, checks>>

-----------------------------------------------------------------------------
AcceptBlock(t) ==
  \/ AcceptOnInvalidParent(t) \/ AcceptReconsidersParent(t) \/ AcceptKnown(t)
  \/ AcceptHeaderOnly(t) \/ AcceptStores(t) \/ AcceptReturns(t)

ActivateBestChainStep(t) ==
  \/ DisconnectTip(t) \/ ConnectTip(t) \/ ConnectTipInvalid(t)
  \/ ConnectTipCorrupted(t) \/ ConnectTipFails(t)

ActivateBestChain(t) ==
  \/ Lock(t) \/ FindUnusable(t) \/ FindTarget(t) \/ FindNothing(t)
  \/ ActivateBestChainStep(t) \/ TestTip(t) \/ CheckAndReturn(t)

Reprocess(t) == (\E b \in Blocks : ReprocessOne(t, b)) \/ DisconnectBlocks(t)

Start(t) ==
  \/ \E b \in Blocks : CheckNewBlock(t, b) \/ InvalidateBlock(t, b) \/ ReconsiderRequest(t, b)
  \/ ReprocessBlocks(t)

Next ==
  \/ \E b \in Blocks : ChangeVerdict(b)
  \/ \E t \in Threads : Start(t) \/ AcceptBlock(t) \/ ActivateBestChain(t) \/ Reprocess(t)

Spec == Init /\ [][Next]_vars

(* ActivateBestChain polls cs_main until it gets it and then runs to its    *)
(* end; ProcessNewBlock and ReprocessBlocks wait for cs_main.  Requests may  *)
(* stop coming.                                                             *)
LiveSpec ==
  Spec /\ \A t \in Threads : WF_vars(AcceptBlock(t) \/ ActivateBestChain(t) \/ Reprocess(t))

-----------------------------------------------------------------------------
Phases == {"idle", "accept", "accepted", "activate", "find", "step", "test", "check", "reprocess"}

(* The state stays in its types: in particular only indexed blocks have    *)
(* flags or data, and the global pointers point into the index.            *)
TypeOK ==
  /\ index \subseteq Blocks /\ haveData \subseteq index /\ linked \subseteq haveData
  /\ level \in [Blocks -> {0, VALID_TREE, VALID_TRANSACTIONS, VALID_SCRIPTS}]
  /\ failed \subseteq index /\ unlinked \subseteq haveData /\ candidates \subseteq index
  /\ seq \in [Blocks -> Nat] /\ nextSeq \in Nat
  /\ tip \in index /\ bestHeader \in index /\ bestInvalid \in index \cup {NoBlock}
  /\ rejected \subseteq Disputed /\ conflicting \subseteq Disputed
  /\ csMain \in Threads \cup {NoThread}
  /\ pc \in [Threads -> Phases] /\ nested \in [Threads -> BOOLEAN]
  /\ blk \in [Threads -> Blocks \cup {NoBlock}]
  /\ mostWork \in [Threads -> Blocks \cup {NoBlock}]
  /\ oldTip \in [Threads -> Blocks \cup {NoBlock}]
  /\ todo \in [Threads -> SUBSET Disputed]

(* "we know all blocks in it are valid already" (FindMostWorkChain): no     *)
(* interleaving of block processing, invalidation and reorganisation leaves *)
(* a block in the active chain that is marked failed, has no stored data or *)
(* hangs on missing data.                                                   *)
ActiveChainUsable == Anc[tip] \subseteq (haveData \cap linked) \ failed

(* The assertions of FindMostWorkChain and PruneBlockIndexCandidates: every *)
(* candidate has all its ancestors' data, and while a thread works towards  *)
(* a block, no other step and no pruning removes that block from the set,   *)
(* the thread being the owner of cs_main.                                   *)
TargetStaysCandidate ==
  /\ candidates \subseteq linked
  /\ \A t \in Threads : pc[t] = "step" => csMain = t /\ mostWork[t] \in candidates

(* CheckBlockIndex on nChainTx, mapBlocksUnlinked and the validity levels:  *)
(* a block is linked exactly when the data of all its ancestors is there,   *)
(* whatever the order of arrival; the stored blocks that are not linked are *)
(* exactly those of mapBlocksUnlinked; SCRIPTS implies SCRIPTS below.       *)
IndexConsistent ==
  /\ linked = {b \in index : Anc[b] \subseteq haveData}
  /\ unlinked = haveData \ linked
  /\ haveData = {b \in Blocks : level[b] >= VALID_TRANSACTIONS}
  /\ index = {b \in Blocks : level[b] >= VALID_TREE}
  /\ \A b \in Blocks : level[b] = VALID_SCRIPTS =>
        \A a \in Anc[b] \ {Genesis} : level[a] = VALID_SCRIPTS
  /\ \A b \in index \ linked : seq[b] = 0

(* CheckBlockIndex: "The failed mask cannot be set for blocks without       *)
(* invalid parents."                                                        *)
FailedHasCause == \A b \in failed : Anc[b] \cap failedValid # {}

Usable(b) == Anc[b] \subseteq linked \ failedValid

(* The comment on setBlockIndexCandidates, and the two assertions about it  *)
(* in CheckBlockIndex, where ActivateBestChain calls that: usable blocks as *)
(* good as the tip are candidates, and blocks that are worse are not.       *)
CandidatesExact ==
  csMain = NoThread /\ (\E t \in Threads : pc[t] = "check") =>
    \A b \in index : IF ~Worse(b, tip) /\ b \in linked
                      THEN Usable(b) => b \in candidates
                      ELSE b \notin candidates

(* The promise of ActivateBestChain, "either failure or an activated best   *)
(* chain": once every call has returned, no known block that is not invalid *)
(* is better than the tip.                                                  *)
BestChainWhenQuiet ==
  (\A t \in Threads : pc[t] = "idle") => \A b \in index : Usable(b) => ~Worse(tip, b)

(* CheckBlock on a block with a missing payee: "Store the block for later   *)
(* consideration".  ReprocessBlocks looks rejected blocks up in the index.  *)
RejectedAreStored == rejected \subseteq haveData

(* ActivateBestChain comes to an end: once no thread begins another request *)
(* and competes for cs_main, no call loops between candidates that it       *)
(* cannot connect, and none waits for ever.                                 *)
ActivationReturns ==
  <>[][\A t \in Threads : pc[t] = "idle" => pc'[t] = "idle"]_vars =>
    \A t \in Threads : []<>(pc[t] = "idle")
=============================================================================
