-------------------------- MODULE ChainState_proofs --------------------------
(***************************************************************************)
(* Safety of the block tree for every tree of blocks, any number of        *)
(* threads and every choice of operations: the types, the consistency of   *)
(* the index, the usability of the active chain and the assertions of      *)
(* FindMostWorkChain and PruneBlockIndexCandidates.                        *)
(***************************************************************************)
EXTENDS ChainState, TLAPS

(* What the threads rely on: cs_main protects the steps of a               *)
(* reorganisation and of everything nested in AcceptBlock, the target of a *)
(* reorganisation has no failed block below it, and a block that waits for *)
(* AcceptBlock has an indexed parent.                                      *)
ThreadsOK ==
  \A t \in Threads :
    /\ pc[t] \in {"find", "step", "accepted"} \/ nested[t] => csMain = t
    /\ pc[t] = "step" => mostWork[t] \in Blocks /\ Anc[mostWork[t]] \cap failed = {}
    /\ pc[t] = "accept" => blk[t] \in Blocks \ {Genesis}

(* What IndexConsistent needs to be inductive.                             *)
LevelsOK ==
  /\ \A a \in Anc[tip] \ {Genesis} : level[a] = VALID_SCRIPTS
  /\ \A b \in Blocks \ linked : seq[b] = 0

(* The two halves of TypeOK.                                               *)
SharedTypes ==
  /\ index \subseteq Blocks /\ haveData \subseteq index /\ linked \subseteq haveData
  /\ level \in [Blocks -> {0, VALID_TREE, VALID_TRANSACTIONS, VALID_SCRIPTS}]
  /\ failed \subseteq index /\ unlinked \subseteq haveData /\ candidates \subseteq index
  /\ seq \in [Blocks -> Nat] /\ nextSeq \in Nat
  /\ tip \in index /\ bestHeader \in index /\ bestInvalid \in index \cup {NoBlock}
LocalTypes ==
  /\ rejected \subseteq Disputed /\ conflicting \subseteq Disputed
  /\ csMain \in Threads \cup {NoThread}
  /\ pc \in [Threads -> Phases] /\ nested \in [Threads -> BOOLEAN]
  /\ blk \in [Threads -> Blocks \cup {NoBlock}]
  /\ mostWork \in [Threads -> Blocks \cup {NoBlock}]
  /\ oldTip \in [Threads -> Blocks \cup {NoBlock}]
  /\ todo \in [Threads -> SUBSET Disputed]

(* The parts of IInv that depend on the shared state alone, and the rest.  *)
SharedOK ==
  SharedTypes /\ ActiveChainUsable /\ candidates \subseteq linked /\ IndexConsistent /\ LevelsOK
LocalOK ==
  /\ LocalTypes /\ ThreadsOK
  /\ \A t \in Threads : pc[t] = "step" => mostWork[t] \in candidates

IInv == SharedOK /\ LocalOK

(* The inductive invariant implies the properties that are model-        *)
(* checked.                                                              *)
LEMMA Implied == IInv => TypeOK /\ ActiveChainUsable /\ TargetStaysCandidate /\ IndexConsistent
BY DEF IInv, SharedOK, LocalOK, SharedTypes, LocalTypes, TypeOK, TargetStaysCandidate, ThreadsOK

-----------------------------------------------------------------------------
(* A block is its own ancestor, and its ancestors are blocks.              *)
LEMMA Ancestors ==
  ASSUME NEW b \in Blocks
  PROVE  b \in Anc[b] /\ Anc[b] \subseteq Blocks /\ Genesis \in Anc[b]
<1>1. CASE b = Genesis  BY <1>1, TreeAssumption
<1>2. CASE b # Genesis
  <2>0. Anc[b] = Anc[Parent[b]] \cup {b}  BY <1>2, TreeAssumption, Zenon
  <2>1. b \in Anc[b]  BY <2>0, Zenon
  <2>2. Anc[b] \in SUBSET Blocks  BY TreeAssumption
  <2>3. Genesis \in Anc[b]  BY TreeAssumption
  <2> QED  BY <2>1, <2>2, <2>3
<1> QED  BY <1>1, <1>2

(* The parent's ancestors are the proper ancestors.                        *)
LEMMA ParentAncestors ==
  ASSUME NEW b \in Blocks, b # Genesis
  PROVE  /\ Parent[b] \in Blocks /\ Parent[b] \in Anc[b]
         /\ Anc[Parent[b]] = Anc[b] \ {b}
<1>1. Parent[b] \in Blocks  BY TreeAssumption
<1>2. Parent[b] \in Anc[Parent[b]]  BY <1>1, Ancestors
<1> QED  BY <1>1, <1>2, TreeAssumption

-----------------------------------------------------------------------------
(* The steps of one thread that leave the block tree alone.                *)
LEMMA SharedFrame ==
  ASSUME SharedOK, UNCHANGED <<status, chain>>
  PROVE  SharedOK'
BY DEF SharedOK, status, chain, SharedTypes, ActiveChainUsable, IndexConsistent, LevelsOK, failed

(* A step of a thread that holds cs_main, or finds it free: no other       *)
(* thread is inside a critical section, so only its own locals matter.     *)
LEMMA OthersOK ==
  ASSUME LocalOK, LocalTypes', NEW t \in Threads, csMain \in {t, NoThread},
         \A u \in Threads \ {t} : pc'[u] = pc[u] /\ nested'[u] = nested[u] /\ blk'[u] = blk[u],
         pc'[t] \in {"find", "step", "accepted"} \/ nested'[t] => csMain' = t,
         pc'[t] = "step" => /\ mostWork'[t] \in Blocks /\ mostWork'[t] \in candidates'
                            /\ Anc[mostWork'[t]] \cap failed' = {},
         pc'[t] = "accept" => blk'[t] \in Blocks \ {Genesis}
  PROVE  LocalOK'
<1>1. \A u \in Threads \ {t} : pc[u] \notin {"find", "step", "accepted"} /\ ~nested[u]
  BY ParameterAssumption DEF LocalOK, ThreadsOK
<1>2. \A u \in Threads \ {t} : pc'[u] = "accept" => blk'[u] \in Blocks \ {Genesis}
  BY DEF LocalOK, ThreadsOK
<1>3. ThreadsOK'
  BY <1>1, <1>2 DEF ThreadsOK
<1>4. \A u \in Threads : pc'[u] = "step" => mostWork'[u] \in candidates'
  BY <1>1
<1> QED  BY <1>3, <1>4 DEF LocalOK

(* Leaving ActivateBestChain keeps the locals in order.                    *)
LEMMA ReturnOK ==
  ASSUME LocalOK, NEW t \in Threads, csMain \in {t, NoThread}, Return(t), UNCHANGED checks
  PROVE  LocalOK'
<1>1. LocalTypes'
  BY DEF LocalOK, LocalTypes, Return, Phases, checks
<1>2. /\ \A u \in Threads \ {t} : pc'[u] = pc[u] /\ nested'[u] = nested[u] /\ blk'[u] = blk[u]
      /\ pc'[t] \in {"idle", "accepted"}
      /\ pc'[t] = "accepted" \/ nested'[t] => csMain' = t
  BY DEF LocalOK, LocalTypes, Return
<1> QED  BY <1>1, <1>2, OthersOK

(* So does releasing cs_main between two steps, ...                        *)
LEMMA LeaveOK ==
  ASSUME LocalOK, NEW t \in Threads, csMain \in {t, NoThread},
         NEW where \in {"activate", "test"}, Leave(t, where),
         rejected' \subseteq Disputed, conflicting' \subseteq Disputed
  PROVE  LocalOK'
<1>1. LocalTypes'
  BY DEF LocalOK, LocalTypes, Leave, locals, Phases
<1>2. /\ \A u \in Threads \ {t} : pc'[u] = pc[u] /\ nested'[u] = nested[u] /\ blk'[u] = blk[u]
      /\ pc'[t] \in {"activate", "test"}
      /\ nested'[t] => csMain' = t
  BY DEF LocalOK, LocalTypes, Leave, locals
<1> QED  BY <1>1, <1>2, OthersOK

(* ... going on to ActivateBestChain from a request ...                    *)
LEMMA StayOK ==
  ASSUME LocalOK, NEW t \in Threads, csMain = NoThread, Stay(t, "activate"), UNCHANGED checks
  PROVE  LocalOK'
<1>1. LocalTypes'
  BY DEF LocalOK, LocalTypes, Stay, locals, Phases, checks
<1>2. /\ \A u \in Threads \ {t} : pc'[u] = pc[u] /\ nested'[u] = nested[u] /\ blk'[u] = blk[u]
      /\ pc'[t] = "activate"
      /\ ~nested'[t]
  BY ParameterAssumption DEF LocalOK, LocalTypes, ThreadsOK, Stay, locals
<1> QED  BY <1>1, <1>2, OthersOK

(* ... and dropping a block.                                               *)
LEMMA DropOK ==
  ASSUME LocalOK, NEW t \in Threads, csMain = NoThread, Drop(t), UNCHANGED checks
  PROVE  LocalOK'
<1>1. LocalTypes'
  BY DEF LocalOK, LocalTypes, Drop, Phases, checks
<1>2. /\ \A u \in Threads \ {t} : pc'[u] = pc[u] /\ nested'[u] = nested[u] /\ blk'[u] = blk[u]
      /\ pc'[t] = "idle"
      /\ ~nested'[t]
  BY ParameterAssumption DEF LocalOK, LocalTypes, ThreadsOK, Drop
<1> QED  BY <1>1, <1>2, OthersOK

-----------------------------------------------------------------------------
(* The steps that leave the block tree alone.                              *)
LEMMA UnlockedSteps ==
  ASSUME IInv, NEW t \in Threads,
         TestTip(t) \/ ReprocessBlocks(t) \/ (\E b \in Blocks : CheckNewBlock(t, b))
  PROVE  IInv'
<1>1. UNCHANGED <<status, chain, csMain, mostWork, nested>>
  BY DEF TestTip, ReprocessBlocks, CheckNewBlock, locals
<1>2. SharedOK'  BY <1>1, SharedFrame DEF IInv
<1>3. LocalTypes'
  <2>1. CASE TestTip(t)
    BY <2>1 DEF TestTip, IInv, LocalOK, LocalTypes, locals, checks, Phases
  <2>2. CASE ReprocessBlocks(t)
    BY <2>2 DEF ReprocessBlocks, IInv, LocalOK, LocalTypes, checks, Phases
  <2>3. ASSUME NEW b \in Blocks, CheckNewBlock(t, b)  PROVE LocalTypes'
    BY <2>3 DEF CheckNewBlock, IInv, LocalOK, LocalTypes, Phases
  <2> QED  BY <2>1, <2>2, <2>3
<1>4. \A u \in Threads :
        \/ pc'[u] = pc[u] /\ blk'[u] = blk[u]
        \/ pc[u] # "step" /\ pc'[u] \in {"check", "activate", "reprocess"}
        \/ pc[u] # "step" /\ pc'[u] = "accept" /\ blk'[u] \in Blocks \ {Genesis}
  <2>1. CASE TestTip(t)
    BY <2>1 DEF TestTip, IInv, LocalOK, LocalTypes, locals
  <2>2. CASE ReprocessBlocks(t)
    BY <2>2 DEF ReprocessBlocks, IInv, LocalOK, LocalTypes
  <2>3. ASSUME NEW b \in Blocks, CheckNewBlock(t, b)
        PROVE  \A u \in Threads :
                 \/ pc'[u] = pc[u] /\ blk'[u] = blk[u]
                 \/ pc[u] # "step" /\ pc'[u] = "accept" /\ blk'[u] \in Blocks \ {Genesis}
    BY <2>3 DEF CheckNewBlock, IInv, LocalOK, LocalTypes
  <2> QED  BY <2>1, <2>2, <2>3
<1>5. LocalOK'
  BY <1>1, <1>3, <1>4 DEF IInv, LocalOK, ThreadsOK, failed, status, chain
<1> QED  BY <1>2, <1>5 DEF IInv

(* The steps that own cs_main, or find it free, and leave the block tree *)
(* alone.                                                                *)
LEMMA LockedLocalSteps ==
  ASSUME IInv, NEW t \in Threads,
         \/ Lock(t) \/ FindTarget(t) \/ FindNothing(t) \/ CheckAndReturn(t)
         \/ ConnectTipCorrupted(t) \/ ConnectTipFails(t) \/ AcceptReturns(t)
         \/ AcceptOnInvalidParent(t) \/ AcceptKnown(t)
  PROVE  IInv'
<1>1. UNCHANGED <<status, chain>> /\ UNCHANGED checks
  BY DEF Lock, FindTarget, FindNothing, CheckAndReturn, ConnectTipCorrupted, ConnectTipFails,
         AcceptReturns, AcceptUnder, AcceptOnInvalidParent, AcceptKnown
<1>2. SharedOK'  BY <1>1, SharedFrame, ZenonT(60) DEF IInv
<1>3. csMain \in {t, NoThread}
  BY DEF Lock, FindTarget, FindNothing, CheckAndReturn, ConnectTipCorrupted, ConnectTipFails,
         AcceptReturns, AcceptUnder, AcceptOnInvalidParent, AcceptKnown, Connecting,
         IInv, LocalOK, ThreadsOK
<1>4. LocalOK  BY DEF IInv
<1>5. CASE FindNothing(t) \/ CheckAndReturn(t) \/ ConnectTipFails(t)
  <2>1. Return(t)  BY <1>5 DEF FindNothing, CheckAndReturn, ConnectTipFails
  <2> QED  BY <2>1, <1>1, <1>2, <1>3, <1>4, ReturnOK, ZenonT(60) DEF IInv
<1>6. CASE ConnectTipCorrupted(t)
  <2>1. Leave(t, "test")  BY <1>6 DEF ConnectTipCorrupted
  <2>2. rejected' \subseteq Disputed /\ conflicting' \subseteq Disputed
    BY <1>1 DEF IInv, LocalOK, LocalTypes, checks
  <2> QED  BY <2>1, <2>2, <1>2, <1>3, <1>4, LeaveOK DEF IInv
<1>7. CASE AcceptOnInvalidParent(t) \/ AcceptKnown(t)
  <2>1. csMain = NoThread  BY <1>7, Zenon DEF AcceptOnInvalidParent, AcceptKnown, AcceptUnder
  <2>2. Drop(t) \/ Leave(t, "activate")  BY <1>7 DEF AcceptOnInvalidParent, AcceptKnown
  <2>3. rejected' \subseteq Disputed /\ conflicting' \subseteq Disputed
    BY <1>1 DEF IInv, LocalOK, LocalTypes, checks
  <2>4. CASE Drop(t)  BY <2>1, <2>4, <1>1, <1>2, <1>4, DropOK DEF IInv
  <2>5. CASE Leave(t, "activate")  BY <2>3, <2>5, <1>2, <1>3, <1>4, LeaveOK, Zenon DEF IInv
  <2> QED  BY <2>2, <2>4, <2>5, Zenon
<1>8. CASE Lock(t)
  <2>1. LocalTypes'
    BY <1>8 DEF Lock, IInv, SharedOK, SharedTypes, LocalOK, LocalTypes, Phases, checks
  <2>2. /\ \A u \in Threads \ {t} : pc'[u] = pc[u] /\ nested'[u] = nested[u] /\ blk'[u] = blk[u]
        /\ pc'[t] = "find" /\ csMain' = t
    BY <1>8 DEF Lock, IInv, LocalOK, LocalTypes
  <2> QED  BY <2>1, <2>2, <1>2, <1>3, <1>4, OthersOK, Zenon DEF IInv
<1>9. CASE AcceptReturns(t)
  <2>1. LocalTypes'
    BY <1>9 DEF AcceptReturns, IInv, LocalOK, LocalTypes, Phases, checks
  <2>2. /\ \A u \in Threads \ {t} : pc'[u] = pc[u] /\ nested'[u] = nested[u] /\ blk'[u] = blk[u]
        /\ pc'[t] = "activate" /\ ~nested'[t]
    BY <1>9, ZenonT(60) DEF AcceptReturns, IInv, LocalOK, LocalTypes
  <2> QED  BY <2>1, <2>2, <1>2, <1>3, <1>4, OthersOK, Zenon DEF IInv
<1>10. CASE FindTarget(t)
  <2>1. PICK c \in candidates : Unusable(c) = {} /\ mostWork' = [mostWork EXCEPT ![t] = c]
    BY <1>10, Zenon DEF FindTarget
  <2>2. c \in Blocks  BY DEF IInv, SharedOK, SharedTypes
  <2>3. LocalTypes'
    BY <1>10, <2>1, <2>2, Zenon DEF FindTarget, IInv, LocalOK, LocalTypes, Phases, checks
  <2>4. /\ \A u \in Threads \ {t} : pc'[u] = pc[u] /\ nested'[u] = nested[u] /\ blk'[u] = blk[u]
        /\ pc'[t] = "step" /\ csMain' = t /\ mostWork'[t] = c
    BY <1>10, <2>1, ZenonT(60) DEF FindTarget, IInv, LocalOK, LocalTypes, ThreadsOK
  <2>5. Anc[c] \cap failed = {}
    BY <2>1 DEF Unusable, IInv, SharedOK, ActiveChainUsable
  <2>6. failed' = failed /\ candidates' = candidates
    BY <1>1, Zenon DEF status, chain, failed
  <2> QED  BY <2>2, <2>3, <2>4, <2>5, <2>6, <1>2, <1>3, <1>4, OthersOK, Zenon DEF IInv
<1> QED  BY <1>5, <1>6, <1>7, <1>8, <1>9, <1>10, Zenon

-----------------------------------------------------------------------------
(* Disconnecting blocks: the tip moves to an ancestor.                     *)
LEMMA TipDown ==
  ASSUME SharedOK, tip' \in Anc[tip],
         UNCHANGED <<status, candidates, unlinked, bestInvalid, bestHeader>>
  PROVE  SharedOK'
<1>1. tip \in Blocks  BY DEF SharedOK, SharedTypes
<1>2. Anc[tip'] \subseteq Anc[tip]  BY <1>1, TreeAssumption, Zenon
<1>3. tip' \in index  BY DEF SharedOK, SharedTypes, ActiveChainUsable
<1>4. SharedTypes'
  BY <1>3, Zenon DEF SharedOK, SharedTypes, status, failed
<1>5. ActiveChainUsable'
  BY <1>2 DEF SharedOK, ActiveChainUsable, status, failed
<1>6. IndexConsistent'
  BY DEF SharedOK, IndexConsistent, status
<1>7. LevelsOK'
  BY <1>2 DEF SharedOK, LevelsOK, status
<1>8. candidates' \subseteq linked'
  BY DEF SharedOK, status
<1> QED  BY <1>4, <1>5, <1>6, <1>7, <1>8, Zenon DEF SharedOK

(* The first loop of ActivateBestChainStep keeps the invariant: the      *)
(* target is still a candidate without failed blocks below it.           *)
LEMMA DisconnectTipOK ==
  ASSUME IInv, NEW t \in Threads, DisconnectTip(t)
  PROVE  IInv'
<1>1. tip \in Blocks /\ mostWork[t] \in Blocks /\ csMain = t
  BY DEF IInv, SharedOK, SharedTypes, LocalOK, ThreadsOK, DisconnectTip
<1>2. tip # Genesis
  BY <1>1, Ancestors, Zenon DEF DisconnectTip
<1>3. tip' \in Anc[tip]
  BY <1>1, <1>2, ParentAncestors, Zenon DEF DisconnectTip
<1>4. SharedOK'
  BY <1>3, TipDown DEF DisconnectTip, IInv
<1>5. CASE Leave(t, "test")
  <2>1. rejected' \subseteq Disputed /\ conflicting' \subseteq Disputed
    BY Zenon DEF DisconnectTip, IInv, LocalOK, LocalTypes, checks
  <2> QED  BY <1>1, <1>4, <1>5, <2>1, LeaveOK, Zenon DEF IInv
<1>6. CASE Stay(t, "step")
  <2>1. LocalTypes'
    BY <1>6 DEF Stay, DisconnectTip, IInv, LocalOK, LocalTypes, locals, checks, Phases
  <2>2. /\ \A u \in Threads \ {t} : pc'[u] = pc[u] /\ nested'[u] = nested[u] /\ blk'[u] = blk[u]
        /\ pc'[t] = "step" /\ csMain' = t /\ mostWork'[t] = mostWork[t]
    BY <1>1, <1>6, Zenon DEF Stay, IInv, LocalOK, LocalTypes, locals
  <2>3. /\ mostWork[t] \in candidates' /\ Anc[mostWork[t]] \cap failed' = {}
    BY Zenon DEF DisconnectTip, IInv, LocalOK, ThreadsOK, status, failed
  <2>4. LocalOK  BY DEF IInv
  <2> QED  BY <1>1, <1>4, <2>1, <2>2, <2>3, <2>4, OthersOK, ZenonT(60) DEF IInv
<1> QED  BY <1>5, <1>6, Zenon DEF DisconnectTip

(* DisconnectBlocks keeps the invariant, wherever it stops.              *)
LEMMA DisconnectBlocksOK ==
  ASSUME IInv, NEW t \in Threads, DisconnectBlocks(t)
  PROVE  IInv'
<1>1. SharedOK'
  BY TipDown DEF DisconnectBlocks, IInv
<1>2. LocalOK'
  BY StayOK DEF DisconnectBlocks, IInv
<1> QED  BY <1>1, <1>2, ZenonT(60) DEF IInv

-----------------------------------------------------------------------------
(* Clearing failure flags.                                                 *)
LEMMA ReconsiderOK ==
  ASSUME SharedOK, NEW p \in Blocks, ReconsiderBlock(p)
  PROVE  SharedOK'
<1>1. failed' \subseteq failed
  BY DEF ReconsiderBlock, failed
<1>2. candidates' \subseteq linked' /\ candidates' \subseteq index'
  BY DEF ReconsiderBlock, SharedOK, SharedTypes
<1>3. SharedTypes'
  BY <1>1, <1>2 DEF ReconsiderBlock, SharedOK, SharedTypes
<1>4. ActiveChainUsable'
  BY <1>1, ZenonT(60) DEF ReconsiderBlock, SharedOK, ActiveChainUsable
<1>5. IndexConsistent' /\ LevelsOK'
  BY DEF ReconsiderBlock, SharedOK, IndexConsistent, LevelsOK
<1> QED  BY <1>2, <1>3, <1>4, <1>5, Zenon DEF SharedOK

(* RPC reconsiderblock keeps the invariant.                              *)
LEMMA ReconsiderRequestOK ==
  ASSUME IInv, NEW t \in Threads, NEW b \in Blocks, ReconsiderRequest(t, b)
  PROVE  IInv'
BY ReconsiderOK, StayOK, Zenon DEF ReconsiderRequest, IInv

(* One iteration of ReprocessBlocks keeps the invariant.                 *)
LEMMA ReprocessOneOK ==
  ASSUME IInv, NEW t \in Threads, NEW b \in Blocks, ReprocessOne(t, b)
  PROVE  IInv'
<1>1. SharedOK'
  BY ReconsiderOK, SharedFrame, Zenon DEF ReprocessOne, IInv
<1>2. LocalTypes'
  BY Zenon DEF ReprocessOne, IInv, LocalOK, LocalTypes, checks
<1>3. /\ \A u \in Threads \ {t} : pc'[u] = pc[u] /\ nested'[u] = nested[u] /\ blk'[u] = blk[u]
      /\ pc'[t] = "reprocess" /\ ~nested'[t]
  BY ParameterAssumption, Zenon DEF ReprocessOne, IInv, LocalOK, LocalTypes, ThreadsOK
<1>4. LocalOK /\ csMain = NoThread  BY Zenon DEF ReprocessOne, IInv
<1> QED  BY <1>1, <1>2, <1>3, <1>4, OthersOK, Zenon DEF IInv

(* AcceptBlock that reconsiders a checkpointed parent, and calls         *)
(* ActivateBestChain inside cs_main, keeps the invariant.                *)
LEMMA AcceptReconsidersParentOK ==
  ASSUME IInv, NEW t \in Threads, AcceptReconsidersParent(t)
  PROVE  IInv'
<1>1. Parent[blk[t]] \in Blocks
  BY ParameterAssumption DEF AcceptReconsidersParent
<1>2. SharedOK'
  BY <1>1, ReconsiderOK DEF AcceptReconsidersParent, IInv
<1>3. LocalTypes'
  BY DEF AcceptReconsidersParent, AcceptUnder, IInv, LocalOK, LocalTypes, checks, Phases
<1>4. /\ \A u \in Threads \ {t} : pc'[u] = pc[u] /\ nested'[u] = nested[u] /\ blk'[u] = blk[u]
      /\ pc'[t] = "activate" /\ csMain' = t
  BY DEF AcceptReconsidersParent, IInv, LocalOK, LocalTypes
<1>5. LocalOK /\ csMain = NoThread  BY DEF AcceptReconsidersParent, AcceptUnder, IInv
<1> QED  BY <1>2, <1>3, <1>4, <1>5, OthersOK, ZenonT(60) DEF IInv

-----------------------------------------------------------------------------
(* Marking blocks that are not in the active chain, and taking blocks from *)
(* the candidates.                                                         *)
LEMMA MarkOK ==
  ASSUME SharedOK, failed' \subseteq index, Anc[tip] \cap failed' = {},
         candidates' \subseteq candidates, bestInvalid' \in index \cup {NoBlock},
         UNCHANGED <<index, haveData, level, linked, seq, nextSeq, unlinked, tip, bestHeader>>
  PROVE  SharedOK'
<1>1. SharedTypes'
  BY ZenonT(60) DEF SharedOK, SharedTypes
<1>2. ActiveChainUsable' /\ IndexConsistent' /\ LevelsOK' /\ candidates' \subseteq linked'
  BY DEF SharedOK, ActiveChainUsable, IndexConsistent, LevelsOK
<1> QED  BY <1>1, <1>2, Zenon DEF SharedOK

(* An iteration of FindMostWorkChain that gives a candidate up marks no  *)
(* block of the active chain.                                            *)
LEMMA FindUnusableOK ==
  ASSUME IInv, NEW t \in Threads, FindUnusable(t)
  PROVE  IInv'
<1>0. PICK c \in candidates : \E b \in Unusable(c) :
        /\ candidates' = candidates \ ((Anc[c] \ Anc[b]) \cup {b})
        /\ bestInvalid' = IF b \in failed THEN WorstOf(c) ELSE bestInvalid
        /\ failedChild' = IF b \in failed THEN failedChild \cup (Anc[c] \ Anc[b]) ELSE failedChild
        /\ unlinked' = IF b \in failed THEN unlinked ELSE unlinked \cup (Anc[c] \ Anc[b])
  BY Zenon DEF FindUnusable
<1>1. PICK b \in Unusable(c) :
        /\ candidates' = candidates \ ((Anc[c] \ Anc[b]) \cup {b})
        /\ bestInvalid' = IF b \in failed THEN WorstOf(c) ELSE bestInvalid
        /\ failedChild' = IF b \in failed THEN failedChild \cup (Anc[c] \ Anc[b]) ELSE failedChild
        /\ unlinked' = IF b \in failed THEN unlinked ELSE unlinked \cup (Anc[c] \ Anc[b])
  BY <1>0, Zenon
<1>2. c \in linked /\ c \in index /\ c \in Blocks
  BY DEF IInv, SharedOK, SharedTypes
<1>3. Anc[c] \subseteq haveData /\ Anc[c] \subseteq index
  BY <1>2 DEF IInv, SharedOK, SharedTypes, IndexConsistent
<1>4. b \in Anc[c] /\ b \notin Anc[tip] /\ b \in failed
  BY <1>3 DEF Unusable
<1>5. ASSUME NEW x \in Anc[c] \ Anc[b]  PROVE x \notin Anc[tip]
  <2>1. x \in Blocks /\ b \in Anc[x]
    BY <1>2, <1>4, TreeAssumption, Ancestors, Zenon
  <2>2. SUFFICES ASSUME x \in Anc[tip] PROVE FALSE  BY Zenon
  <2>3. tip \in Blocks  BY DEF IInv, SharedOK, SharedTypes
  <2>4. Anc[x] \subseteq Anc[tip]  BY <2>2, <2>3, TreeAssumption, Zenon
  <2> QED  BY <2>1, <2>4, <1>4
<1>6. failed' = failed \cup (Anc[c] \ Anc[b]) /\ unlinked' = unlinked
  BY <1>1, <1>4, Zenon DEF failed, FindUnusable
<1>7. failed' \subseteq index /\ Anc[tip] \cap failed' = {}
  BY <1>3, <1>5, <1>6, Zenon DEF IInv, SharedOK, SharedTypes, ActiveChainUsable
<1>8. bestInvalid' \in index \cup {NoBlock}
  BY <1>1, <1>2, Zenon DEF WorstOf, IInv, SharedOK, SharedTypes
<1>9. SharedOK'
  BY <1>1, <1>6, <1>7, <1>8, MarkOK, Zenon DEF FindUnusable, IInv
<1>10. LocalTypes'
  BY ZenonT(60) DEF FindUnusable, IInv, LocalOK, LocalTypes, locals, checks
<1>11. /\ \A u \in Threads \ {t} : pc'[u] = pc[u] /\ nested'[u] = nested[u] /\ blk'[u] = blk[u]
       /\ pc'[t] = "find" /\ csMain' = t /\ csMain = t
  BY DEF FindUnusable, IInv, LocalOK, ThreadsOK, locals
<1>12. LocalOK  BY Zenon DEF IInv
<1> QED  BY <1>9, <1>10, <1>11, <1>12, OthersOK, Zenon DEF IInv

-----------------------------------------------------------------------------
(* The block that ActivateBestChainStep connects is the tip's child on the *)
(* way to the target.                                                      *)
LEMMA NextBlockOK ==
  ASSUME IInv, NEW t \in Threads, Connecting(t)
  PROVE  /\ mostWork[t] \in Blocks /\ csMain = t /\ mostWork[t] \in candidates
         /\ NextBlock(t) \in Anc[mostWork[t]] \ {Genesis}
         /\ NextBlock(t) \in (Blocks \cap index \cap haveData \cap linked) \ failed
         /\ Anc[NextBlock(t)] = Anc[tip] \cup {NextBlock(t)}
         /\ NextBlock(t) \notin Anc[tip]
<1>1. /\ mostWork[t] \in Blocks /\ csMain = t /\ mostWork[t] \in candidates
      /\ Anc[mostWork[t]] \cap failed = {}
  BY Zenon DEF IInv, LocalOK, ThreadsOK, Connecting
<1>2. tip \in Anc[mostWork[t]] \ {mostWork[t]}  BY DEF Connecting
<1>3. \E c \in Anc[mostWork[t]] \ {Genesis} : Parent[c] = tip
  BY <1>1, <1>2, TreeAssumption, ZenonT(60)
<1>4. NextBlock(t) \in Anc[mostWork[t]] \ {Genesis} /\ Parent[NextBlock(t)] = tip
  BY <1>3, Zenon DEF NextBlock
<1> DEFINE n == NextBlock(t)
<1>5. n \in Blocks  BY <1>1, <1>4, Ancestors, Zenon
<1> HIDE DEF n
<1>6. Anc[tip] = Anc[n] \ {n} /\ n \in Anc[n]
  BY <1>4, <1>5, ParentAncestors, Ancestors, Zenon DEF n
<1>7. Anc[mostWork[t]] \subseteq haveData
  BY <1>1 DEF IInv, SharedOK, IndexConsistent
<1>8. Anc[n] \subseteq Anc[mostWork[t]]
  BY <1>1, <1>4, TreeAssumption, Zenon DEF n
<1>9. n \in haveData /\ n \in index /\ n \in linked /\ n \notin failed
  BY <1>1, <1>4, <1>7, <1>8, Zenon DEF IInv, SharedOK, SharedTypes, IndexConsistent, n
<1> QED  BY <1>1, <1>4, <1>5, <1>6, <1>9, Zenon DEF n

(* Connecting the next block keeps the invariant: the pruning that       *)
(* follows never removes the target.                                     *)
LEMMA ConnectTipOK ==
  ASSUME IInv, NEW t \in Threads, ConnectTip(t)
  PROVE  IInv'
<1> DEFINE n == NextBlock(t)
<1>1. /\ mostWork[t] \in Blocks /\ csMain = t /\ mostWork[t] \in candidates
      /\ n \in Anc[mostWork[t]] \ {Genesis}
      /\ n \in (Blocks \cap index \cap haveData \cap linked) \ failed
      /\ Anc[n] = Anc[tip] \cup {n}
  BY NextBlockOK, Zenon DEF ConnectTip
<1>2. tip' = n /\ level' = Raise(n, VALID_SCRIPTS) /\ candidates' = {c \in candidates : ~Worse(c, n)}
  BY Zenon DEF ConnectTip
<1> HIDE DEF n
<1>3. /\ level' \in [Blocks -> {0, VALID_TREE, VALID_TRANSACTIONS, VALID_SCRIPTS}]
      /\ level'[n] = VALID_SCRIPTS
      /\ \A b \in Blocks \ {n} : level'[b] = level[b]
  <2>1. level \in [Blocks -> {0, VALID_TREE, VALID_TRANSACTIONS, VALID_SCRIPTS}]
    BY Zenon DEF IInv, SharedOK, SharedTypes
  <2>2. n \in Blocks
    BY <1>1, Zenon
  <2> QED
    BY <1>2, <2>1, <2>2 DEF Raise, VALID_TREE, VALID_TRANSACTIONS, VALID_SCRIPTS
<1>4. SharedTypes'
  BY <1>1, <1>2, <1>3, Zenon DEF ConnectTip, IInv, SharedOK, SharedTypes, failed
<1>5. ActiveChainUsable'
  BY <1>1, <1>2, Zenon DEF ConnectTip, IInv, SharedOK, ActiveChainUsable, failed
<1>6. LevelsOK'
  <2>1. \A a \in Anc[n] \ {Genesis} : level'[a] = VALID_SCRIPTS
    <3>1. \A a \in Anc[tip] \ {Genesis} : a \in Blocks /\ level[a] = VALID_SCRIPTS
      BY Ancestors, Zenon DEF IInv, SharedOK, SharedTypes, LevelsOK
    <3> QED  BY <1>1, <1>3, <3>1, Zenon
  <2> QED  BY <1>2, <2>1, Zenon DEF ConnectTip, IInv, SharedOK, LevelsOK
<1>7. IndexConsistent'
  <2>0. /\ haveData = {b \in Blocks : level[b] >= VALID_TRANSACTIONS}
        /\ index = {b \in Blocks : level[b] >= VALID_TREE}
    BY Zenon DEF IInv, SharedOK, IndexConsistent
  <2>1. haveData = {b \in Blocks : level'[b] >= VALID_TRANSACTIONS}
    BY <1>1, <1>3, <2>0 DEF VALID_TRANSACTIONS, VALID_SCRIPTS
  <2>2. index = {b \in Blocks : level'[b] >= VALID_TREE}
    BY <1>1, <1>3, <2>0 DEF VALID_TREE, VALID_SCRIPTS
  <2>3. ASSUME NEW b \in Blocks, level'[b] = VALID_SCRIPTS, NEW a \in Anc[b] \ {Genesis}
        PROVE  level'[a] = VALID_SCRIPTS
    <3>1. CASE b = n  BY <3>1, <1>2, <1>6 DEF LevelsOK
    <3>2. CASE b # n
      <4>1. level[b] = VALID_SCRIPTS  BY <3>2, <2>3, <1>3
      <4>2. level[a] = VALID_SCRIPTS  BY <4>1 DEF IInv, SharedOK, IndexConsistent
      <4>3. a \in Blocks  BY Ancestors, Zenon
      <4> QED  BY <4>2, <4>3, <1>3
    <3> QED  BY <3>1, <3>2, Zenon
  <2> QED  BY <2>1, <2>2, <2>3, Zenon DEF ConnectTip, IInv, SharedOK, IndexConsistent
<1>8. SharedOK'
  BY <1>2, <1>4, <1>5, <1>6, <1>7, Zenon DEF ConnectTip, IInv, SharedOK
<1>9. CASE Leave(t, "test")
  <2>1. rejected' \subseteq Disputed /\ conflicting' \subseteq Disputed
    BY Zenon DEF ConnectTip, IInv, LocalOK, LocalTypes, checks
  <2> QED  BY <1>1, <1>8, <1>9, <2>1, LeaveOK, Zenon DEF IInv
<1>10. CASE Stay(t, "step")
  <2>1. LocalTypes'
    BY <1>10, ZenonT(60) DEF Stay, ConnectTip, IInv, LocalOK, LocalTypes, locals, checks, Phases
  <2>2. /\ \A u \in Threads \ {t} : pc'[u] = pc[u] /\ nested'[u] = nested[u] /\ blk'[u] = blk[u]
        /\ pc'[t] = "step" /\ csMain' = t /\ mostWork'[t] = mostWork[t]
    BY <1>1, <1>10 DEF Stay, IInv, LocalOK, LocalTypes, locals
  <2>3. ~Worse(mostWork[t], n)
    <3>1. n = mostWork[t] \/ Work[n] < Work[mostWork[t]]
      BY <1>1, WorkAssumption, Zenon
    <3>2. Work[n] \in Nat /\ Work[mostWork[t]] \in Nat /\ seq[n] \in Nat
      BY <1>1, WorkAssumption, Zenon DEF IInv, SharedOK, SharedTypes
    <3> QED  BY <3>1, <3>2 DEF Worse
  <2>4. mostWork[t] \in candidates' /\ Anc[mostWork[t]] \cap failed' = {}
    BY <1>1, <1>2, <2>3, Zenon DEF ConnectTip, Connecting, IInv, LocalOK, ThreadsOK, failed
  <2>5. LocalOK  BY DEF IInv
  <2> QED  BY <1>1, <1>8, <2>1, <2>2, <2>4, <2>5, OthersOK, Zenon DEF IInv
<1> QED  BY <1>9, <1>10, Zenon DEF ConnectTip

(* InvalidBlockFound marks a block above the tip, never one of the       *)
(* chain.                                                                *)
LEMMA ConnectTipInvalidOK ==
  ASSUME IInv, NEW t \in Threads, ConnectTipInvalid(t)
  PROVE  IInv'
<1> DEFINE n == NextBlock(t)
<1>1. csMain = t /\ n \in index /\ n \notin Anc[tip]
  BY NextBlockOK, Zenon DEF ConnectTipInvalid
<1>2. failed' = failed \cup {n} /\ candidates' \subseteq candidates
  BY Zenon DEF ConnectTipInvalid, failed
<1>3. bestInvalid' \in index \cup {NoBlock}
  BY <1>1, Zenon DEF ConnectTipInvalid, WorstOf, IInv, SharedOK, SharedTypes
<1>4. failed' \subseteq index /\ Anc[tip] \cap failed' = {}
  BY <1>1, <1>2, Zenon DEF IInv, SharedOK, SharedTypes, ActiveChainUsable
<1>5. SharedOK'
  BY <1>2, <1>3, <1>4, MarkOK, Zenon DEF ConnectTipInvalid, IInv
<1>6. rejected' \subseteq Disputed /\ conflicting' \subseteq Disputed
  BY Zenon DEF ConnectTipInvalid, Refused, IInv, LocalOK, LocalTypes
<1> QED  BY <1>1, <1>5, <1>6, LeaveOK, Zenon DEF ConnectTipInvalid, IInv

-----------------------------------------------------------------------------
(* RPC invalidateblock disconnects every block it marks.                 *)
LEMMA InvalidateBlockOK ==
  ASSUME IInv, NEW t \in Threads, NEW b \in Blocks, InvalidateBlock(t, b)
  PROVE  IInv'
<1>1. tip \in Blocks /\ b \in Anc[b] /\ b \in index
  BY Ancestors, Zenon DEF InvalidateBlock, IInv, SharedOK, SharedTypes
<1>2. Anc[tip'] \subseteq Anc[tip] /\ b \notin Anc[tip'] /\ tip' \in Anc[tip]
  <2>1. CASE b \in Anc[tip]
    <3>1. tip' = Parent[b] /\ b # Genesis  BY <2>1, Zenon DEF InvalidateBlock
    <3>2. Parent[b] \in Anc[b] /\ Anc[Parent[b]] = Anc[b] \ {b}  BY <3>1, ParentAncestors
    <3>3. Anc[b] \subseteq Anc[tip]  BY <1>1, <2>1, TreeAssumption, Zenon
    <3> QED  BY <3>1, <3>2, <3>3, Zenon
  <2>2. CASE b \notin Anc[tip]
    BY <2>2, <1>1, Ancestors, Zenon DEF InvalidateBlock
  <2> QED  BY <2>1, <2>2, Zenon
<1>3. failed' = failed \cup {b} \cup (Anc[tip] \ Anc[tip'])
  BY Zenon DEF InvalidateBlock, failed
<1>4. Anc[tip] \subseteq index /\ Anc[tip] \subseteq haveData \cap linked /\ Anc[tip] \cap failed = {}
  BY Zenon DEF IInv, SharedOK, SharedTypes, ActiveChainUsable
<1>5. candidates' \subseteq linked /\ candidates' \subseteq index
  BY Zenon DEF InvalidateBlock, IInv, SharedOK, SharedTypes
<1>6. bestInvalid' \in index \cup {NoBlock}
  BY <1>1, Zenon DEF InvalidateBlock, WorstOf, IInv, SharedOK, SharedTypes
<1>7. failed' \subseteq index /\ tip' \in index /\ Anc[tip'] \cap failed' = {}
  BY <1>1, <1>2, <1>3, <1>4, Zenon DEF IInv, SharedOK, SharedTypes
<1>8. SharedTypes'
  BY <1>5, <1>6, <1>7, Zenon DEF InvalidateBlock, IInv, SharedOK, SharedTypes
<1>9. ActiveChainUsable'
  BY <1>2, <1>4, <1>7, Zenon DEF InvalidateBlock, ActiveChainUsable
<1>10. IndexConsistent' /\ LevelsOK'
  BY <1>2, Zenon DEF InvalidateBlock, IInv, SharedOK, IndexConsistent, LevelsOK
<1>11. SharedOK'
  BY <1>5, <1>8, <1>9, <1>10, Zenon DEF InvalidateBlock, SharedOK
<1> QED  BY <1>11, StayOK, Zenon DEF InvalidateBlock, IInv

-----------------------------------------------------------------------------
(* A block whose data is not stored is at most a header.                   *)
LEMMA UnstoredLevel ==
  ASSUME SharedTypes, IndexConsistent, NEW b \in Blocks, b \notin haveData
  PROVE  level[b] \in {0, VALID_TREE}
<1>1. level[b] \in {0, VALID_TREE, VALID_TRANSACTIONS, VALID_SCRIPTS}  BY DEF SharedTypes
<1>2. ~(level[b] >= VALID_TRANSACTIONS)
  <2>1. haveData = {x \in Blocks : level[x] >= VALID_TRANSACTIONS}  BY Zenon DEF IndexConsistent
  <2> QED  BY <2>1
<1> QED  BY <1>1, <1>2 DEF VALID_TRANSACTIONS, VALID_SCRIPTS

-----------------------------------------------------------------------------
(* AcceptBlock that stops after the header keeps the invariant.          *)
LEMMA AcceptHeaderOnlyOK ==
  ASSUME IInv, NEW t \in Threads, AcceptHeaderOnly(t)
  PROVE  IInv'
<1> DEFINE b == blk[t]
<1>1. b \in Blocks \ {Genesis} /\ b \notin haveData /\ csMain = NoThread
  BY Zenon DEF AcceptHeaderOnly, AcceptUnder, IInv, LocalOK, ThreadsOK
<1>2. /\ index' = index \cup {b} /\ level' = Raise(b, VALID_TREE)
      /\ bestHeader' \in index' /\ failed' \subseteq failed \cup {b}
      /\ UNCHANGED <<haveData, linked, seq, nextSeq, candidates, unlinked, tip, bestInvalid>>
  BY Zenon DEF AcceptHeaderOnly, AddToBlockIndex, failed, IInv, SharedOK, SharedTypes
<1> HIDE DEF b
<1>3. level[b] \in {0, VALID_TREE}
  BY <1>1, UnstoredLevel, Zenon DEF IInv, SharedOK
<1>4. /\ level' \in [Blocks -> {0, VALID_TREE, VALID_TRANSACTIONS, VALID_SCRIPTS}]
      /\ level'[b] = VALID_TREE
      /\ \A x \in Blocks \ {b} : level'[x] = level[x]
  BY <1>1, <1>2, <1>3 DEF IInv, SharedOK, SharedTypes, Raise, VALID_TREE, VALID_TRANSACTIONS, VALID_SCRIPTS
<1>5. SharedTypes'
  BY <1>1, <1>2, <1>4, Zenon DEF IInv, SharedOK, SharedTypes
<1>6. ActiveChainUsable'
  BY <1>1, <1>2, Zenon DEF IInv, SharedOK, ActiveChainUsable
<1>7. LevelsOK'
  <2>1. \A a \in Anc[tip] : a \in Blocks \ {b}
    BY <1>1, Zenon DEF IInv, SharedOK, SharedTypes, ActiveChainUsable
  <2> QED  BY <1>2, <1>4, <2>1, Zenon DEF IInv, SharedOK, LevelsOK
<1>8. IndexConsistent'
  <2>1. linked = {x \in index' : Anc[x] \subseteq haveData}
    BY <1>1, <1>2, Ancestors DEF IInv, SharedOK, IndexConsistent
  <2>0. /\ haveData = {x \in Blocks : level[x] >= VALID_TRANSACTIONS}
        /\ index = {x \in Blocks : level[x] >= VALID_TREE}
    BY DEF IInv, SharedOK, IndexConsistent
  <2>2. haveData = {x \in Blocks : level'[x] >= VALID_TRANSACTIONS}
    <3>1. ~(level'[b] >= VALID_TRANSACTIONS)  BY <1>4 DEF VALID_TREE, VALID_TRANSACTIONS
    <3>2. ASSUME NEW x \in Blocks  PROVE x \in haveData <=> level'[x] >= VALID_TRANSACTIONS
      <4>1. CASE x = b  BY <1>1, <3>1, <4>1
      <4>2. CASE x # b
        <5>1. level'[x] = level[x]  BY <1>4, <4>2
        <5> QED  BY <2>0, <5>1
      <4> QED  BY <4>1, <4>2
    <3>3. haveData \subseteq Blocks  BY <2>0
    <3> QED  BY <3>2, <3>3
  <2>3. index' = {x \in Blocks : level'[x] >= VALID_TREE}
    <3>1. level'[b] >= VALID_TREE  BY <1>4 DEF VALID_TREE
    <3> QED  BY <1>1, <1>2, <1>4, <2>0, <3>1, Zenon
  <2>4. ASSUME NEW x \in Blocks, level'[x] = VALID_SCRIPTS, NEW a \in Anc[x] \ {Genesis}
        PROVE  level'[a] = VALID_SCRIPTS
    <3>1. level[x] = VALID_SCRIPTS  BY <1>4, <2>4 DEF VALID_TREE, VALID_SCRIPTS
    <3>2. level[a] = VALID_SCRIPTS  BY <3>1 DEF IInv, SharedOK, IndexConsistent
    <3>3. a \in Blocks /\ a # b
      BY <1>3, <3>2, Ancestors DEF VALID_TREE, VALID_SCRIPTS
    <3> QED  BY <1>4, <3>2, <3>3, Zenon
  <2>5. \A x \in index' \ linked : seq[x] = 0
    BY <1>5, Zenon DEF SharedTypes, IInv, SharedOK, LevelsOK
  <2>6. unlinked = haveData \ linked  BY DEF IInv, SharedOK, IndexConsistent
  <2> QED  BY <1>2, <2>1, <2>2, <2>3, <2>4, <2>5, <2>6, ZenonT(60) DEF IndexConsistent
<1>9. SharedOK'
  BY <1>2, <1>5, <1>6, <1>7, <1>8, Zenon DEF IInv, SharedOK
<1> QED  BY <1>1, <1>9, DropOK, Zenon DEF AcceptHeaderOnly, AcceptUnder, IInv

(* Linking: when b's data arrives and its parent is linked, the blocks     *)
(* that become linked are exactly those with no other data missing.        *)
LEMMA NewlyLinkedExact ==
  ASSUME SharedOK, NEW b \in Blocks \ {Genesis}, b \notin haveData, Parent[b] \in linked
  PROVE  /\ NewlyLinked(b) \subseteq (haveData \cup {b}) \ linked
         /\ b \in NewlyLinked(b)
         /\ linked \cup NewlyLinked(b) =
              {x \in index \cup {b} : Anc[x] \subseteq haveData \cup {b}}
<1>1. b \in Anc[b] /\ Anc[b] = Anc[Parent[b]] \cup {b} /\ b \notin linked
  BY Ancestors, ParentAncestors DEF SharedOK, SharedTypes
<1>2. Anc[b] \subseteq haveData \cup {b}
  BY <1>1, Zenon DEF SharedOK, IndexConsistent
<1>3. unlinked = haveData \ linked /\ linked = {x \in index : Anc[x] \subseteq haveData}
      /\ haveData \subseteq index /\ index \subseteq Blocks
  BY Zenon DEF SharedOK, SharedTypes, IndexConsistent
<1>4. NewlyLinked(b) \subseteq (haveData \cup {b}) \ linked /\ b \in NewlyLinked(b)
  BY <1>1, <1>3, Zenon DEF NewlyLinked
<1>5. ASSUME NEW x \in linked \cup NewlyLinked(b)
      PROVE  x \in index \cup {b} /\ Anc[x] \subseteq haveData \cup {b}
  <2>1. CASE x \in linked  BY <2>1, <1>3, Zenon
  <2>2. CASE x \in NewlyLinked(b)
    BY <2>2, <1>2, <1>3 DEF NewlyLinked
  <2> QED  BY <2>1, <2>2, Zenon
<1>6. ASSUME NEW x \in index \cup {b}, Anc[x] \subseteq haveData \cup {b}
      PROVE  x \in linked \cup NewlyLinked(b)
  <2>1. CASE b \notin Anc[x]
    <3>1. x # b  BY <2>1, <1>1, Zenon
    <3> QED  BY <2>1, <1>3, <1>6, <3>1
  <2>2. CASE b \in Anc[x]
    <3>1. x \in Blocks /\ x \in Anc[x]  BY <1>3, Ancestors, Zenon
    <3>2. ASSUME NEW y \in Anc[x] \ Anc[b]  PROVE y \in unlinked
      <4>1. b \in Anc[y]  BY <2>2, <3>1, TreeAssumption, Zenon
      <4>2. y # b  BY <1>1
      <4>3. y \in haveData  BY <1>6, <4>2, Zenon
      <4>4. y \notin linked  BY <4>1, <1>3
      <4> QED  BY <4>3, <4>4, <1>3
    <3>3. x \in unlinked \cup {b}
      <4>1. CASE x = b  BY <4>1
      <4>2. CASE x # b
        <5>1. x \in haveData  BY <4>2, <3>1, <1>6, Zenon
        <5>2. x \notin linked  BY <2>2, <1>3
        <5> QED  BY <5>1, <5>2, <1>3, Zenon
      <4> QED  BY <4>1, <4>2
    <3> QED  BY <2>2, <3>2, <3>3, Zenon DEF NewlyLinked
  <2> QED  BY <2>1, <2>2, Zenon
<1> QED  BY <1>4, <1>5, <1>6, ZenonT(60)

(* Sets of blocks are counted by natural numbers (AllCounted).             *)
Counted == \A S \in SUBSET Blocks : Cardinality(S) \in Nat

(* Storing a block: AcceptBlock with ReceivedBlockTransactions.            *)
LEMMA AcceptStoresOK ==
  ASSUME IInv, NEW t \in Threads, AcceptStores(t), Counted
  PROVE  IInv'
<1> DEFINE b == blk[t]
           new == NewlyLinked(b)
<1>1. b \in Blocks \ {Genesis} /\ b \notin haveData /\ csMain = NoThread
  BY Zenon DEF AcceptStores, AcceptUnder, IInv, LocalOK, ThreadsOK
<1>2. /\ index' = index \cup {b} /\ haveData' = haveData \cup {b}
      /\ level' = Raise(b, VALID_TRANSACTIONS)
      /\ bestHeader' \in index' /\ failed' = failed
      /\ UNCHANGED <<tip, bestInvalid>>
  BY Zenon DEF AcceptStores, AddToBlockIndex, ReceivedBlockTransactions, failed,
         IInv, SharedOK, SharedTypes
<1>4. \/ /\ Parent[b] \in linked
         /\ linked' = linked \cup new
         /\ \E s \in Numberings(new) : seq' = [d \in Blocks |-> IF d \in new THEN s[d] ELSE seq[d]]
         /\ nextSeq' = nextSeq + Cardinality(new)
         /\ candidates' \subseteq candidates \cup new
         /\ unlinked' = unlinked \ new
      \/ /\ Parent[b] \notin linked
         /\ unlinked' = unlinked \cup {b}
         /\ UNCHANGED <<linked, seq, nextSeq, candidates>>
  BY Zenon DEF AcceptStores, ReceivedBlockTransactions
<1> HIDE DEF b, new
<1>5. level[b] \in {0, VALID_TREE}
  BY <1>1, UnstoredLevel, Zenon DEF IInv, SharedOK
<1>6. /\ level' \in [Blocks -> {0, VALID_TREE, VALID_TRANSACTIONS, VALID_SCRIPTS}]
      /\ level'[b] = VALID_TRANSACTIONS
      /\ \A x \in Blocks \ {b} : level'[x] = level[x]
  BY <1>1, <1>2, <1>5 DEF IInv, SharedOK, SharedTypes, Raise, VALID_TREE, VALID_TRANSACTIONS, VALID_SCRIPTS
<1>7. b \in Anc[b] /\ b \notin linked /\ index' \subseteq Blocks
  BY <1>1, <1>2, Ancestors, Zenon DEF IInv, SharedOK, SharedTypes
<1>8. /\ linked' = {x \in index' : Anc[x] \subseteq haveData'}
      /\ unlinked' = haveData' \ linked'
      /\ linked \subseteq linked' /\ linked' \subseteq haveData'
      /\ candidates' \subseteq linked'
      /\ seq' \in [Blocks -> Nat] /\ nextSeq' \in Nat
      /\ \A x \in Blocks \ linked' : seq'[x] = 0
  <2>1. CASE Parent[b] \in linked
    <3>1. /\ new \subseteq (haveData \cup {b}) \ linked /\ b \in new
          /\ linked \cup new = {x \in index \cup {b} : Anc[x] \subseteq haveData \cup {b}}
      BY <1>1, <2>1, NewlyLinkedExact, ZenonT(60) DEF IInv, new
    <3>2. new \subseteq Blocks
      BY <1>1, <3>1 DEF IInv, SharedOK, SharedTypes
    <3>3. Cardinality(new) \in Nat
      BY <3>2, Zenon DEF Counted
    <3>4. PICK s \in Numberings(new) : seq' = [d \in Blocks |-> IF d \in new THEN s[d] ELSE seq[d]]
      BY <1>4, <2>1, Zenon
    <3>5. s \in [new -> nextSeq .. nextSeq + Cardinality(new) - 1]
      BY Zenon DEF Numberings
    <3>6. nextSeq \in Nat /\ seq \in [Blocks -> Nat]
      BY DEF IInv, SharedOK, SharedTypes
    <3>7. \A d \in new : s[d] \in Nat
      BY <3>3, <3>5, <3>6
    <3>8. seq' \in [Blocks -> Nat] /\ nextSeq' \in Nat
      <4>1. nextSeq' \in Nat
        BY <1>4, <2>1, <3>3, <3>6
      <4>2. seq' \in [Blocks -> Nat]
        BY <3>4, <3>6, <3>7, Zenon
      <4> QED  BY <4>1, <4>2, Zenon
    <3>9. \A x \in Blocks \ linked' : seq'[x] = 0
      BY <1>4, <2>1, <3>4, Zenon DEF IInv, SharedOK, LevelsOK
    <3>10. linked' = {x \in index' : Anc[x] \subseteq haveData'}
      BY <1>2, <1>4, <2>1, <3>1, Zenon
    <3>11. linked \subseteq linked' /\ linked' \subseteq haveData' /\ candidates' \subseteq linked'
      BY <1>2, <1>4, <2>1, <3>1, Zenon DEF IInv, SharedOK, SharedTypes
    <3>12. unlinked' = haveData' \ linked'
      BY <1>2, <1>4, <2>1, <3>1, ZenonT(60) DEF IInv, SharedOK, IndexConsistent
    <3> QED  BY <3>8, <3>9, <3>10, <3>11, <3>12, Zenon
  <2>2. CASE Parent[b] \notin linked
    <3>1. linked = {x \in index : Anc[x] \subseteq haveData}
      BY Zenon DEF IInv, SharedOK, IndexConsistent
    <3>2. ASSUME NEW x \in index', Anc[x] \subseteq haveData'  PROVE b \notin Anc[x]
      <4>1. SUFFICES ASSUME b \in Anc[x] PROVE FALSE  OBVIOUS
      <4>2. x \in Blocks  BY <1>7
      <4>3. Anc[b] \subseteq Anc[x]  BY <4>1, <4>2, TreeAssumption, Zenon
      <4>4. Parent[b] \in Blocks /\ Parent[b] \in Anc[b] /\ Anc[Parent[b]] = Anc[b] \ {b}
        BY <1>1, ParentAncestors, Zenon
      <4>5. Anc[Parent[b]] \subseteq haveData
        BY <1>2, <3>2, <4>3, <4>4, Zenon
      <4>6. Parent[b] \in Anc[Parent[b]]
        BY <4>4, Ancestors, Zenon
      <4>7. Parent[b] \in index
        BY <4>5, <4>6, Zenon DEF IInv, SharedOK, SharedTypes
      <4> QED  BY <2>2, <3>1, <4>5, <4>7, Zenon
    <3>3. {x \in index' : Anc[x] \subseteq haveData'} = linked
      BY <1>2, <1>7, <3>1, <3>2
    <3>4. unlinked = haveData \ linked
      BY Zenon DEF IInv, SharedOK, IndexConsistent
    <3>5. unlinked' = haveData' \ linked
      BY <1>2, <1>4, <1>7, <2>2, <3>4, Zenon
    <3> QED
      BY <1>2, <1>4, <2>2, <3>3, <3>5, Zenon DEF IInv, SharedOK, SharedTypes, LevelsOK
  <2> QED  BY <2>1, <2>2, Zenon
<1>9. SharedTypes'
  BY <1>2, <1>6, <1>7, <1>8, Zenon DEF IInv, SharedOK, SharedTypes
<1>10. ActiveChainUsable'
  BY <1>2, <1>8, ZenonT(60) DEF IInv, SharedOK, ActiveChainUsable
<1>11. LevelsOK'
  <2>1. \A a \in Anc[tip] : a \in Blocks \ {b}
    BY <1>1, Zenon DEF IInv, SharedOK, SharedTypes, ActiveChainUsable
  <2> QED  BY <1>2, <1>6, <1>8, <2>1, Zenon DEF IInv, SharedOK, LevelsOK
<1>12. IndexConsistent'
  <2>0. /\ haveData = {x \in Blocks : level[x] >= VALID_TRANSACTIONS}
        /\ index = {x \in Blocks : level[x] >= VALID_TREE}
    BY DEF IInv, SharedOK, IndexConsistent
  <2>1. haveData' = {x \in Blocks : level'[x] >= VALID_TRANSACTIONS}
    <3>1. level'[b] >= VALID_TRANSACTIONS  BY <1>6 DEF VALID_TRANSACTIONS
    <3> QED  BY <1>1, <1>2, <1>6, <2>0, <3>1, Zenon
  <2>2. index' = {x \in Blocks : level'[x] >= VALID_TREE}
    <3>1. level'[b] >= VALID_TREE  BY <1>6 DEF VALID_TREE, VALID_TRANSACTIONS
    <3> QED  BY <1>1, <1>2, <1>6, <2>0, <3>1, Zenon
  <2>3. ASSUME NEW x \in Blocks, level'[x] = VALID_SCRIPTS, NEW a \in Anc[x] \ {Genesis}
        PROVE  level'[a] = VALID_SCRIPTS
    <3>1. level[x] = VALID_SCRIPTS  BY <1>6, <2>3 DEF VALID_TRANSACTIONS, VALID_SCRIPTS
    <3>2. level[a] = VALID_SCRIPTS  BY <3>1, Zenon DEF IInv, SharedOK, IndexConsistent
    <3>3. a \in Blocks /\ a # b
      BY <1>5, <3>2, Ancestors DEF VALID_TREE, VALID_SCRIPTS
    <3> QED  BY <1>6, <3>2, <3>3, Zenon
  <2>4. \A x \in index' \ linked' : seq'[x] = 0
    BY <1>7, <1>8, Zenon
  <2> QED  BY <1>8, <2>1, <2>2, <2>3, <2>4, Zenon DEF IndexConsistent
<1>13. SharedOK'
  BY <1>8, <1>9, <1>10, <1>11, <1>12, Zenon DEF SharedOK
<1>14. rejected' \subseteq Disputed /\ conflicting' \subseteq Disputed
  BY Zenon DEF AcceptStores, AcceptUnder, checks, IInv, LocalOK, LocalTypes
<1>15. LocalOK'
  BY <1>1, <1>14, LeaveOK, Zenon DEF AcceptStores, IInv
<1> QED  BY <1>13, <1>15, Zenon DEF IInv

-----------------------------------------------------------------------------
(* CheckBlock's answer about a disputed block changes: nothing else does.  *)
LEMMA ChangeVerdictOK ==
  ASSUME IInv, NEW b \in Blocks, ChangeVerdict(b)
  PROVE  IInv'
<1>1. SharedOK'  BY SharedFrame, Zenon DEF ChangeVerdict, IInv
<1>2. LocalTypes'
  BY Zenon DEF ChangeVerdict, IInv, LocalOK, LocalTypes, locals
<1>3. LocalOK'
  BY <1>2, Zenon DEF ChangeVerdict, IInv, LocalOK, ThreadsOK, failed, status, chain, locals
<1> QED  BY <1>1, <1>3 DEF IInv

(* The initial state, with only the genesis block, satisfies the invariant. *)
LEMMA InitOK == Init => IInv
<1> SUFFICES ASSUME Init PROVE IInv  BY Zenon
<1>1. Genesis \in Blocks /\ Anc[Genesis] = {Genesis}  BY TreeAssumption, Zenon
<1>2. SharedTypes
  BY <1>1, Zenon DEF Init, SharedTypes, failed, VALID_TREE, VALID_TRANSACTIONS, VALID_SCRIPTS
<1>3. ActiveChainUsable /\ candidates \subseteq linked /\ LevelsOK
  BY <1>1, Zenon DEF Init, ActiveChainUsable, LevelsOK, failed
<1>4. IndexConsistent
  <2>1. /\ linked = {Genesis} /\ index = {Genesis} /\ haveData = {Genesis} /\ unlinked = {}
        /\ \A b \in Blocks : level[b] = (IF b = Genesis THEN VALID_TRANSACTIONS ELSE 0)
    BY Zenon DEF Init
  <2>2. /\ linked = {b \in index : Anc[b] \subseteq haveData} /\ unlinked = haveData \ linked
        /\ \A b \in index \ linked : seq[b] = 0
    BY <1>1, <2>1, Zenon
  <2>3. /\ haveData = {b \in Blocks : level[b] >= VALID_TRANSACTIONS}
        /\ index = {b \in Blocks : level[b] >= VALID_TREE}
        /\ \A b \in Blocks : level[b] # VALID_SCRIPTS
    BY <1>1, <2>1 DEF VALID_TREE, VALID_TRANSACTIONS, VALID_SCRIPTS
  <2> QED  BY <2>2, <2>3, Zenon DEF IndexConsistent
<1>5. LocalTypes
  BY ZenonT(60) DEF Init, LocalTypes, Phases
<1>6. ThreadsOK /\ \A t \in Threads : pc[t] # "step"
  BY DEF Init, ThreadsOK
<1> QED  BY <1>2, <1>3, <1>4, <1>5, <1>6 DEF IInv, SharedOK, LocalOK

(* Every step of every thread preserves the invariant.                     *)
LEMMA NextOK ==
  ASSUME Counted, IInv, [Next]_vars  PROVE IInv'
<1>1. CASE UNCHANGED vars
  <2>1. SharedOK'  BY <1>1, SharedFrame, Zenon DEF vars, IInv
  <2>2. LocalOK'
    BY <1>1, Zenon DEF vars, IInv, LocalOK, LocalTypes, ThreadsOK, failed, status, chain, checks, locals
  <2> QED  BY <2>1, <2>2 DEF IInv
<1>2. ASSUME NEW b \in Blocks, ChangeVerdict(b)  PROVE IInv'
  BY <1>2, ChangeVerdictOK, Zenon
<1>3. ASSUME NEW t \in Threads, Start(t)  PROVE IInv'
  BY <1>3, UnlockedSteps, InvalidateBlockOK, ReconsiderRequestOK, Zenon DEF Start
<1>4. ASSUME NEW t \in Threads, AcceptBlock(t)  PROVE IInv'
  BY <1>4, LockedLocalSteps, AcceptReconsidersParentOK, AcceptHeaderOnlyOK, AcceptStoresOK, ZenonT(60)
     DEF AcceptBlock
<1>5. ASSUME NEW t \in Threads, ActivateBestChain(t)  PROVE IInv'
  BY <1>5, LockedLocalSteps, UnlockedSteps, FindUnusableOK, DisconnectTipOK, ConnectTipOK,
     ConnectTipInvalidOK DEF ActivateBestChain, ActivateBestChainStep
<1>6. ASSUME NEW t \in Threads, Reprocess(t)  PROVE IInv'
  BY <1>6, ReprocessOneOK, DisconnectBlocksOK, Zenon DEF Reprocess
<1> QED  BY <1>1, <1>2, <1>3, <1>4, <1>5, <1>6 DEF Next

-----------------------------------------------------------------------------
(* The promise of ActivateBestChain.  It is not kept when verdicts change   *)
(* or ConnectBlock fails without one, nor when flags are taken back: then a *)
(* pruned block is usable again and no candidate.  What is left are blocks  *)
(* and headers in any order, invalid ones, and RPC invalidateblock.         *)
Calm == Ops \subseteq {"invalidate"} /\ NoVerdict = {} /\ Checkpointed = {} /\ Disputed = {}

usable == {b \in Blocks : Anc[b] \subseteq linked \ failedValid}

(* CBlockIndexWorkComparator for the sequence numbers s, and the best of U. *)
Less(s, a, b) == Work[a] < Work[b] \/ (Work[a] = Work[b] /\ s[a] > s[b])
Best(s, U, c) == \A b \in U : ~Less(s, c, b)

(* Whatever is pruned from the candidates leaves a better one, or the tip,  *)
(* that ConnectBlock has accepted, so that it cannot turn out invalid.      *)
Proven(c) == c \in usable /\ (c = Genesis \/ level[c] = VALID_SCRIPTS)
Covered ==
  \A b \in usable : b \in candidates \/ \E c \in candidates \cup {tip} : Proven(c) /\ Less(seq, b, c)
ScriptsGood == \A b \in Blocks : level[b] = VALID_SCRIPTS => b \notin BadConnect
TreeQuiet == FailedHasCause /\ ScriptsGood /\ Covered

(* A thread that will look for a better chain once more.                    *)
Busy(t) == pc[t] \in {"activate", "find", "step"} \/ (pc[t] = "test" /\ mostWork[t] # tip)
ThreadsQuiet ==
  /\ \A t \in Threads : pc[t] = "step" => Best(seq, usable, mostWork[t])
  /\ \A t \in Threads : pc[t] # "reprocess"
  /\ Best(seq, usable, tip) \/ \E t \in Threads : Busy(t)

QInv == IInv /\ TreeQuiet /\ ThreadsQuiet

(* The comparator is a strict order.                                        *)
LEMMA LessOrder ==
  ASSUME NEW s \in [Blocks -> Nat], NEW a \in Blocks, NEW b \in Blocks, NEW c \in Blocks,
         Less(s, a, b)
  PROVE  ~Less(s, b, a) /\ a # b /\ (Less(s, b, c) => Less(s, a, c))
<1>1. /\ Work[a] \in Nat /\ Work[b] \in Nat /\ Work[c] \in Nat
      /\ s[a] \in Nat /\ s[b] \in Nat /\ s[c] \in Nat
  BY WorkAssumption
<1> QED  BY <1>1 DEF Less

(* What the tree of blocks gives for the comparison.                        *)
LEMMA TipProven ==
  ASSUME SharedOK
  PROVE  /\ tip \in Blocks /\ Proven(tip) /\ usable \subseteq linked \ failedValid
         /\ linked \subseteq index /\ index \subseteq Blocks /\ candidates \subseteq linked
         /\ seq \in [Blocks -> Nat]
<1>1. /\ tip \in Blocks /\ linked \subseteq index /\ index \subseteq Blocks
      /\ candidates \subseteq linked /\ seq \in [Blocks -> Nat]
  BY DEF SharedOK, SharedTypes
<1>2. tip \in usable
  BY <1>1, Zenon DEF SharedOK, ActiveChainUsable, failed, usable
<1>3. tip = Genesis \/ level[tip] = VALID_SCRIPTS
  BY <1>1, Ancestors, Zenon DEF SharedOK, LevelsOK
<1>4. usable \subseteq linked \ failedValid
  BY Ancestors DEF usable
<1> QED  BY <1>1, <1>2, <1>3, <1>4 DEF Proven

(* The same of the state after a step.                                      *)
LEMMA TipProvenAfter ==
  ASSUME SharedOK'
  PROVE  tip' \in usable' /\ (tip' = Genesis \/ level'[tip'] = VALID_SCRIPTS)
<1>1. tip' \in Blocks
  BY DEF SharedOK, SharedTypes
<1>2. tip' \in usable'
  BY <1>1, Zenon DEF SharedOK, ActiveChainUsable, failed, usable
<1>3. tip' = Genesis \/ level'[tip'] = VALID_SCRIPTS
  BY <1>1, Ancestors, Zenon DEF SharedOK, LevelsOK
<1> QED  BY <1>2, <1>3

(* A block that is no worse than any candidate is the best of all.          *)
LEMMA Chosen ==
  ASSUME SharedOK, Covered, NEW c \in Blocks, \A d \in candidates : ~Less(seq, c, d)
  PROVE  Best(seq, usable, c)
<1> SUFFICES ASSUME NEW b \in usable, Less(seq, c, b) PROVE FALSE  BY Zenon DEF Best
<1>1. /\ tip \in usable /\ tip \in Blocks /\ b \in Blocks /\ candidates \subseteq Blocks
      /\ seq \in [Blocks -> Nat]
  BY TipProven, ZenonT(60) DEF Proven
<1>2. ~Less(seq, c, tip)
  <2> SUFFICES ASSUME Less(seq, c, tip) PROVE FALSE  OBVIOUS
  <2>1. tip \notin candidates  OBVIOUS
  <2>2. PICK d \in candidates \cup {tip} : Less(seq, tip, d)
    BY <1>1, <2>1 DEF Covered
  <2> QED  BY <1>1, <2>2, LessOrder
<1>3. PICK d \in candidates \cup {tip} : Less(seq, b, d)
  BY Zenon DEF Covered
<1> QED  BY <1>1, <1>2, <1>3, LessOrder

(* A step of one thread that leaves the tree alone.                         *)
LEMMA OwnStep ==
  ASSUME QInv, IInv', NEW t \in Threads, UNCHANGED <<status, chain>>,
         \A u \in Threads \ {t} : pc'[u] = pc[u] /\ mostWork'[u] = mostWork[u],
         pc'[t] = "step" => Best(seq, usable, mostWork'[t]), pc'[t] # "reprocess",
         Busy(t) => Busy(t)' \/ Best(seq, usable, tip)
  PROVE  QInv'
<1>1. /\ UNCHANGED <<index, level, failedValid, linked, seq, candidates, tip>>
      /\ failed' = failed /\ usable' = usable
  BY Zenon DEF status, chain, failed, usable
<1>2. TreeQuiet'
  BY <1>1, Zenon DEF QInv, TreeQuiet, FailedHasCause, ScriptsGood, Covered, Proven
<1>3. Best(seq', usable', tip') \/ \E u \in Threads : Busy(u)'
  BY <1>1, Zenon DEF QInv, ThreadsQuiet, Busy
<1>4. ThreadsQuiet'
  BY <1>1, <1>3, Zenon DEF QInv, ThreadsQuiet
<1> QED  BY <1>2, <1>4, Zenon DEF QInv

(* A step of one thread, in cs_main, that changes the tree.                 *)
LEMMA TreeStep ==
  ASSUME QInv, IInv', TreeQuiet', NEW t \in Threads, csMain \in {t, NoThread},
         \A u \in Threads \ {t} : pc'[u] = pc[u],
         pc'[t] = "step" => Best(seq', usable', mostWork'[t]), pc'[t] # "reprocess",
         Best(seq', usable', tip') \/ \E u \in Threads : Busy(u)'
  PROVE  QInv'
<1>1. \A u \in Threads \ {t} : pc[u] # "step"
  BY ParameterAssumption, Zenon DEF QInv, IInv, LocalOK, ThreadsOK
<1>2. ThreadsQuiet'
  BY <1>1, Zenon DEF QInv, ThreadsQuiet
<1> QED  BY <1>2, Zenon DEF QInv

(* The steps that leave the tree alone.                                     *)
LEMMA OwnSteps ==
  ASSUME QInv, IInv', Calm, NEW t \in Threads,
         \/ Lock(t) \/ FindTarget(t) \/ FindNothing(t) \/ CheckAndReturn(t)
         \/ ConnectTipCorrupted(t) \/ ConnectTipFails(t) \/ AcceptReturns(t)
         \/ AcceptOnInvalidParent(t) \/ AcceptKnown(t) \/ TestTip(t) \/ ReprocessBlocks(t)
         \/ \E b \in Blocks : CheckNewBlock(t, b)
  PROVE  QInv'
<1>1. UNCHANGED <<status, chain>>
  BY Zenon DEF Lock, FindTarget, FindNothing, CheckAndReturn, ConnectTipCorrupted, ConnectTipFails,
         AcceptReturns, AcceptOnInvalidParent, AcceptKnown, TestTip, ReprocessBlocks, CheckNewBlock
<1>2. pc \in [Threads -> Phases] /\ mostWork \in [Threads -> Blocks \cup {NoBlock}]
  BY Zenon DEF QInv, IInv, LocalOK, LocalTypes
<1>3. SharedOK /\ Covered /\ tip \in Blocks /\ candidates \subseteq Blocks
  BY TipProven, Zenon DEF QInv, IInv, TreeQuiet
<1>4. tip' = tip
  BY <1>1, Zenon DEF chain
<1> DEFINE Goal ==
             /\ \A u \in Threads \ {t} : pc'[u] = pc[u] /\ mostWork'[u] = mostWork[u]
             /\ pc'[t] = "step" => Best(seq, usable, mostWork'[t])
             /\ pc'[t] # "reprocess"
             /\ Busy(t) => Busy(t)' \/ Best(seq, usable, tip)
<1> SUFFICES Goal  BY <1>1, OwnStep, Zenon
<1>5. CASE Lock(t) \/ AcceptReturns(t)
  BY <1>2, <1>5, Zenon DEF Lock, AcceptReturns, Busy
<1>6. CASE FindTarget(t)
  <2>1. PICK c \in candidates : IsBest(c) /\ mostWork' = [mostWork EXCEPT ![t] = c]
    BY <1>6, Zenon DEF FindTarget
  <2>2. Best(seq, usable, c)
    BY <1>3, <2>1, Chosen, Zenon DEF IsBest, Worse, Less
  <2> QED  BY <1>2, <1>6, <2>1, <2>2, Zenon DEF FindTarget, Busy
<1>7. CASE FindNothing(t)
  <2>1. Best(seq, usable, tip)
    BY <1>3, <1>7, Chosen, Zenon DEF FindNothing, IsBest, Worse, Less
  <2> QED  BY <1>2, <1>7, <2>1, Zenon DEF FindNothing, Return
<1>8. CASE CheckAndReturn(t)
  BY <1>2, <1>8, Zenon DEF CheckAndReturn, Return, Busy
<1>9. CASE ConnectTipCorrupted(t)
  BY <1>2, <1>4, <1>9, Zenon DEF ConnectTipCorrupted, Connecting, Leave, locals, Busy
<1>10. CASE AcceptOnInvalidParent(t) \/ AcceptKnown(t)
  <2>1. pc[t] = "accept" /\ (Drop(t) \/ Leave(t, "activate"))
    BY <1>10, Zenon DEF AcceptOnInvalidParent, AcceptKnown, AcceptUnder
  <2> QED  BY <1>2, <2>1, Zenon DEF Drop, Leave, locals, Busy
<1>11. CASE TestTip(t)
  BY <1>2, <1>4, <1>11, Zenon DEF TestTip, locals, Busy
<1>12. CASE \E b \in Blocks : CheckNewBlock(t, b)
  BY <1>2, <1>12, Zenon DEF CheckNewBlock, Busy
<1>13. ~ConnectTipFails(t) /\ ~ReprocessBlocks(t)
  BY Zenon DEF Calm, ConnectTipFails, ReprocessBlocks
<1> HIDE DEF Goal
<1> QED  BY <1>5, <1>6, <1>7, <1>8, <1>9, <1>10, <1>11, <1>12, <1>13, ZenonT(60)

(* Disconnecting the tip: what the tip covered is covered by what covers    *)
(* the tip, or the tip is still a candidate.                                *)
LEMMA DisconnectTipQuiet ==
  ASSUME QInv, IInv', NEW t \in Threads, DisconnectTip(t)
  PROVE  QInv'
<1>1. /\ UNCHANGED <<index, level, failedValid, linked, seq, candidates>>
      /\ failed' = failed /\ usable' = usable
  BY ZenonT(60) DEF DisconnectTip, status, failed, usable
<1>2. /\ tip \in Blocks /\ Proven(tip) /\ candidates \subseteq Blocks /\ seq \in [Blocks -> Nat]
      /\ usable \subseteq Blocks /\ Covered
  BY TipProven DEF QInv, IInv, TreeQuiet, usable
<1>3. ASSUME NEW b \in usable, b \notin candidates
      PROVE  \E c \in candidates : Proven(c) /\ Less(seq, b, c)
  <2>1. PICK c \in candidates \cup {tip} : Proven(c) /\ Less(seq, b, c)
    BY <1>2, <1>3, Zenon DEF Covered
  <2>2. CASE c = tip /\ tip \notin candidates
    <3>1. PICK d \in candidates \cup {tip} : Proven(d) /\ Less(seq, tip, d)
      BY <1>2, <2>2, Zenon DEF Covered, Proven
    <3> QED  BY <1>2, <2>1, <2>2, <3>1, LessOrder, ZenonT(60)
  <2> QED  BY <2>1, <2>2, Zenon
<1>4. TreeQuiet'
  BY <1>1, <1>3, Zenon DEF QInv, TreeQuiet, FailedHasCause, ScriptsGood, Covered, Proven
<1>5. /\ csMain = t /\ pc[t] = "step" /\ pc \in [Threads -> Phases]
      /\ Best(seq, usable, mostWork[t])
  BY Zenon DEF DisconnectTip, QInv, IInv, LocalOK, LocalTypes, ThreadsOK, ThreadsQuiet
<1>6. /\ \A u \in Threads \ {t} : pc'[u] = pc[u]
      /\ mostWork' = mostWork
      /\ pc'[t] = "step" \/ (pc'[t] = "test" /\ tip' = mostWork[t])
  BY <1>5, Zenon DEF DisconnectTip, Leave, Stay, locals
<1>7. Best(seq', usable', tip') \/ Busy(t)'
  BY <1>1, <1>5, <1>6, Zenon DEF Busy
<1> QED  BY <1>1, <1>4, <1>5, <1>6, <1>7, TreeStep, Zenon

(* Connecting a block: what is pruned is worse than the new tip.            *)
LEMMA ConnectTipQuiet ==
  ASSUME QInv, IInv', NEW t \in Threads, ConnectTip(t)
  PROVE  QInv'
<1> DEFINE n == NextBlock(t)
<1>1. n \in Blocks /\ csMain = t /\ Anc[n] = Anc[tip] \cup {n} /\ n \notin Anc[tip] /\ n \notin BadConnect
  BY NextBlockOK, Zenon DEF ConnectTip, Invalid, QInv
<1>2. /\ UNCHANGED <<index, failedValid, linked, seq>> /\ failed' = failed /\ usable' = usable
      /\ tip' = n /\ level' = Raise(n, VALID_SCRIPTS)
      /\ candidates' = {c \in candidates : ~Less(seq, c, n)}
  BY Zenon DEF ConnectTip, failed, usable, Worse, Less
<1> HIDE DEF n
<1>3. /\ tip \in Blocks /\ Proven(tip) /\ candidates \subseteq Blocks /\ seq \in [Blocks -> Nat]
      /\ usable \subseteq Blocks /\ Covered
      /\ level \in [Blocks -> {0, VALID_TREE, VALID_TRANSACTIONS, VALID_SCRIPTS}]
  BY TipProven, ZenonT(60) DEF QInv, IInv, SharedOK, SharedTypes, TreeQuiet, usable
<1>4. level'[n] = VALID_SCRIPTS /\ \A b \in Blocks \ {n} : level'[b] = level[b]
  BY <1>1, <1>2, <1>3 DEF Raise, VALID_TREE, VALID_TRANSACTIONS, VALID_SCRIPTS
<1>5. Less(seq, tip, n)
  BY <1>1, <1>3, Ancestors, WorkAssumption DEF Less
<1>6. n \in usable' /\ (n = Genesis \/ level'[n] = VALID_SCRIPTS)
  BY <1>2, TipProvenAfter DEF IInv
<1>7. Covered'
  <2> SUFFICES ASSUME NEW b \in usable, b \notin candidates', ~Less(seq, b, n)
               PROVE  \E c \in candidates' : Proven(c)' /\ Less(seq, b, c)
    BY <1>2, <1>6, Zenon DEF Covered, Proven
  <2>1. PICK c \in candidates \cup {tip} : Proven(c) /\ Less(seq, b, c)
    BY <1>2, <1>3, ZenonT(60) DEF Covered
  <2>2. ~Less(seq, c, n) /\ c # tip
    BY <1>1, <1>3, <1>5, <2>1, LessOrder
  <2>3. c \in usable' /\ (c = Genesis \/ level'[c] = VALID_SCRIPTS)
    BY <1>2, <1>3, <1>4, <2>1, Zenon DEF Proven
  <2> QED  BY <1>2, <2>1, <2>2, <2>3, Zenon DEF Proven
<1>8. TreeQuiet'
  BY <1>1, <1>2, <1>4, <1>7, Zenon DEF QInv, TreeQuiet, FailedHasCause, ScriptsGood
<1>9. pc[t] = "step" /\ pc \in [Threads -> Phases] /\ Best(seq, usable, mostWork[t])
  BY Zenon DEF ConnectTip, Connecting, QInv, IInv, LocalOK, LocalTypes, ThreadsQuiet
<1>10. /\ \A u \in Threads \ {t} : pc'[u] = pc[u]
       /\ mostWork' = mostWork /\ pc'[t] \in {"step", "test"}
  BY <1>9, Zenon DEF ConnectTip, Leave, Stay, locals
<1>11. Best(seq', usable', tip') \/ Busy(t)'
  BY <1>2, <1>9, <1>10, Zenon DEF Busy
<1> QED  BY <1>1, <1>2, <1>8, <1>9, <1>10, <1>11, TreeStep, Zenon

(* Marking blocks that no proven block hangs on, and taking unusable blocks *)
(* from the candidates.                                                     *)
LEMMA MarkQuiet ==
  ASSUME QInv, IInv', NEW t \in Threads, csMain = t, FailedHasCause',
         UNCHANGED <<level, linked, seq, tip>>, usable' \subseteq usable,
         candidates' \subseteq candidates, usable' \cap candidates \subseteq candidates',
         \A c \in candidates \cup {tip} : Proven(c) => c \in usable',
         \A u \in Threads \ {t} : pc'[u] = pc[u],
         pc'[t] \notin {"step", "reprocess"}, Busy(t)'
  PROVE  QInv'
<1>1. Covered /\ ScriptsGood
  BY Zenon DEF QInv, TreeQuiet
<1>2. ASSUME NEW b \in usable', b \notin candidates'
      PROVE  \E c \in candidates' \cup {tip'} : Proven(c)' /\ Less(seq', b, c)
  <2>1. PICK c \in candidates \cup {tip} : Proven(c) /\ Less(seq, b, c)
    BY <1>1, <1>2, Zenon DEF Covered
  <2> QED  BY <2>1, Zenon DEF Proven
<1>3. TreeQuiet'
  BY <1>1, <1>2, Zenon DEF TreeQuiet, ScriptsGood, Covered
<1> QED  BY <1>3, TreeStep, Zenon

(* InvalidBlockFound: a block that ConnectBlock refuses is not below a      *)
(* block that it has accepted.                                              *)
LEMMA ConnectTipInvalidQuiet ==
  ASSUME QInv, IInv', Calm, NEW t \in Threads, ConnectTipInvalid(t)
  PROVE  QInv'
<1> DEFINE n == NextBlock(t)
<1>1. csMain = t /\ n \in Blocks /\ n # Genesis /\ n \in Anc[n] /\ pc[t] = "step" /\ tip # mostWork[t]
  BY NextBlockOK, Ancestors, Zenon DEF ConnectTipInvalid, Connecting, QInv
<1>2. n \in BadConnect
  BY Zenon DEF ConnectTipInvalid, Refused, Invalid, Calm, QInv, IInv, LocalOK, LocalTypes
<1>3. /\ UNCHANGED <<level, linked, seq, tip>>
      /\ failedValid' = failedValid \cup {n} /\ failedChild' = failedChild
      /\ candidates' = candidates \ {n}
  BY Zenon DEF ConnectTipInvalid
<1> HIDE DEF n
<1>4. usable' = {b \in usable : n \notin Anc[b]}
  BY <1>3, Zenon DEF usable
<1>5. ASSUME NEW c \in candidates \cup {tip}, Proven(c)  PROVE c \in usable'
  <2>1. c \in Blocks /\ (c = Genesis \/ level[c] = VALID_SCRIPTS)
    BY <1>5, Zenon DEF Proven, usable
  <2>2. level[n] # VALID_SCRIPTS
    BY <1>1, <1>2, ZenonT(60) DEF QInv, TreeQuiet, ScriptsGood
  <2>3. n \notin Anc[c]
    BY <1>1, <2>1, <2>2, TreeAssumption DEF QInv, IInv, SharedOK, IndexConsistent
  <2> QED  BY <1>4, <1>5, <2>3, Zenon DEF Proven
<1>6. FailedHasCause'
  BY <1>1, <1>3, ZenonT(60) DEF QInv, TreeQuiet, FailedHasCause, failed
<1>7. usable' \cap candidates \subseteq candidates' /\ usable' \subseteq usable /\ candidates' \subseteq candidates
  BY <1>1, <1>3, <1>4
<1>8. pc'[t] = "test" /\ mostWork' = mostWork /\ \A u \in Threads \ {t} : pc'[u] = pc[u]
  BY Zenon DEF ConnectTipInvalid, Leave, locals, QInv, IInv, LocalOK, LocalTypes
<1>9. Busy(t)'
  BY <1>1, <1>3, <1>8, Zenon DEF Busy
<1> QED  BY <1>1, <1>3, <1>5, <1>6, <1>7, <1>8, <1>9, MarkQuiet, Zenon

(* FindMostWorkChain gives up candidates that hang on a failed block.       *)
LEMMA FindUnusableQuiet ==
  ASSUME QInv, IInv', NEW t \in Threads, FindUnusable(t)
  PROVE  QInv'
<1>1. PICK c \in candidates : \E b \in Unusable(c) :
        /\ candidates' = candidates \ ((Anc[c] \ Anc[b]) \cup {b})
        /\ failedChild' = IF b \in failed THEN failedChild \cup (Anc[c] \ Anc[b]) ELSE failedChild
  BY Zenon DEF FindUnusable
<1>2. PICK b \in Unusable(c) :
        /\ candidates' = candidates \ ((Anc[c] \ Anc[b]) \cup {b})
        /\ failedChild' = IF b \in failed THEN failedChild \cup (Anc[c] \ Anc[b]) ELSE failedChild
  BY <1>1, Zenon
<1>3. c \in Blocks /\ Anc[c] \subseteq haveData /\ Anc[c] \subseteq Blocks
  BY Ancestors, Zenon DEF QInv, IInv, SharedOK, SharedTypes, IndexConsistent
<1>4. b \in Anc[c] /\ b \in failed /\ b \in Anc[b]
  BY <1>3, Ancestors, Zenon DEF Unusable
<1>5. PICK a \in Anc[b] : a \in failedValid
  BY <1>4, Zenon DEF QInv, TreeQuiet, FailedHasCause
<1>6. \A x \in (Anc[c] \ Anc[b]) \cup {b} : x \in Blocks /\ a \in Anc[x]
  <2>1. ASSUME NEW x \in Anc[c] \ Anc[b]  PROVE a \in Anc[x]
    <3>1. x \in Blocks /\ b \in Anc[x]
      BY <1>3, <1>4, TreeAssumption, Zenon
    <3> QED  BY <1>5, <3>1, TreeAssumption, Zenon
  <2> QED  BY <1>3, <1>4, <1>5, <2>1
<1>7. /\ UNCHANGED <<level, linked, seq, tip, failedValid, pc>> /\ usable' = usable
      /\ pc[t] = "find" /\ csMain = t
  BY Zenon DEF FindUnusable, usable, QInv, IInv, LocalOK, ThreadsOK
<1>8. FailedHasCause'
  BY <1>2, <1>4, <1>5, <1>6, <1>7, Zenon DEF QInv, TreeQuiet, FailedHasCause, failed
<1>9. usable \cap candidates \subseteq candidates' /\ candidates' \subseteq candidates
  BY <1>2, <1>5, <1>6, Zenon DEF usable
<1>10. Busy(t)'
  BY <1>7, Zenon DEF Busy
<1> QED  BY <1>7, <1>8, <1>9, <1>10, MarkQuiet, Zenon DEF Proven

(* RPC invalidateblock: every usable block is a candidate again, or worse   *)
(* than the new tip.                                                        *)
LEMMA InvalidateBlockQuiet ==
  ASSUME QInv, IInv', NEW t \in Threads, NEW b \in Blocks, InvalidateBlock(t, b)
  PROVE  QInv'
<1>1. /\ UNCHANGED <<index, haveData, level, linked, seq>>
      /\ failedValid' = failedValid \cup {b}
      /\ failedChild' = failedChild \cup (Anc[tip] \ Anc[tip'])
      /\ tip' = IF b \in Anc[tip] THEN Parent[b] ELSE tip
      /\ b # Genesis /\ csMain = NoThread
      /\ \A d \in index \cap linked : d \notin failed' /\ level[d] >= VALID_TRANSACTIONS
            /\ ~Less(seq, d, tip') => d \in candidates'
  BY Zenon DEF InvalidateBlock, Worse, Less
<1>2. ASSUME NEW x \in Anc[tip] \ Anc[tip']  PROVE b \in Anc[x]
  <2>1. tip \in Blocks /\ b \in Anc[tip] /\ tip' = Parent[b]
    BY <1>1, Zenon DEF QInv, IInv, SharedOK, SharedTypes
  <2>2. Anc[tip'] = Anc[b] \ {b} /\ b \in Anc[b]
    BY <1>1, <2>1, ParentAncestors, Ancestors, Zenon
  <2>3. b \in Anc[x] \/ x \in Anc[b]
    BY <2>1, TreeAssumption, Zenon
  <2> QED  BY <2>2, <2>3, Zenon
<1>3. b \in Anc[b]
  BY Ancestors, Zenon
<1>4. FailedHasCause'
  BY <1>1, <1>2, <1>3, ZenonT(60) DEF QInv, TreeQuiet, FailedHasCause, failed
<1>5. tip' \in usable' /\ (tip' = Genesis \/ level'[tip'] = VALID_SCRIPTS)
  BY TipProvenAfter DEF IInv
<1>6. Covered'
  <2> SUFFICES ASSUME NEW d \in usable', ~Less(seq, d, tip')  PROVE d \in candidates'
    BY <1>1, <1>5, Zenon DEF Covered, Proven
  <2>1. d \in Blocks /\ Anc[d] \subseteq linked /\ Anc[d] \cap failedValid' = {} /\ d \in Anc[d]
    BY <1>1, Ancestors, Zenon DEF usable
  <2>2. d \notin failed'
    BY <1>4, <2>1, Zenon DEF FailedHasCause
  <2>3. d \in index /\ level[d] >= VALID_TRANSACTIONS
    BY <2>1, Zenon DEF QInv, IInv, SharedOK, SharedTypes, IndexConsistent
  <2> QED  BY <1>1, <2>1, <2>2, <2>3, Zenon
<1>7. TreeQuiet'
  BY <1>1, <1>4, <1>6, Zenon DEF QInv, TreeQuiet, ScriptsGood
<1>8. pc'[t] = "activate" /\ \A u \in Threads \ {t} : pc'[u] = pc[u]
  BY Zenon DEF InvalidateBlock, Stay, QInv, IInv, LocalOK, LocalTypes
<1>9. Busy(t)'
  BY <1>8, Zenon DEF Busy
<1> QED  BY <1>1, <1>7, <1>8, <1>9, TreeStep, Zenon

(* A header, with a block that is refused: no block becomes usable or stops *)
(* being so.                                                                *)
LEMMA AcceptHeaderOnlyQuiet ==
  ASSUME QInv, IInv', NEW t \in Threads, AcceptHeaderOnly(t)
  PROVE  QInv'
<1> DEFINE b == blk[t]
<1>1. b \in Blocks /\ b \notin haveData /\ csMain = NoThread /\ pc[t] = "accept"
  BY Zenon DEF AcceptHeaderOnly, AcceptUnder, QInv, IInv, LocalOK, ThreadsOK
<1>2. /\ UNCHANGED <<linked, seq, candidates, tip, mostWork, failedChild>>
      /\ level' = Raise(b, VALID_TREE) /\ failedValid' \in {failedValid, failedValid \cup {b}}
      /\ pc' = [pc EXCEPT ![t] = "idle"]
  BY Zenon DEF AcceptHeaderOnly, Drop
<1> HIDE DEF b
<1>3. b \notin linked /\ b \in Anc[b] /\ level[b] \in {0, VALID_TREE}
      /\ level \in [Blocks -> {0, VALID_TREE, VALID_TRANSACTIONS, VALID_SCRIPTS}]
  BY <1>1, UnstoredLevel, Ancestors, ZenonT(60) DEF QInv, IInv, SharedOK, SharedTypes
<1>4. level'[b] # VALID_SCRIPTS /\ \A x \in Blocks \ {b} : level'[x] = level[x]
  BY <1>1, <1>2, <1>3 DEF Raise, VALID_TREE, VALID_SCRIPTS, VALID_TRANSACTIONS
<1>5. usable' = usable /\ \A x \in usable : x \in Blocks \ {b}
  BY <1>2, <1>3, Ancestors DEF usable
<1>6. FailedHasCause' /\ ScriptsGood'
  BY <1>2, <1>3, <1>4 DEF QInv, TreeQuiet, FailedHasCause, ScriptsGood, failed
<1>7. Covered'
  <2>1. \A c \in usable : level'[c] = level[c]
    BY <1>4, <1>5, Zenon
  <2> QED  BY <1>2, <1>5, <2>1, Zenon DEF QInv, TreeQuiet, Covered, Proven
<1>8. pc'[t] = "idle" /\ \A u \in Threads \ {t} : pc'[u] = pc[u]
  BY <1>2, Zenon DEF QInv, IInv, LocalOK, LocalTypes
<1>9. Best(seq', usable', tip') \/ \E u \in Threads : Busy(u)'
  BY <1>1, <1>2, <1>5, <1>8, Zenon DEF QInv, ThreadsQuiet, Busy
<1> QED  BY <1>1, <1>6, <1>7, <1>8, <1>9, TreeStep, Zenon DEF TreeQuiet

(* Storing a block: what it links is a candidate, or worse than the tip;    *)
(* the sequence numbers of linked blocks do not change.                     *)
LEMMA AcceptStoresQuiet ==
  ASSUME QInv, IInv', NEW t \in Threads, AcceptStores(t)
  PROVE  QInv'
<1> DEFINE b == blk[t]
           new == linked' \ linked
<1>1. b \in Blocks /\ b \notin haveData /\ csMain = NoThread
  BY Zenon DEF AcceptStores, AcceptUnder, QInv, IInv, LocalOK, ThreadsOK
<1>2. /\ UNCHANGED <<failedValid, failedChild, tip>> /\ level' = Raise(b, VALID_TRANSACTIONS)
      /\ linked \subseteq linked' /\ candidates \subseteq candidates'
      /\ \A d \in new : ~Less(seq', d, tip') => d \in candidates'
  BY Zenon DEF AcceptStores, ReceivedBlockTransactions, Worse, Less
<1>3. \A d \in linked : d \in Blocks /\ seq'[d] = seq[d]
  <2>1. linked \subseteq Blocks /\ linked \subseteq haveData /\ unlinked = haveData \ linked
    BY Zenon DEF QInv, IInv, SharedOK, SharedTypes, IndexConsistent
  <2>2. \A d \in linked : d \notin NewlyLinked(b)
    BY <1>1, <2>1, Zenon DEF NewlyLinked
  <2> HIDE DEF b
  <2>3. \/ seq' = seq
        \/ \E s : seq' = [d \in Blocks |-> IF d \in NewlyLinked(b) THEN s[d] ELSE seq[d]]
    BY Zenon DEF AcceptStores, ReceivedBlockTransactions, b
  <2> QED  BY <2>1, <2>2, <2>3, Zenon
<1> HIDE DEF b, new
<1>4. b \notin linked /\ level[b] \in {0, VALID_TREE} /\ tip \in linked
      /\ level \in [Blocks -> {0, VALID_TREE, VALID_TRANSACTIONS, VALID_SCRIPTS}]
  BY <1>1, UnstoredLevel, TipProven, ZenonT(60) DEF QInv, IInv, SharedOK, SharedTypes, Proven
<1>5. level'[b] # VALID_SCRIPTS /\ \A x \in Blocks \ {b} : level'[x] = level[x]
  BY <1>1, <1>2, <1>4 DEF Raise, VALID_TREE, VALID_TRANSACTIONS, VALID_SCRIPTS
<1>6. FailedHasCause' /\ ScriptsGood'
  BY <1>2, <1>5, Zenon DEF QInv, TreeQuiet, FailedHasCause, ScriptsGood, failed
<1>7. usable \subseteq usable' /\ usable' \cap linked \subseteq usable
  <2>1. \A x \in linked : Anc[x] \subseteq linked
    <3>1. linked = {x \in index : Anc[x] \subseteq haveData} /\ haveData \subseteq index
          /\ index \subseteq Blocks
      BY Zenon DEF QInv, IInv, SharedOK, SharedTypes, IndexConsistent
    <3>2. ASSUME NEW x \in linked, NEW a \in Anc[x]  PROVE a \in index /\ Anc[a] \subseteq haveData
      BY <3>1, TreeAssumption, Zenon
    <3> QED  BY <3>1, <3>2, Zenon
  <2> QED  BY <1>2, <2>1, Zenon DEF usable
<1>8. tip' \in usable' /\ (tip' = Genesis \/ level'[tip'] = VALID_SCRIPTS)
  BY TipProvenAfter DEF IInv
<1>9. usable' \subseteq linked' /\ usable \subseteq linked
  BY Ancestors, Zenon DEF usable
<1>10. Covered'
  <2> SUFFICES ASSUME NEW d \in usable', d \notin candidates'
               PROVE  \E c \in candidates' \cup {tip'} : Proven(c)' /\ Less(seq', d, c)
    BY Zenon DEF Covered
  <2>1. CASE d \notin linked
    BY <1>2, <1>8, <1>9, <2>1, Zenon DEF Proven, new
  <2>2. CASE d \in linked
    <3>1. d \in usable /\ d \notin candidates
      BY <1>2, <1>7, <2>2, Zenon
    <3>2. PICK c \in candidates \cup {tip} : Proven(c) /\ Less(seq, d, c)
      BY <3>1, Zenon DEF QInv, TreeQuiet, Covered
    <3>3. c \in linked /\ c \in Blocks /\ c # b /\ c \in usable'
      BY <1>3, <1>4, <1>7, <1>9, <3>2, Zenon DEF Proven
    <3>4. Less(seq', d, c)
      BY <1>3, <2>2, <3>2, <3>3, ZenonT(60) DEF Less
    <3> QED  BY <1>2, <1>5, <3>2, <3>3, <3>4, Zenon DEF Proven
  <2> QED  BY <2>1, <2>2, Zenon
<1>11. pc'[t] = "activate" /\ \A u \in Threads \ {t} : pc'[u] = pc[u]
  BY Zenon DEF AcceptStores, Leave, QInv, IInv, LocalOK, LocalTypes
<1>12. Busy(t)'
  BY <1>11, Zenon DEF Busy
<1> QED  BY <1>1, <1>6, <1>10, <1>11, <1>12, TreeStep, Zenon DEF TreeQuiet

(* Only the genesis block: it is the tip, and a candidate.                  *)
LEMMA InitQuiet == Init => QInv
<1> SUFFICES ASSUME Init PROVE QInv  OBVIOUS
<1>1. IInv  BY InitOK, Zenon
<1>2. usable \subseteq {Genesis}
  BY Ancestors, ZenonT(60) DEF Init, usable
<1>3. TreeQuiet
  BY <1>2 DEF Init, TreeQuiet, FailedHasCause, ScriptsGood, Covered, failed,
              VALID_TRANSACTIONS, VALID_SCRIPTS
<1>4. ~Less(seq, Genesis, Genesis)
  BY LessOrder, TreeAssumption, <1>1, ZenonT(60) DEF IInv, SharedOK, SharedTypes
<1>5. ThreadsQuiet
  BY <1>2, <1>4 DEF Init, ThreadsQuiet, Best
<1> QED  BY <1>1, <1>3, <1>5 DEF QInv

LEMMA NextQuiet ==
  ASSUME Counted, Calm, QInv, [Next]_vars  PROVE QInv'
<1>1. IInv'  BY NextOK DEF QInv
<1>2. CASE UNCHANGED vars
  <2>1. CASE Threads = {}
    <3>1. UNCHANGED <<status, chain>>
      BY <1>2, Zenon DEF vars
    <3> QED  BY <1>1, <2>1, <3>1, Zenon DEF QInv, TreeQuiet, FailedHasCause, ScriptsGood, Covered, Proven,
                ThreadsQuiet, status, chain, failed, usable
  <2>2. ASSUME NEW t \in Threads  PROVE QInv'
    BY <1>1, <1>2, OwnStep, Zenon DEF vars, locals, chain, Busy, QInv, ThreadsQuiet
  <2> QED  BY <2>1, <2>2, Zenon
<1>3. ASSUME NEW b \in Blocks, ChangeVerdict(b)  PROVE QInv'
  BY <1>3, Zenon DEF ChangeVerdict, Calm
<1>4. ASSUME NEW t \in Threads, Start(t)  PROVE QInv'
  BY <1>1, <1>4, OwnSteps, InvalidateBlockQuiet, Zenon DEF Start, ReconsiderRequest, Calm
<1>5. ASSUME NEW t \in Threads, AcceptBlock(t)  PROVE QInv'
  BY <1>1, <1>5, OwnSteps, AcceptHeaderOnlyQuiet, AcceptStoresQuiet, Zenon
     DEF AcceptBlock, AcceptReconsidersParent, Calm
<1>6. ASSUME NEW t \in Threads, ActivateBestChain(t)  PROVE QInv'
  BY <1>1, <1>6, OwnSteps, FindUnusableQuiet, DisconnectTipQuiet, ConnectTipQuiet,
     ConnectTipInvalidQuiet, Zenon DEF ActivateBestChain, ActivateBestChainStep
<1>7. ASSUME NEW t \in Threads  PROVE ~Reprocess(t)
  BY Zenon DEF Reprocess, ReprocessOne, DisconnectBlocks, QInv, ThreadsQuiet
<1> QED  BY <1>2, <1>3, <1>4, <1>5, <1>6, <1>7 DEF Next

-----------------------------------------------------------------------------
INSTANCE FiniteSetTheorems

(* There are finitely many blocks.                                         *)
LEMMA AllCounted == Counted
BY ParameterAssumption, FS_Subset, FS_CardinalityType DEF Counted

(* The inductive invariant holds in every reachable state.                 *)
THEOREM Invariance == Spec => []IInv
<1>1. IInv /\ [Next]_vars => IInv'
  BY AllCounted, NextOK, Zenon
<1> QED  BY <1>1, InitOK, PTL DEF Spec

(* The state of the block tree and of every thread stays in its types.     *)
THEOREM TypeCorrect == Spec => []TypeOK
BY Invariance, Implied, PTL

(* FindMostWorkChain may stop at the first active ancestor: whatever is     *)
(* received, invalidated, reconsidered or disconnected, every block of      *)
(* chainActive has its data and none is marked failed.                      *)
THEOREM ActiveChainAlwaysUsable == Spec => []ActiveChainUsable
BY Invariance, Implied, PTL

(* The assertions of FindMostWorkChain and PruneBlockIndexCandidates never  *)
(* fail: candidates are linked, and the target of a reorganisation stays a  *)
(* candidate until the thread releases cs_main.                             *)
THEOREM TargetAlwaysCandidate == Spec => []TargetStaysCandidate
BY Invariance, Implied, PTL

(* CheckBlockIndex on nChainTx, mapBlocksUnlinked and the validity levels   *)
(* never fails, in whatever order headers and blocks arrive.                *)
THEOREM IndexAlwaysConsistent == Spec => []IndexConsistent
BY Invariance, Implied, PTL

(* Once every call has returned, no known usable block is better than the   *)
(* tip: whatever blocks and headers arrive, in whatever order, by whichever *)
(* threads, and whatever the operator invalidates meanwhile.                *)
THEOREM BestChainOnceQuiet == ASSUME Calm PROVE Spec => []BestChainWhenQuiet
<1>1. QInv => BestChainWhenQuiet
  <2> SUFFICES ASSUME QInv, \A t \in Threads : pc[t] = "idle",
                      NEW b \in index, Usable(b)
               PROVE  ~Worse(tip, b)
    BY Zenon DEF BestChainWhenQuiet
  <2>1. Best(seq, usable, tip)
    BY ZenonT(60) DEF QInv, ThreadsQuiet, Busy
  <2>2. b \in usable
    BY DEF Usable, usable, QInv, IInv, SharedOK, SharedTypes
  <2> QED  BY <2>1, <2>2, ZenonT(60) DEF Best, Less, Worse
<1>2. QInv /\ [Next]_vars => QInv'
  BY AllCounted, NextQuiet, ZenonT(60)
<1> QED  BY <1>1, <1>2, InitQuiet, PTL DEF Spec

(* CheckBlockIndex: a block is marked failed only with a cause below it.    *)
THEOREM FailedAlwaysHasCause == ASSUME Calm PROVE Spec => []FailedHasCause
<1>1. QInv => FailedHasCause
  BY DEF QInv, TreeQuiet
<1>2. QInv /\ [Next]_vars => QInv'
  BY AllCounted, NextQuiet
<1> QED  BY <1>1, <1>2, InitQuiet, PTL DEF Spec
=============================================================================
