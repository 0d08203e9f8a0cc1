------------------------ MODULE ConnectBlock_proofs ------------------------
(***************************************************************************)
(* Proofs about the two halves of ConnectBlock that run side by side: the  *)
(* script checks of CheckQueue, for every set of workers and of checks,    *)
(* and the coins of BlockUndo, for every set of transactions and blocks.   *)
(*                                                                         *)
(* CheckQueue.  None of the three safety properties is inductive.  IInv    *)
(* adds to them what the counters count (nTodo the checks not accounted    *)
(* for, nTotal - nIdle the threads running a batch) and what fAllOk says   *)
(* in the middle of a session.  Every critical section of Loop first       *)
(* brings the thread into an intermediate state, Mid, in which it is       *)
(* counted in nTotal but neither waits nor holds a batch; the three ways   *)
(* on from there are proved once.                                          *)
(*                                                                         *)
(* BlockUndo.  UndoInv relates the coins to the blocks of the chain and    *)
(* says that no transaction is mined twice, no output is spent twice and   *)
(* every undo entry with a height holds what its transaction was mined     *)
(* with.  One input, one transaction and one block are each shown to lead  *)
(* from the coins of a chain to those of the longer, or the shorter, one.  *)
(***************************************************************************)
EXTENDS CheckQueue, BlockUndo, TLAPS

-----------------------------------------------------------------------------
(* CheckQueue *)

Outstanding(q, B) == q \cup UNION {B[t] : t \in Threads}
Exec(P) == {t \in Threads : P[t] = "exec"}
Asleep(P) == {t \in Threads : P[t] \in {"wait", "ready", "gone"}}

\* The checks in the queue and in the batches are distinct checks of the
\* session, and todo counts them.
Ledger(q, B, todo, A) ==
    /\ Outstanding(q, B) \subseteq A
    /\ \A t \in Threads : B[t] \cap q = {}
    /\ \A t, u \in Threads : t # u => B[t] \cap B[u] = {}
    /\ todo = Cardinality(Outstanding(q, B))

\* fAllOk in the middle of a session: false only if the session has a bad
\* check, true only if no check that is accounted for is bad.
Sound(q, B, allOk, A) ==
    /\ ~allOk => A \cap Bad # {}
    /\ allOk => (A \ Outstanding(q, B)) \cap Bad = {}

\* A thread that skips its batch does so because a check has failed.
Skips(P, F, allOk) == \A t \in Threads : P[t] = "exec" /\ ~F[t] => ~allOk

Holders(P, B) == \A t \in Threads : P[t] = "exec" <=> B[t] # {}

Closed == /\ ~open => pc[Master] = "out" /\ fAllOk /\ Outstanding(queue, batch) = {}
          /\ open => result = "none"
          /\ pc[Master] # "out" => open
          /\ pc[Master] # "gone"

IInv == /\ TypeOK
        /\ Ledger(queue, batch, nTodo, added)
        /\ open => Sound(queue, batch, fAllOk, added)
        /\ Skips(pc, fOk, fAllOk)
        /\ Holders(pc, batch)
        /\ nTotal = nIdle + Cardinality(Exec(pc))
        /\ nIdle >= Cardinality(Asleep(pc))
        /\ Closed
        /\ AnswerIsVerdict

\* The state of a critical section of Loop between clean-up and what follows.
Mid(t, total, idle, allOk, todo, P, B) ==
    /\ TypeOK
    /\ total \in Nat /\ idle \in Nat /\ todo \in Nat /\ allOk \in BOOLEAN
    /\ P \in [Threads -> PC] /\ B \in [Threads -> SUBSET Checks]
    /\ Ledger(queue, B, todo, added)
    /\ open => Sound(queue, B, allOk, added)
    /\ \A u \in Threads \ {t} : P[u] = "exec" /\ ~fOk[u] => ~allOk
    /\ \A u \in Threads \ {t} : P[u] = "exec" <=> B[u] # {}
    /\ B[t] = {}
    /\ total = idle + 1 + Cardinality(Exec(P) \ {t})
    /\ idle >= Cardinality(Asleep(P) \ {t})
    /\ t # Master => (open = FALSE => P[Master] = "out" /\ allOk /\ Outstanding(queue, B) = {})
    /\ t # Master => (P[Master] # "out" => open)
    /\ t = Master => open
    /\ open => result = "none"
    /\ t # Master => P[Master] # "gone"
    /\ AnswerIsVerdict

-----------------------------------------------------------------------------

(* What the counters need of the sizes of sets of threads and of checks  *)
(* (AllSizes).                                                           *)
Sizes ==
    /\ \A S \in SUBSET Threads :
          /\ Cardinality(S) \in Nat /\ (Cardinality(S) = 0 <=> S = {})
          /\ \A R \in SUBSET S : Cardinality(R) <= Cardinality(S)
          /\ \A t \in Threads \ S : Cardinality(S \cup {t}) = Cardinality(S) + 1
    /\ \A S \in SUBSET Checks :
          /\ Cardinality(S) \in Nat /\ (Cardinality(S) = 0 <=> S = {})
          /\ \A R \in SUBSET Checks :
                S \cap R = {} => Cardinality(S \cup R) = Cardinality(S) + Cardinality(R)

LEMMA QuotientType ==
    ASSUME NEW m \in Nat, NEW n \in Nat \ {0} PROVE m \div n \in Int
  OBVIOUS

LEMMA CheckSets ==
    ASSUME Sizes, NEW S \in SUBSET Checks
    PROVE  Cardinality(S) \in Nat /\ (Cardinality(S) = 0 <=> S = {})
BY Zenon DEF Sizes

LEMMA ThreadSets ==
    ASSUME Sizes, NEW S \in SUBSET Threads
    PROVE  Cardinality(S) \in Nat /\ (Cardinality(S) = 0 <=> S = {})
BY Zenon DEF Sizes

LEMMA ExecSize ==
    ASSUME Sizes, NEW P
    PROVE  Cardinality(Exec(P)) \in Nat
<1>1. Exec(P) \in SUBSET Threads
  BY Zenon DEF Exec
<1> QED BY <1>1, ThreadSets, Zenon

(* One thread more, or less, in a section.                               *)
LEMMA OneMore ==
    ASSUME Sizes, NEW S \in SUBSET Threads, NEW t \in Threads
    PROVE  Cardinality((S \ {t}) \cup {t}) = Cardinality(S \ {t}) + 1
<1>1. S \ {t} \in SUBSET Threads /\ t \in Threads \ (S \ {t})
  BY Zenon
<1> QED BY <1>1, Zenon DEF Sizes
LEMMA OneLess ==
    ASSUME Sizes, NEW S \in SUBSET Threads, NEW t \in S
    PROVE  Cardinality(S \ {t}) = Cardinality(S) - 1
<1>1. (S \ {t}) \cup {t} = S
  BY Zenon
<1>2. Cardinality(S) = Cardinality(S \ {t}) + 1 /\ Cardinality(S \ {t}) \in Nat
  BY <1>1, OneMore, ThreadSets, Zenon
<1> QED BY <1>2

(* Removing a subset subtracts its size: the arithmetic of nTodo -=      *)
(* nNow.                                                                 *)
LEMMA CardinalityDrop ==
    ASSUME Sizes, NEW O \in SUBSET Checks, NEW T \in SUBSET O
    PROVE  Cardinality(O \ T) = Cardinality(O) - Cardinality(T)
<1>1. /\ O \ T \in SUBSET Checks /\ T \in SUBSET Checks /\ (O \ T) \cap T = {}
      /\ (O \ T) \cup T = O
  BY Zenon
<1>2. Cardinality(O) = Cardinality(O \ T) + Cardinality(T)
  <2>1. \A S \in SUBSET Checks : \A R \in SUBSET Checks :
           S \cap R = {} => Cardinality(S \cup R) = Cardinality(S) + Cardinality(R)
    BY Zenon DEF Sizes
  <2>2. Cardinality((O \ T) \cup T) = Cardinality(O \ T) + Cardinality(T)
    BY <1>1, <2>1, Zenon
  <2> QED BY <1>1, <2>2, Zenon
<1>3. Cardinality(O \ T) \in Nat /\ Cardinality(T) \in Nat
  BY <1>1, CheckSets, Zenon
<1> QED BY <1>2, <1>3

\* Moving checks between the queue and a batch moves nothing in or out.
LEMMA OutstandingTake ==
    ASSUME NEW B \in [Threads -> SUBSET Checks], NEW q, NEW t \in Threads,
           NEW S \in SUBSET q, B[t] = {}, S \subseteq Checks
    PROVE  Outstanding(q \ S, [B EXCEPT ![t] = S]) = Outstanding(q, B)
<1> DEFINE B2 == [B EXCEPT ![t] = S]
<1>1. \A u \in Threads : B2[u] = IF u = t THEN S ELSE B[u]
  BY Zenon
<1>2. \A x : x \in Outstanding(q \ S, B2) <=> x \in q \ S \/ \E u \in Threads : x \in B2[u]
  BY Zenon DEF Outstanding
<1>3. \A x : x \in Outstanding(q, B) <=> x \in q \/ \E u \in Threads : x \in B[u]
  BY Zenon DEF Outstanding
<1> HIDE DEF B2
<1>4. \A x : x \in Outstanding(q \ S, B2) <=> x \in Outstanding(q, B)
  BY <1>1, <1>2, <1>3, Zenon
<1> QED BY <1>4, Zenon DEF B2

\* Dropping a batch takes exactly its checks out.
LEMMA OutstandingDrop ==
    ASSUME NEW B \in [Threads -> SUBSET Checks], NEW q, NEW t \in Threads,
           B[t] \cap q = {}, \A u \in Threads : t # u => B[t] \cap B[u] = {}
    PROVE  Outstanding(q, [B EXCEPT ![t] = {}]) = Outstanding(q, B) \ B[t]
<1> DEFINE B2 == [B EXCEPT ![t] = {}]
<1>1. \A u \in Threads : B2[u] = IF u = t THEN {} ELSE B[u]
  BY Zenon
<1>2. \A x : x \in Outstanding(q, B2) <=> x \in q \/ \E u \in Threads : x \in B2[u]
  BY Zenon DEF Outstanding
<1>3. \A x : x \in Outstanding(q, B) <=> x \in q \/ \E u \in Threads : x \in B[u]
  BY Zenon DEF Outstanding
<1> HIDE DEF B2
<1>4. \A x : x \in Outstanding(q, B2) <=> x \in Outstanding(q, B) \ B[t]
  BY <1>1, <1>2, <1>3, Zenon
<1> QED BY <1>4, Zenon DEF B2

-----------------------------------------------------------------------------

\* From Mid, taking a batch restores the invariant.
LEMMA TakeBatchStep ==
    ASSUME Sizes, NEW t \in Threads, NEW total, NEW idle, NEW allOk, NEW todo, NEW P, NEW B,
           Mid(t, total, idle, allOk, todo, P, B),
           TakeBatch(t, total, idle, allOk, P, B),
           nTodo' = todo, UNCHANGED <<added, shutdown, interrupts>>
    PROVE  IInv'
<1>1. PICK S \in SUBSET queue : /\ Cardinality(S) = BatchSize(total, idle)
                               /\ queue' = queue \ S
                               /\ batch' = [B EXCEPT ![t] = S]
  BY Zenon DEF TakeBatch
<1> USE DEF Mid
<1>2. S \subseteq Checks /\ S # {}
  <2>1. S \subseteq Checks
    BY Zenon DEF TypeOK
  <2>2. BatchSize(total, idle) >= 1
    <3>1. Cardinality(queue) \in Nat
      BY CheckSets, Zenon DEF TypeOK
    <3>2. Cardinality(queue) \div (total + idle + 1) \in Int
      <4>1. total + idle + 1 \in Nat \ {0}
        OBVIOUS
      <4> QED
        BY <3>1, <4>1, QuotientType, Zenon
    <3> QED BY <3>2, BatchAssumption DEF BatchSize, Max2, Min2
  <2>3. Cardinality(S) # 0
    BY <1>1, <2>2, <2>1, CheckSets
  <2> QED BY <2>1, <2>3, CheckSets, Zenon
<1>3. Outstanding(queue', batch') = Outstanding(queue, B)
  BY <1>1, <1>2, OutstandingTake, Zenon
<1>4. pc' = [P EXCEPT ![t] = "exec"] /\ fOk' = [fOk EXCEPT ![t] = allOk]
      /\ nTotal' = total /\ nIdle' = idle /\ fAllOk' = allOk
      /\ UNCHANGED <<open, result, unwinding>>
  BY Zenon DEF TakeBatch
<1>5. TypeOK'
  BY <1>1, <1>2, <1>4, Zenon DEF TypeOK, PC
<1>6. Ledger(queue', batch', nTodo', added')
  BY <1>1, <1>2, <1>3, Zenon DEF Ledger
<1>7. open' => Sound(queue', batch', fAllOk', added')
  BY <1>3, <1>4, Zenon DEF Sound
<1>8. Skips(pc', fOk', fAllOk')
  BY <1>4, Zenon DEF Skips, TypeOK
<1>9. Holders(pc', batch')
  BY <1>1, <1>2, <1>4, Zenon DEF Holders
<1>10. nTotal' = nIdle' + Cardinality(Exec(pc'))
  <2>1. Exec(pc') = (Exec(P) \ {t}) \cup {t}
    BY <1>4, Zenon DEF Exec
  <2>2. Cardinality(Exec(P) \ {t}) \in Nat
    BY ThreadSets, Zenon DEF Exec
  <2>3. Cardinality(Exec(pc')) = Cardinality(Exec(P) \ {t}) + 1
    <3>1. Exec(P) \in SUBSET Threads
      BY Zenon DEF Exec
    <3> QED BY <2>1, <3>1, OneMore, Zenon
  <2> QED BY <2>2, <2>3, <1>4
<1>11. nIdle' >= Cardinality(Asleep(pc'))
  <2>1. Asleep(pc') = Asleep(P) \ {t}
    BY <1>4, Zenon DEF Asleep
  <2> QED BY <2>1, <1>4, Zenon
<1>12. Closed'
  <2>1. queue # {} /\ open
    <3>1. CASE t = Master BY <3>1, Zenon DEF TakeBatch
    <3>2. CASE t # Master BY <3>2, Zenon DEF TakeBatch, Outstanding, TypeOK
    <3> QED BY <3>1, <3>2, Zenon
  <2> QED BY <2>1, <1>4, <1>3, Zenon DEF Closed, Threads
<1>13. AnswerIsVerdict'
  BY <1>4, Zenon DEF AnswerIsVerdict, Abs!Verdict
<1> QED BY <1>5, <1>6, <1>7, <1>8, <1>9, <1>10, <1>11, <1>12, <1>13, Zenon DEF IInv

\* From Mid, going to wait restores the invariant.
LEMMA WaitStep ==
    ASSUME Sizes, NEW t \in Threads, NEW total, NEW idle, NEW allOk, NEW todo, NEW P, NEW B,
           Mid(t, total, idle, allOk, todo, P, B),
           WaitForWork(t, total, idle, allOk, todo, P, B),
           nTodo' = todo, UNCHANGED <<added, shutdown, interrupts>>
    PROVE  IInv'
<1> USE DEF Mid
<1>4. pc' = [P EXCEPT ![t] = "wait"] /\ fOk' = fOk /\ batch' = B /\ queue' = queue
      /\ nTotal' = total /\ nIdle' = idle + 1 /\ fAllOk' = allOk
      /\ UNCHANGED <<open, result, unwinding>>
  BY Zenon DEF WaitForWork
<1>5. TypeOK'
  BY <1>4 DEF TypeOK, PC
<1>6. Ledger(queue', batch', nTodo', added')
  BY <1>4, Zenon DEF Ledger
<1>7. open' => Sound(queue', batch', fAllOk', added')
  BY <1>4, Zenon DEF Sound
<1>8. Skips(pc', fOk', fAllOk')
  BY <1>4, Zenon DEF Skips
<1>9. Holders(pc', batch')
  BY <1>4, Zenon DEF Holders
<1>10. nTotal' = nIdle' + Cardinality(Exec(pc'))
  <2>1. Exec(pc') = Exec(P) \ {t}
    BY <1>4, Zenon DEF Exec
  <2> QED BY <2>1, <1>4, ThreadSets, Zenon DEF Exec
<1>11. nIdle' >= Cardinality(Asleep(pc'))
  <2>1. Asleep(pc') = (Asleep(P) \ {t}) \cup {t}
    BY <1>4, Zenon DEF Asleep
  <2>2. Cardinality(Asleep(P) \ {t}) \in Nat
    BY ThreadSets, Zenon DEF Asleep
  <2>3. Cardinality(Asleep(pc')) = Cardinality(Asleep(P) \ {t}) + 1
    <3>1. Asleep(P) \in SUBSET Threads
      BY Zenon DEF Asleep
    <3> QED BY <2>1, <3>1, OneMore, Zenon
  <2> QED BY <2>2, <2>3, <1>4
<1>12. Closed'
  BY <1>4 DEF Closed, Threads
<1>13. AnswerIsVerdict'
  BY <1>4, Zenon DEF AnswerIsVerdict, Abs!Verdict
<1> QED BY <1>5, <1>6, <1>7, <1>8, <1>9, <1>10, <1>11, <1>12, <1>13, Zenon DEF IInv

\* From Mid, the master's return restores the invariant.
LEMMA ReturnStep ==
    ASSUME Sizes, NEW t \in Threads, NEW total, NEW idle, NEW allOk, NEW todo, NEW P, NEW B,
           Mid(t, total, idle, allOk, todo, P, B),
           MasterReturn(t, total, idle, allOk, todo, P, B),
           nTodo' = todo, UNCHANGED <<added, shutdown, interrupts>>
    PROVE  IInv'
<1> USE DEF Mid
<1>1. Outstanding(queue, B) = {}
  <2>1. Outstanding(queue, B) \in SUBSET Checks
    BY Zenon DEF Ledger, TypeOK
  <2> QED BY <2>1, CheckSets, Zenon DEF Ledger, MasterReturn
<1>2. \A u \in Threads : B[u] = {}
  BY <1>1 DEF Outstanding
<1>4. pc' = [P EXCEPT ![t] = "out"] /\ fOk' = fOk /\ batch' = B /\ queue' = queue
      /\ nTotal' = total - 1 /\ nIdle' = idle /\ fAllOk' = TRUE
      /\ open' = FALSE /\ unwinding' = FALSE /\ t = Master
  BY Zenon DEF MasterReturn
<1>5. TypeOK'
  <2>1. total - 1 \in Nat
    BY ThreadSets DEF Exec
  <2>2. result' \in {"none", "ok", "fail"}
    BY Zenon DEF MasterReturn
  <2> QED BY <1>4, <2>1, <2>2, Zenon DEF TypeOK, PC
<1>6. Ledger(queue', batch', nTodo', added')
  BY <1>4, Zenon DEF Ledger
<1>7. open' => Sound(queue', batch', fAllOk', added')
  BY <1>4, Zenon DEF Sound
<1>8. Skips(pc', fOk', fAllOk')
  BY <1>4, <1>2, Zenon DEF Skips
<1>9. Holders(pc', batch')
  BY <1>4, Zenon DEF Holders
<1>10. nTotal' = nIdle' + Cardinality(Exec(pc'))
  <2>1. Exec(pc') = Exec(P) \ {t}
    BY <1>4, Zenon DEF Exec
  <2>2. Cardinality(Exec(P) \ {t}) \in Nat
    BY ThreadSets, Zenon DEF Exec
  <2> QED BY <2>1, <2>2, <1>4
<1>11. nIdle' >= Cardinality(Asleep(pc'))
  <2>1. Asleep(pc') = Asleep(P) \ {t}
    BY <1>4, Zenon DEF Asleep
  <2> QED BY <2>1, <1>4, Zenon
<1>12. Closed'
  BY <1>4, <1>1, Zenon DEF Closed, Threads
<1>13. AnswerIsVerdict'
  BY <1>1, Zenon DEF MasterReturn, Sound, AnswerIsVerdict, Abs!Verdict
<1> QED BY <1>5, <1>6, <1>7, <1>8, <1>9, <1>10, <1>11, <1>12, <1>13 DEF IInv

\* Every way on from Mid restores the invariant.
LEMMA LoopStep ==
    ASSUME Sizes, NEW t \in Threads, NEW total, NEW idle, NEW allOk, NEW todo, NEW P, NEW B,
           Mid(t, total, idle, allOk, todo, P, B),
           Loop(t, total, idle, allOk, todo, P, B),
           nTodo' = todo, UNCHANGED <<added, shutdown, interrupts>>
    PROVE  IInv'
BY TakeBatchStep, WaitStep, ReturnStep, Zenon DEF Loop

-----------------------------------------------------------------------------

\* A thread that enters Loop, or comes back from cond.wait, is in Mid.
LEMMA EnterMid ==
    ASSUME Sizes, IInv, NEW t \in Threads, Enter(t)
    PROVE  Mid(t, nTotal + 1, nIdle, fAllOk, nTodo, pc, batch)
<1>1. pc[t] \in {"call", "out"} /\ (t = Master => pc[t] = "call")
  BY Zenon DEF Enter
<1>2. Exec(pc) \ {t} = Exec(pc) /\ Asleep(pc) \ {t} = Asleep(pc)
  BY <1>1, Zenon DEF Exec, Asleep
<1>3. nTotal + 1 = nIdle + 1 + Cardinality(Exec(pc) \ {t})
  <2>1. Cardinality(Exec(pc)) \in Nat
    BY ExecSize, Zenon
  <2>2. nTotal \in Nat /\ nIdle \in Nat /\ nTotal = nIdle + Cardinality(Exec(pc))
    BY Zenon DEF IInv, TypeOK
  <2>3. Cardinality(Exec(pc) \ {t}) = Cardinality(Exec(pc))
    BY <1>2, Zenon
  <2> QED BY <2>1, <2>2, <2>3
<1>4. batch[t] = {}
  BY <1>1, Zenon DEF IInv, Holders
<1>5. /\ nTotal + 1 \in Nat /\ nIdle >= Cardinality(Asleep(pc) \ {t})
      /\ t = Master => open
  BY <1>1, <1>2 DEF IInv, TypeOK, Closed
<1> QED BY <1>3, <1>4, <1>5, Zenon DEF IInv, Mid, TypeOK, Skips, Holders, Closed

(* So does a thread that wakes up, ...                                   *)
LEMMA ResumeMid ==
    ASSUME Sizes, IInv, NEW t \in Threads, Resume(t)
    PROVE  Mid(t, nTotal, nIdle - 1, fAllOk, nTodo, pc, batch)
<1>1. pc[t] = "ready"
  BY Zenon DEF Resume
<1>2. Exec(pc) \ {t} = Exec(pc) /\ t \in Asleep(pc)
  BY <1>1, Zenon DEF Exec, Asleep
<1>3. /\ Cardinality(Asleep(pc) \ {t}) = Cardinality(Asleep(pc)) - 1
      /\ Cardinality(Asleep(pc)) \in Nat /\ Cardinality(Asleep(pc) \ {t}) \in Nat
  <2>1. Cardinality(Asleep(pc)) \in Nat
        /\ Cardinality(Asleep(pc) \ {t}) \in Nat
    BY ThreadSets, Zenon DEF Asleep
  <2>2. Asleep(pc) \in SUBSET Threads
    BY Zenon DEF Asleep
  <2>3. Cardinality(Asleep(pc) \ {t}) = Cardinality(Asleep(pc)) - 1
    BY <1>2, <2>2, OneLess, Zenon
  <2> QED BY <2>1, <2>3, Zenon
<1>4. nIdle - 1 \in Nat /\ nIdle - 1 >= Cardinality(Asleep(pc) \ {t})
  BY <1>3 DEF IInv, TypeOK
<1>5. Cardinality(Exec(pc)) \in Nat
  BY ExecSize, Zenon
<1>6. nTotal = (nIdle - 1) + 1 + Cardinality(Exec(pc) \ {t})
  <2>1. nTotal \in Nat /\ nIdle \in Nat /\ nTotal = nIdle + Cardinality(Exec(pc))
    BY Zenon DEF IInv, TypeOK
  <2>2. Cardinality(Exec(pc) \ {t}) = Cardinality(Exec(pc))
    BY <1>2, Zenon
  <2> QED BY <1>5, <2>1, <2>2
<1>7. batch[t] = {}
  BY <1>1, Zenon DEF IInv, Holders
<1>8. t = Master => open
  BY <1>1, Zenon DEF IInv, Closed
<1> QED BY <1>4, <1>6, <1>7, <1>8, Zenon DEF IInv, Mid, TypeOK, Skips, Holders, Closed

\* A thread that has run its batch is in Mid after the clean-up: its checks are
\* no longer outstanding, and fAllOk has absorbed their verdict.
LEMMA FinishMid ==
    ASSUME Sizes, IInv, NEW t \in Threads, Finish(t)
    PROVE  LET todo == nTodo - Cardinality(batch[t])
           IN  Mid(t, nTotal, nIdle, fAllOk /\ AllPass(t), todo,
                   NotifyMaster(t, todo), [batch EXCEPT ![t] = {}])
<1> DEFINE todo == nTodo - Cardinality(batch[t])
           B == [batch EXCEPT ![t] = {}]
           P == NotifyMaster(t, todo)
           allOk == fAllOk /\ AllPass(t)
<1>1. pc[t] = "exec" /\ batch[t] # {} /\ open
  <2>1. pc[t] = "exec"
    BY Zenon DEF Finish
  <2>2. batch[t] # {}
    BY <2>1, Zenon DEF IInv, Holders
  <2> QED BY <2>1, <2>2 DEF IInv, Closed, Outstanding, TypeOK
<1>2. Outstanding(queue, B) = Outstanding(queue, batch) \ batch[t]
  BY OutstandingDrop, Zenon DEF IInv, TypeOK, Ledger
<1>3. todo \in Nat /\ todo = Cardinality(Outstanding(queue, B))
  <2>1. batch[t] \subseteq Outstanding(queue, batch)
    BY Zenon DEF Outstanding
  <2>2. Outstanding(queue, batch) \subseteq Checks /\ batch[t] \subseteq Checks
    BY Zenon DEF IInv, Ledger, TypeOK
  <2>3. nTodo = Cardinality(Outstanding(queue, batch)) /\ nTodo \in Nat
    BY Zenon DEF IInv, Ledger, TypeOK
  <2>4. Cardinality(Outstanding(queue, B)) = nTodo - Cardinality(batch[t])
    BY <1>2, <2>1, <2>2, <2>3, CardinalityDrop, Zenon
  <2>5. Cardinality(Outstanding(queue, B)) \in Nat
    BY <1>2, <2>2, CheckSets, Zenon
  <2> QED BY <2>4, <2>5, Zenon
<1>4. B \in [Threads -> SUBSET Checks] /\ \A u \in Threads : B[u] = IF u = t THEN {} ELSE batch[u]
  BY Zenon DEF IInv, TypeOK
<1>5. /\ P \in [Threads -> PC]
      /\ \A u \in Threads : P[u] = "exec" <=> pc[u] = "exec"
      /\ \A u \in Threads : P[u] \in {"wait", "ready", "gone"} <=> pc[u] \in {"wait", "ready", "gone"}
      /\ P[Master] = "out" <=> pc[Master] = "out"
      /\ P[Master] = "gone" <=> pc[Master] = "gone"
  BY Zenon DEF NotifyMaster, IInv, TypeOK, PC, Threads
<1>6. allOk \in BOOLEAN /\ (allOk => fAllOk /\ fOk[t] /\ batch[t] \cap Bad = {})
      /\ (~allOk => ~fAllOk \/ batch[t] \cap Bad # {})
  BY <1>1, Zenon DEF AllPass, IInv, TypeOK, Skips
<1> HIDE DEF todo, B, P, allOk
<1>7. Ledger(queue, B, todo, added)
  BY <1>2, <1>3, <1>4, Zenon DEF IInv, Ledger
<1>8. Sound(queue, B, allOk, added)
  <2>1. Sound(queue, batch, fAllOk, added) /\ batch[t] \subseteq added
    BY <1>1, Zenon DEF IInv, Ledger, Outstanding
  <2> QED BY <1>2, <1>6, <2>1, Zenon DEF Sound
<1>9. /\ nTotal = nIdle + 1 + Cardinality(Exec(P) \ {t})
      /\ nIdle >= Cardinality(Asleep(P) \ {t})
  <2>1. Exec(P) = Exec(pc) /\ t \in Exec(pc) /\ Asleep(P) \ {t} = Asleep(pc)
    BY <1>1, <1>5, Zenon DEF Exec, Asleep
  <2>2. Cardinality(Exec(pc)) \in Nat
    BY ThreadSets, Zenon DEF Exec
  <2>3. Cardinality(Exec(pc) \ {t}) = Cardinality(Exec(pc)) - 1
    <3>1. Exec(pc) \in SUBSET Threads
      BY Zenon DEF Exec
    <3> QED BY <2>1, <3>1, OneLess, Zenon
  <2>4. /\ nTotal \in Nat /\ nIdle \in Nat
        /\ nTotal = nIdle + Cardinality(Exec(pc)) /\ nIdle >= Cardinality(Asleep(pc))
    BY Zenon DEF IInv, TypeOK
  <2>5. /\ Cardinality(Exec(P) \ {t}) = Cardinality(Exec(pc)) - 1
        /\ Cardinality(Asleep(P) \ {t}) = Cardinality(Asleep(pc))
    BY <2>1, <2>3, ZenonT(60)
  <2> QED BY <2>2, <2>4, <2>5
<1>10. /\ \A u \in Threads \ {t} : P[u] = "exec" /\ ~fOk[u] => ~allOk
       /\ \A u \in Threads \ {t} : P[u] = "exec" <=> B[u] # {}
       /\ B[t] = {}
  BY <1>4, <1>5, <1>6, Zenon DEF IInv, Skips, Holders
<1>11. Mid(t, nTotal, nIdle, allOk, todo, P, B)
  BY <1>1, <1>3, <1>4, <1>5, <1>6, <1>7, <1>8, <1>9, <1>10, Zenon
     DEF IInv, Mid, TypeOK, Closed
<1> QED BY <1>11, Zenon DEF todo, B, P, allOk

-----------------------------------------------------------------------------

(* The queue as constructed satisfies the invariant.                     *)
LEMMA InitIInv ==
    ASSUME Sizes, Init PROVE IInv
<1> USE DEF Init
<1>1. TypeOK
  <2>1. batch \in [Threads -> SUBSET Checks]
    BY Zenon
  <2>2. fOk \in [Threads -> BOOLEAN]
    BY Zenon
  <2>3. pc \in [Threads -> PC]
    BY Zenon DEF PC
  <2>4. interrupts \in 0..GroupMasters /\ nIdle \in Nat /\ nTotal \in Nat /\ nTodo \in Nat
    BY GroupMastersAssumption
  <2> QED BY <2>1, <2>2, <2>3, <2>4, Zenon DEF TypeOK
<1>2. Outstanding(queue, batch) = {} /\ Exec(pc) = {} /\ Asleep(pc) = {}
  BY Zenon DEF Outstanding, Exec, Asleep
<1>3. Ledger(queue, batch, nTodo, added)
  BY <1>2, Zenon DEF Ledger, Sizes
<1>4. Skips(pc, fOk, fAllOk) /\ Holders(pc, batch)
  BY Zenon DEF Skips, Holders
<1>5. nTotal = nIdle + Cardinality(Exec(pc)) /\ nIdle >= Cardinality(Asleep(pc))
  BY <1>2 DEF Sizes
<1>6. Closed /\ AnswerIsVerdict
  BY <1>2, Zenon DEF Closed, AnswerIsVerdict, Threads
<1> QED BY <1>1, <1>3, <1>4, <1>5, <1>6, Zenon DEF IInv

\* Steps that only move threads between "out", "call" and the sleeping places
\* leave every count as it is, provided no thread wakes that was not asleep.
LEMMA QuietStep ==
    ASSUME Sizes, IInv,
           UNCHANGED <<queue, nIdle, nTotal, fAllOk, nTodo, batch, fOk, open, added, result>>,
           pc' \in [Threads -> PC], unwinding' \in BOOLEAN, shutdown' \in BOOLEAN,
           interrupts' \in 0..GroupMasters,
           \A t \in Threads : pc'[t] = "exec" <=> pc[t] = "exec",
           \A t \in Threads : pc'[t] \in {"wait", "ready", "gone"}
                             => pc[t] \in {"wait", "ready", "gone"},
           pc'[Master] # "gone", pc'[Master] # "out" => open,
           ~open => pc'[Master] = "out"
    PROVE  IInv'
<1>1. TypeOK'
  BY Zenon DEF IInv, TypeOK
<1>2. Exec(pc') = Exec(pc) /\ Asleep(pc') \subseteq Asleep(pc)
  BY Zenon DEF Exec, Asleep
<1>3. Cardinality(Asleep(pc')) <= Cardinality(Asleep(pc))
      /\ Cardinality(Asleep(pc')) \in Nat /\ Cardinality(Asleep(pc)) \in Nat
  <2>1. Asleep(pc) \in SUBSET Threads
    BY Zenon DEF Asleep
  <2> QED BY <2>1, <1>2, Zenon DEF Sizes
<1>4. nTotal' = nIdle' + Cardinality(Exec(pc')) /\ nIdle' >= Cardinality(Asleep(pc'))
  <2>1. nTotal' = nIdle' + Cardinality(Exec(pc'))
    BY <1>2, Zenon DEF IInv
  <2>2. nIdle \in Nat /\ nIdle' = nIdle /\ nIdle >= Cardinality(Asleep(pc))
    BY Zenon DEF IInv, TypeOK
  <2> QED BY <2>1, <2>2, <1>3
<1>5. Ledger(queue', batch', nTodo', added') /\ (open' => Sound(queue', batch', fAllOk', added'))
  BY ZenonT(60) DEF IInv
<1>6. Skips(pc', fOk', fAllOk') /\ Holders(pc', batch')
  BY Zenon DEF IInv, Skips, Holders
<1>7. Closed' /\ AnswerIsVerdict'
  BY Zenon DEF IInv, Closed, AnswerIsVerdict
<1> QED BY <1>1, <1>4, <1>5, <1>6, <1>7, Zenon DEF IInv

(* Add keeps the invariant.                                              *)
LEMMA AddStep ==
    ASSUME Sizes, IInv, NEW S \in SUBSET Checks, Add(S)
    PROVE  IInv'
<1> DEFINE sleeping == {w \in Workers : pc[w] = "wait"}
<1>1. /\ open /\ pc[Master] = "out" /\ S \cap added = {}
      /\ queue' = queue \cup S /\ nTodo' = nTodo + Cardinality(S) /\ added' = added \cup S
      /\ UNCHANGED <<nIdle, nTotal, fAllOk, batch, fOk, open, result, shutdown,
                     unwinding, interrupts>>
  BY Zenon DEF Add
<1>2. /\ pc' \in [Threads -> PC]
      /\ \A t \in Threads : pc'[t] # pc[t] => pc[t] = "wait" /\ pc'[t] = "ready"
  <2>1. pc \in [Threads -> PC]
    BY Zenon DEF IInv, TypeOK
  <2>2. CASE pc' = pc
    BY <2>1, <2>2, Zenon
  <2>3. CASE \E w \in sleeping : pc' = [pc EXCEPT ![w] = "ready"]
    BY <2>1, <2>3, Zenon DEF PC, Threads
  <2>4. CASE pc' = [t \in Threads |-> IF t \in sleeping THEN "ready" ELSE pc[t]]
    BY <2>1, <2>4, Zenon DEF PC
  <2> QED BY <2>2, <2>3, <2>4, Zenon DEF Add
<1>3. Cardinality(S) \in Nat
  BY CheckSets, Zenon
<1>4. TypeOK'
  BY <1>1, <1>2, <1>3, SMTT(30) DEF IInv, TypeOK
<1>5. Outstanding(queue', batch') = Outstanding(queue, batch) \cup S
  BY <1>1, Zenon DEF Outstanding
<1>6. Ledger(queue', batch', nTodo', added')
  <2>1. /\ Outstanding(queue, batch) \subseteq added /\ added \subseteq Checks
        /\ nTodo = Cardinality(Outstanding(queue, batch))
    BY Zenon DEF IInv, Ledger, TypeOK
  <2> DEFINE O == Outstanding(queue, batch)
  <2>2. O \in SUBSET Checks /\ O \cap S = {}
    BY <1>1, <2>1, Zenon
  <2> HIDE DEF O
  <2>3. Cardinality(O \cup S) = Cardinality(O) + Cardinality(S)
    BY <2>2, ZenonT(60) DEF Sizes
  <2>4. nTodo' = Cardinality(Outstanding(queue', batch'))
    BY <1>1, <1>5, <2>1, <2>3, Zenon DEF O
  <2>5. Outstanding(queue', batch') \subseteq added'
    BY <1>1, <1>5, <2>1, Zenon
  <2>6. \A t \in Threads : batch[t] \subseteq added
    BY <2>1, Zenon DEF Outstanding
  <2>7. /\ \A t \in Threads : batch'[t] \cap queue' = {}
        /\ \A t, u \in Threads : t # u => batch'[t] \cap batch'[u] = {}
    BY <1>1, <2>6, Zenon DEF IInv, Ledger
  <2> QED BY <2>4, <2>5, <2>7, Zenon DEF Ledger
<1>7. Sound(queue', batch', fAllOk', added')
  BY <1>1, <1>5, Zenon DEF IInv, Sound
<1>8. Skips(pc', fOk', fAllOk') /\ Holders(pc', batch')
  BY <1>1, <1>2, Zenon DEF IInv, Skips, Holders
<1>9. nTotal' = nIdle' + Cardinality(Exec(pc')) /\ nIdle' >= Cardinality(Asleep(pc'))
  <2>1. Exec(pc') = Exec(pc) /\ Asleep(pc') = Asleep(pc)
    BY <1>2, ZenonT(60) DEF Exec, Asleep
  <2> QED BY <1>1, <2>1, Zenon DEF IInv
<1>10. Closed' /\ AnswerIsVerdict'
  <2>1. pc'[Master] = "out"
    BY <1>1, <1>2, Zenon DEF Threads
  <2> QED BY <1>1, <2>1, Zenon DEF IInv, Closed, AnswerIsVerdict
<1> QED BY <1>4, <1>6, <1>7, <1>8, <1>9, <1>10, Zenon DEF IInv

(* Every step of every thread keeps the invariant.                       *)
LEMMA NextIInv ==
    ASSUME Sizes, IInv, [Next]_vars PROVE IInv'
<1>1. CASE UNCHANGED vars
  BY <1>1, Zenon DEF vars, IInv, TypeOK, Closed, AnswerIsVerdict
<1>2. ASSUME NEW t \in Threads, Enter(t) PROVE IInv'
  BY <1>2, EnterMid, LoopStep, Zenon DEF Enter
<1>3. ASSUME NEW t \in Threads, Resume(t) PROVE IInv'
  BY <1>3, ResumeMid, LoopStep, Zenon DEF Resume
<1>4. ASSUME NEW t \in Threads, Finish(t) PROVE IInv'
  BY <1>4, FinishMid, LoopStep, Zenon DEF Finish
<1>5. ASSUME NEW t \in Threads, SpuriousWake(t) PROVE IInv'
  <2>1. /\ pc' \in [Threads -> PC]
        /\ \A u \in Threads : pc'[u] = IF u = t THEN "ready" ELSE pc[u]
    BY <1>5, Zenon DEF SpuriousWake, IInv, TypeOK, PC
  <2> QED BY <1>5, <2>1, QuietStep, Zenon
          DEF SpuriousWake, ctlVars, IInv, TypeOK, Closed, Threads
<1>6. ASSUME NEW w \in Workers, WorkerInterrupted(w) PROVE IInv'
  <2>1. /\ pc' \in [Threads -> PC]
        /\ \A u \in Threads : pc'[u] = IF u = w THEN "gone" ELSE pc[u]
    BY <1>6, Zenon DEF WorkerInterrupted, IInv, TypeOK, PC, Threads
  <2> QED BY <1>6, <2>1, QuietStep, MasterAssumption, ZenonT(60)
          DEF WorkerInterrupted, ctlVars, IInv, TypeOK, Closed, Threads
<1>7. ASSUME NEW S \in SUBSET Checks, Add(S) PROVE IInv'
  BY <1>7, AddStep, Zenon
<1>8. CASE Construct
  <2>1. Outstanding(queue, batch) = {} /\ fAllOk /\ pc[Master] = "out"
    BY <1>8, Zenon DEF Construct, IInv, Closed
  <2>2. UNCHANGED <<queue, nIdle, nTotal, fAllOk, nTodo, batch, fOk, pc, shutdown,
                    unwinding, interrupts>> /\ open' = TRUE /\ added' = {} /\ result' = "none"
    BY <1>8, Zenon DEF Construct, loopVars
  <2>3. TypeOK'
    BY <2>2, ZenonT(60) DEF IInv, TypeOK
  <2>4. Ledger(queue', batch', nTodo', added') /\ Sound(queue', batch', fAllOk', added')
    BY <2>1, <2>2, Zenon DEF IInv, Ledger, Sound
  <2> QED BY <2>1, <2>2, <2>3, <2>4, Zenon DEF IInv, Closed, AnswerIsVerdict
<1>9. CASE CallWait
  <2>1. /\ pc' \in [Threads -> PC]
        /\ \A u \in Threads : pc'[u] = IF u = Master THEN "call" ELSE pc[u]
    BY <1>9, Zenon DEF CallWait, IInv, TypeOK, PC
  <2>2. pc'[Master] = "call" /\ pc[Master] = "out" /\ open
    BY <1>9, <2>1, Zenon DEF CallWait, Threads
  <2> QED BY <1>9, <2>1, <2>2, QuietStep, Zenon DEF CallWait, ctlVars, IInv, TypeOK
<1>10. CASE InterruptAll
  BY <1>10, QuietStep, ZenonT(60) DEF InterruptAll, loopVars, ctlVars, IInv, TypeOK, Closed
<1>11. CASE MasterInterrupted
  <2>1. /\ pc' \in [Threads -> PC]
        /\ \A u \in Threads : pc'[u] = IF u = Master THEN "call" ELSE pc[u]
    BY <1>11, Zenon DEF MasterInterrupted, IInv, TypeOK, PC
  <2>2. pc'[Master] = "call" /\ pc[Master] \in {"wait", "ready"} /\ open
    BY <1>11, <2>1, Zenon DEF MasterInterrupted, Threads, IInv, Closed
  <2>3. interrupts' \in 0..GroupMasters /\ unwinding' \in BOOLEAN
    BY <1>11, GroupMastersAssumption DEF MasterInterrupted, IInv, TypeOK
  <2> QED BY <1>11, <2>1, <2>2, <2>3, QuietStep, Zenon DEF MasterInterrupted, ctlVars, IInv, TypeOK
<1> QED BY <1>1, <1>2, <1>3, <1>4, <1>5, <1>6, <1>7, <1>8, <1>9, <1>10, <1>11, Zenon DEF Next

-----------------------------------------------------------------------------

(* The inductive invariant implies the properties that are model-        *)
(* checked.                                                              *)
LEMMA IInvImplies ==
    ASSUME Sizes, IInv
    PROVE  TypeOK /\ IdleWhenClosed /\ AnswerIsVerdict /\ NoCheckOutlivesControl
<1> SUFFICES IdleWhenClosed /\ NoCheckOutlivesControl
  BY Zenon DEF IInv
<1>1. ASSUME ~open PROVE queue = {} /\ \A t \in Threads : batch[t] = {}
  BY <1>1, Zenon DEF IInv, Closed, Outstanding
<1>2. ASSUME ~open PROVE IsIdle
  <2>1. Outstanding(queue, batch) = {} /\ fAllOk = TRUE
    BY <1>2, ZenonT(60) DEF IInv, Closed, TypeOK
  <2>2. nTodo = 0
    BY <2>1, Zenon DEF IInv, Ledger, Sizes
  <2>3. Exec(pc) = {}
    BY <1>1, <1>2, Zenon DEF IInv, Holders, Exec
  <2>4. nTotal = nIdle
    <3>1. Cardinality(Exec(pc)) = 0
      BY <2>3, Zenon DEF Sizes
    <3> QED BY <3>1 DEF IInv, TypeOK
  <2> QED BY <2>1, <2>2, <2>4, Zenon DEF IsIdle
<1> QED BY <1>1, <1>2, Zenon DEF IdleWhenClosed, NoCheckOutlivesControl

\* A critical section of Loop is invisible to the owner of the control, or it
\* is the return of Wait() with the verdict on the session.
LEMMA LoopRefines ==
    ASSUME NEW t \in Threads, NEW total, NEW idle, NEW allOk, NEW todo, NEW P, NEW B,
           Mid(t, total, idle, allOk, todo, P, B), AnswerIsVerdict',
           Loop(t, total, idle, allOk, todo, P, B), added' = added
    PROVE  Abs!Close \/ UNCHANGED ctlVars
<1>1. CASE TakeBatch(t, total, idle, allOk, P, B)
  BY <1>1, Zenon DEF TakeBatch, ctlVars
<1>2. CASE WaitForWork(t, total, idle, allOk, todo, P, B)
  BY <1>2, Zenon DEF WaitForWork, ctlVars
<1>3. CASE MasterReturn(t, total, idle, allOk, todo, P, B)
  <2>1. open /\ open' = FALSE /\ result' \in {"none", "ok", "fail"}
    BY <1>3, Zenon DEF MasterReturn, Mid
  <2>2. result' \in {Abs!Verdict(added), "none"}
    BY <2>1, Zenon DEF AnswerIsVerdict, Abs!Verdict
  <2> QED BY <2>1, <2>2, Zenon DEF Abs!Close
<1> QED BY <1>1, <1>2, <1>3, Zenon DEF Loop

\* So is every other step.
LEMMA NextRefines ==
    ASSUME Sizes, IInv, IInv', [Next]_vars PROVE Abs!CNext \/ UNCHANGED ctlVars
<1>0. AnswerIsVerdict'
  BY Zenon DEF IInv
<1>1. CASE UNCHANGED vars
  BY <1>1, Zenon DEF vars, ctlVars
<1>2. ASSUME NEW t \in Threads, Enter(t) PROVE Abs!Close \/ UNCHANGED ctlVars
  BY <1>0, <1>2, EnterMid, LoopRefines, Zenon DEF Enter
<1>3. ASSUME NEW t \in Threads, Resume(t) PROVE Abs!Close \/ UNCHANGED ctlVars
  BY <1>0, <1>3, ResumeMid, LoopRefines, Zenon DEF Resume
<1>4. ASSUME NEW t \in Threads, Finish(t) PROVE Abs!Close \/ UNCHANGED ctlVars
  BY <1>0, <1>4, FinishMid, LoopRefines, Zenon DEF Finish
<1>5. ASSUME NEW t \in Threads, SpuriousWake(t) PROVE UNCHANGED ctlVars
  BY <1>5, Zenon DEF SpuriousWake, ctlVars
<1>6. ASSUME NEW w \in Workers, WorkerInterrupted(w) PROVE UNCHANGED ctlVars
  BY <1>6, Zenon DEF WorkerInterrupted, ctlVars
<1>7. ASSUME NEW S \in SUBSET Checks, Add(S) PROVE Abs!Hand(S)
  BY <1>7, Zenon DEF Add, Abs!Hand
<1>8. CASE Construct
  BY <1>8, Zenon DEF Construct, Abs!Open, Abs!CNext
<1>9. CASE CallWait \/ InterruptAll \/ MasterInterrupted
  BY <1>9, Zenon DEF CallWait, InterruptAll, MasterInterrupted, ctlVars
<1> QED BY <1>1, <1>2, <1>3, <1>4, <1>5, <1>6, <1>7, <1>8, <1>9, Zenon DEF Next, Abs!CNext

-----------------------------------------------------------------------------
(* BlockUndo.  What the proofs use of the natural numbers is shown at the  *)
(* end of the module.                                                      *)

Least == \A T \in SUBSET Nat : T # {} => \E x \in T : \A y \in T : x <= y

Outpoints == Txs \X Nat

\* The coins of a chain in which the transactions M are mined, the outputs S
\* are spent and t was mined at height H[t].
View(cs, M, S, H) ==
    \A t \in Txs :
       /\ cs[t].vout = IF t \in M THEN {n \in 0 .. nOut[t] - 1 : <<t, n>> \notin S} ELSE {}
       /\ cs[t].vout # {} => cs[t].nHeight = H[t] /\ cs[t].fCoinBase = (t \in CoinBase)

\* An undo entry of the output o: its metadata, if it has any, are right.
Entry(u, o, H) ==
    /\ u \in Coin
    /\ u.nHeight # 0 => u.nHeight = H[o[1]] /\ u.fCoinBase = (o[1] \in CoinBase)

Entries(r, t, H) ==
    /\ r \in Seq(Coin) /\ Len(r) = Len(vin[t])
    /\ \A x \in DOMAIN vin[t] : Entry(r[x], vin[t][x], H)

\* What CheckInputs finds of an output spent at height k.
Spendable(o, M, S, H, k) ==
    /\ o \notin S /\ o[1] \in M /\ o[2] \in 0 .. nOut[o[1]] - 1
    /\ o[1] \in CoinBase => k - H[o[1]] >= Maturity

\* Only outputs of M are spent, and all that the transactions of M spend.
Booked(M, S) ==
    /\ M \subseteq Txs
    /\ S \subseteq Outpoints
    /\ \A o \in S : o[1] \in M
    /\ \A t \in M : Range(vin[t]) \subseteq S

\* The indices of a loop over n items.
LEMMA Indices ==
    ASSUME NEW n \in Nat
    PROVE  /\ n \in 0 .. n /\ 0 \in 0 .. n /\ n - n = 0
           /\ \A i \in 0 .. n : i # 0 => i \in 1 .. n /\ i - 1 \in 0 .. n
  OBVIOUS

\* One turn of the loop.
LEMMA Turn ==
    ASSUME NEW n \in Nat, NEW i \in 0 .. n - 1
    PROVE  /\ i + 1 \in 1 .. n /\ i + 1 \in 0 .. n /\ (i + 1) - 1 = i /\ i \in Nat /\ i \in 0 .. n
           /\ i + 1 = 1 => i = 0
           /\ \A x \in 1 .. i + 1 : x \in 1 .. i \/ x = i + 1
           /\ \A x \in 1 .. i : x \in 1 .. n /\ x # i + 1
  OBVIOUS

\* Before the first turn.
LEMMA NoTurn == Len(<<>>) = 0 /\ \A j \in 1 .. 0 : FALSE
  OBVIOUS

LEMMA EmptySequence == \A X : <<>> \in Seq(X)
  OBVIOUS

\* What holds at 0 and is handed from each index below n to the next holds up to n.
LEMMA InductionUpTo ==
    ASSUME Least, NEW n \in Nat, NEW T, 0 \in T, \A i \in 0 .. n - 1 : i \in T => i + 1 \in T
    PROVE  \A i \in 0 .. n : i \in T
<1> DEFINE Out == {i \in 0 .. n : i \notin T}
<1> SUFFICES ASSUME Out # {} PROVE FALSE
  BY Zenon
<1>1. PICK x \in Out : \A y \in Out : x <= y
  <2>1. Out \in SUBSET Nat
    OBVIOUS
  <2> QED
    BY <2>1, Zenon DEF Least
<1>2. x \in 0 .. n /\ x \notin T /\ x # 0
  BY Zenon
<1>3. x - 1 \in 0 .. n - 1 /\ x - 1 \in 0 .. n /\ (x - 1) + 1 = x /\ ~(x <= x - 1)
  BY <1>2
<1>4. x - 1 \in T
  BY <1>1, <1>3, Zenon
<1> QED
  BY <1>2, <1>3, <1>4, Zenon

\* A function defined by recursion over an initial segment of the naturals.
Defines(n, X, x, D) ==
  \E f \in [0 .. n -> X] : f[0] = x /\ \A i \in 1 .. n : f[i] = D[i][f[i - 1]]

LEMMA Recursion ==
    ASSUME Least, NEW n \in Nat, NEW X, NEW x \in X, NEW D \in [1 .. n -> [X -> X]]
    PROVE  Defines(n, X, x, D)
<1> DEFINE Is(f, k) == f[0] = x /\ \A i \in 1 .. k : f[i] = D[i][f[i - 1]]
           Made == {k \in 0 .. n : \E f \in [0 .. k -> X] : Is(f, k)}
<1>1. 0 \in Made
  <2> DEFINE f == [i \in 0 .. 0 |-> x]
  <2>1. f \in [0 .. 0 -> X] /\ Is(f, 0)
    OBVIOUS
  <2> HIDE DEF f, Is
  <2> QED
    BY <2>1
<1>2. ASSUME NEW k \in 0 .. n - 1, k \in Made PROVE k + 1 \in Made
  <2>0. k \in Nat /\ k + 1 \in 0 .. n /\ k + 1 \in 1 .. n /\ (k + 1) - 1 = k
    OBVIOUS
  <2>1. PICK f \in [0 .. k -> X] : Is(f, k)
    BY <1>2, Zenon
  <2> DEFINE y == D[k + 1][f[k]]
             g == [i \in 0 .. k + 1 |-> IF i <= k THEN f[i] ELSE y]
  <2>2. f[k] \in X /\ k \in 0 .. k
    BY <2>0
  <2>3. y \in X
    BY <2>0, <2>2, Zenon
  <2> HIDE DEF y
  <2>4. /\ \A i \in 0 .. k : g[i] = f[i]
        /\ g[k + 1] = y /\ g \in [0 .. k + 1 -> X]
    BY <2>0, <2>3
  <2> HIDE DEF g
  <2>5. ASSUME NEW i \in 1 .. k + 1 PROVE g[i] = D[i][g[i - 1]]
    <3>1. CASE i = k + 1
      <4>1. g[i] = y /\ i - 1 = k /\ g[k] = f[k]
        BY <2>0, <2>2, <2>4, <3>1, Zenon
      <4> QED
        BY <3>1, <4>1, Zenon DEF y
    <3>2. CASE i # k + 1
      <4>1. i \in 1 .. k /\ i \in 0 .. k /\ i - 1 \in 0 .. k
        BY <2>0, <3>2
      <4>2. f[i] = D[i][f[i - 1]]
        BY <2>1, <4>1, Zenon
      <4> QED
        BY <2>4, <4>1, <4>2, Zenon
    <3> QED
      BY <3>1, <3>2, Zenon
  <2>6. g[0] = x
    BY <2>0, <2>1, <2>4
  <2>7. Is(g, k + 1)
    BY <2>5, <2>6, Zenon
  <2> HIDE DEF Is
  <2> QED
    BY <2>0, <2>4, <2>7, Zenon
<1> HIDE DEF Made
<1>3. n \in Made
  <2>1. \A i \in 0 .. n : i \in Made
    BY <1>1, <1>2, InductionUpTo, Zenon
  <2> QED
    BY <2>1
<1> QED
  BY <1>3, Zenon DEF Made, Defines

Longer(X, s, e, r) ==
    /\ r \in Seq(X) /\ Len(r) = Len(s) + 1 /\ r[Len(s) + 1] = e
    /\ \A g \in 1 .. Len(s) : s[g] = r[g]

LEMMA AppendFacts ==
    ASSUME NEW X, NEW s \in Seq(X), NEW e \in X PROVE Longer(X, s, e, Append(s, e))
BY DEF Longer

LEMMA FrontFacts ==
    ASSUME NEW X, NEW s \in Seq(X), s # <<>>
    PROVE  /\ Front(s) \in Seq(X) /\ Len(Front(s)) = Len(s) - 1
           /\ \A g \in 1 .. Len(s) - 1 : s[g] = Front(s)[g]
<1> DEFINE n == Len(s) - 1
           r == SubSeq(s, 1, n)
<1>1. n \in Nat /\ n <= Len(s) /\ Len(s) \in Nat
  OBVIOUS
<1>2. Front(s) = r
  BY Zenon DEF Front
<1> HIDE DEF n
<1>3. r \in Seq(X) /\ Len(r) = n /\ \A g \in 1 .. n : s[g] = r[g]
  BY <1>1
<1> QED
  BY <1>2, <1>3, Zenon DEF n

-----------------------------------------------------------------------------
(* One input *)

LEMMA ConstantFacts ==
    /\ CoinBase \subseteq Txs /\ nOut \in [Txs -> Nat \ {0}]
    /\ Maturity \in Nat
    /\ \A t \in Txs : /\ vin[t] \in Seq(Outpoints) /\ Len(vin[t]) \in Nat
                      /\ DOMAIN vin[t] = 1 .. Len(vin[t])
                      /\ \A x \in 1 .. Len(vin[t]) : vin[t][x] \in Outpoints
    /\ \A t \in Txs : \A x, y \in 1 .. Len(vin[t]) : vin[t][x] = vin[t][y] => x = y
    /\ \A t \in Txs \ CoinBase : 1 \in 1 .. Len(vin[t])
<1>1. /\ CoinBase \subseteq Txs /\ nOut \in [Txs -> Nat \ {0}] /\ Maturity \in Nat
      /\ vin \in [Txs -> Seq(Outpoints)]
      /\ \A t \in Txs \ CoinBase : vin[t] # <<>>
      /\ \A t \in Txs : IsInjective(vin[t])
  BY ConstantsAssumption, Zenon DEF Outpoints
<1>2. ASSUME NEW t \in Txs
      PROVE  /\ vin[t] \in Seq(Outpoints) /\ Len(vin[t]) \in Nat
             /\ DOMAIN vin[t] = 1 .. Len(vin[t])
             /\ \A x \in 1 .. Len(vin[t]) : vin[t][x] \in Outpoints
             /\ vin[t] # <<>> => 1 \in 1 .. Len(vin[t])
  <2>1. vin[t] \in Seq(Outpoints)
    BY <1>1, Zenon
  <2> QED
    BY <2>1
<1>3. ASSUME NEW t \in Txs
      PROVE  \A x, y \in 1 .. Len(vin[t]) : vin[t][x] = vin[t][y] => x = y
  BY <1>1, <1>2, Zenon DEF IsInjective
<1> QED
  BY <1>1, <1>2, <1>3, Zenon

LEMMA EmptyFacts ==
    /\ Empty \in Coin /\ Empty.vout = {} /\ Empty.nHeight = 0
    /\ \A t \in Txs, k \in Nat :
         /\ FromTx(t, k) \in Coin /\ FromTx(t, k).vout = 0 .. nOut[t] - 1
         /\ FromTx(t, k).nHeight = k /\ FromTx(t, k).fCoinBase = (t \in CoinBase)
BY ConstantFacts DEF Empty, FromTx, Coin

LEMMA SpendType ==
    ASSUME NEW c \in Coin, NEW n \in Nat
    PROVE  SpendCoin(c, n) \in Coin /\ SpendUndo(c, n) \in Coin
BY EmptyFacts, Zenon DEF SpendCoin, SpendUndo, Coin

LEMMA RestoreType ==
    ASSUME NEW c \in Coin, NEW n \in Nat, NEW u \in Coin PROVE RestoreInput(c, n, u) \in Coin
<1>1. c.vout \cup {n} \in SUBSET Nat /\ {n} \in SUBSET Nat /\ u.fCoinBase \in BOOLEAN /\ u.nHeight \in Nat
  BY Zenon DEF Coin
<1>2. CASE u.nHeight # 0
  BY <1>1, <1>2, Zenon DEF RestoreInput, Coin, Empty
<1>3. CASE u.nHeight = 0
  BY <1>1, <1>3, Zenon DEF RestoreInput, Coin
<1> QED
  BY <1>2, <1>3, Zenon

LEMMA SpendView ==
    ASSUME NEW cs \in [Txs -> Coin], NEW M, NEW S, NEW H, View(cs, M, S, H),
           NEW o \in Outpoints, o \notin S, o[1] \in M, o[2] \in 0 .. nOut[o[1]] - 1
    PROVE  /\ View([cs EXCEPT ![o[1]] = SpendCoin(@, o[2])], M, S \cup {o}, H)
           /\ Entry(SpendUndo(cs[o[1]], o[2]), o, H)
<1> DEFINE c == cs[o[1]]
           new == [cs EXCEPT ![o[1]] = SpendCoin(@, o[2])]
<1>1. o[1] \in Txs /\ o[2] \in Nat /\ o = <<o[1], o[2]>> /\ c \in Coin
  BY DEF Outpoints
<1>2. /\ c.vout = {n \in 0 .. nOut[o[1]] - 1 : <<o[1], n>> \notin S}
      /\ c.vout # {} => c.nHeight = H[o[1]] /\ c.fCoinBase = (o[1] \in CoinBase)
  BY <1>1, Zenon DEF View
<1>3. o[2] \in c.vout
  BY <1>1, <1>2, Zenon
<1>4. c.nHeight = H[o[1]] /\ c.fCoinBase = (o[1] \in CoinBase)
  BY <1>2, <1>3, Zenon
<1>5. Entry(SpendUndo(c, o[2]), o, H)
  <2>1. SpendUndo(c, o[2]) \in Coin
    BY <1>1, SpendType, Zenon
  <2>2. CASE c.vout = {o[2]}
    <3>1. SpendUndo(c, o[2]).nHeight = c.nHeight /\ SpendUndo(c, o[2]).fCoinBase = c.fCoinBase
      BY <1>1, <2>2, Zenon DEF SpendUndo, Coin
    <3> QED
      BY <1>4, <2>1, <3>1, Zenon DEF Entry
  <2>3. CASE c.vout # {o[2]}
    BY <2>1, <2>3, EmptyFacts, Zenon DEF Entry, SpendUndo
  <2> QED
    BY <2>2, <2>3, Zenon
<1>6. /\ SpendCoin(c, o[2]).vout = c.vout \ {o[2]}
      /\ SpendCoin(c, o[2]).vout # {} =>
           /\ SpendCoin(c, o[2]).nHeight = c.nHeight
           /\ SpendCoin(c, o[2]).fCoinBase = c.fCoinBase
  <2>1. CASE c.vout = {o[2]}
    <3>1. SpendCoin(c, o[2]).vout = {}
      BY <2>1, EmptyFacts, Zenon DEF SpendCoin
    <3> QED
      BY <2>1, <3>1, Zenon
  <2>2. CASE c.vout # {o[2]}
    BY <1>1, <2>2, Zenon DEF SpendCoin, Coin
  <2> QED
    BY <2>1, <2>2, Zenon
<1> HIDE DEF c
<1>7. new[o[1]] = SpendCoin(c, o[2]) /\ \A t \in Txs : t # o[1] => new[t] = cs[t]
  BY <1>1, Zenon DEF c
<1> HIDE DEF new
<1>8. ASSUME NEW t \in Txs
      PROVE  /\ new[t].vout = IF t \in M THEN {n \in 0 .. nOut[t] - 1 : <<t, n>> \notin S \cup {o}}
                              ELSE {}
             /\ new[t].vout # {} => new[t].nHeight = H[t] /\ new[t].fCoinBase = (t \in CoinBase)
  <2>1. CASE t = o[1]
    <3>1. new[t].vout = {n \in 0 .. nOut[t] - 1 : <<t, n>> \notin S \cup {o}}
      <4>1. \A n : <<t, n>> = o <=> n = o[2]
        BY <1>1, <2>1
      <4> QED
        BY <1>2, <1>6, <1>7, <2>1, <4>1, Zenon
    <3> QED
      BY <1>4, <1>6, <1>7, <2>1, <3>1, Zenon
  <2>2. CASE t # o[1]
    <3>1. \A n : <<t, n>> # o
      BY <1>1, <2>2
    <3>2. /\ cs[t].vout = IF t \in M THEN {n \in 0 .. nOut[t] - 1 : <<t, n>> \notin S} ELSE {}
          /\ cs[t].vout # {} => cs[t].nHeight = H[t] /\ cs[t].fCoinBase = (t \in CoinBase)
      BY Zenon DEF View
    <3>3. {n \in 0 .. nOut[t] - 1 : <<t, n>> \notin S \cup {o}}
            = {n \in 0 .. nOut[t] - 1 : <<t, n>> \notin S}
      BY <3>1, Zenon
    <3> QED
      BY <1>7, <2>2, <3>2, <3>3, Zenon
  <2> QED
    BY <2>1, <2>2, Zenon
<1> QED
  BY <1>5, <1>8, Zenon DEF View, new, c

LEMMA RestoreView ==
    ASSUME NEW cs \in [Txs -> Coin], NEW M, NEW S, NEW H, NEW o \in Outpoints, NEW u,
           View(cs, M, S \cup {o}, H), o \notin S, o[1] \in M, o[2] \in 0 .. nOut[o[1]] - 1,
           Entry(u, o, H), CleanInput(cs[o[1]], o[2], u)
    PROVE  View([cs EXCEPT ![o[1]] = RestoreInput(@, o[2], u)], M, S, H)
<1> DEFINE c == cs[o[1]]
           d == RestoreInput(c, o[2], u)
           new == [cs EXCEPT ![o[1]] = RestoreInput(@, o[2], u)]
<1>1. o[1] \in Txs /\ o[2] \in Nat /\ o = <<o[1], o[2]>> /\ c \in Coin /\ u \in Coin
  BY DEF Outpoints, Entry
<1>2. /\ c.vout = {n \in 0 .. nOut[o[1]] - 1 : <<o[1], n>> \notin S \cup {o}}
      /\ c.vout # {} => c.nHeight = H[o[1]] /\ c.fCoinBase = (o[1] \in CoinBase)
  BY <1>1, Zenon DEF View
<1>3. d.vout = c.vout \cup {o[2]} /\ d.nHeight = H[o[1]] /\ d.fCoinBase = (o[1] \in CoinBase)
  <2>1. CASE u.nHeight # 0
    <3>1. d.vout = {o[2]} /\ d.fCoinBase = u.fCoinBase /\ d.nHeight = u.nHeight
      BY <1>1, <2>1, Zenon DEF RestoreInput, Empty
    <3>2. c.vout = {}
      BY <2>1, Zenon DEF CleanInput, IsPruned
    <3>3. d.vout = c.vout \cup {o[2]}
      BY <3>1, <3>2, Zenon
    <3> QED
      BY <2>1, <3>1, <3>3, Zenon DEF Entry
  <2>2. CASE u.nHeight = 0
    <3>1. d.vout = c.vout \cup {o[2]} /\ d.fCoinBase = c.fCoinBase /\ d.nHeight = c.nHeight
      BY <1>1, <2>2, Zenon DEF RestoreInput, Coin
    <3>2. c.vout # {}
      BY <2>2, Zenon DEF CleanInput, IsPruned
    <3> QED
      BY <1>2, <3>1, <3>2, Zenon
  <2> QED
    BY <2>1, <2>2, Zenon
<1> HIDE DEF d
<1>4. new[o[1]] = d /\ \A t \in Txs : t # o[1] => new[t] = cs[t]
  BY <1>1, Zenon DEF d
<1> HIDE DEF new, c
<1>5. ASSUME NEW t \in Txs
      PROVE  /\ new[t].vout = IF t \in M THEN {n \in 0 .. nOut[t] - 1 : <<t, n>> \notin S} ELSE {}
             /\ new[t].vout # {} => new[t].nHeight = H[t] /\ new[t].fCoinBase = (t \in CoinBase)
  <2>1. CASE t = o[1]
    <3>1. new[t].vout = {n \in 0 .. nOut[t] - 1 : <<t, n>> \notin S}
      <4>1. \A n : <<t, n>> = o <=> n = o[2]
        BY <1>1, <2>1
      <4> QED
        BY <1>2, <1>3, <1>4, <2>1, <4>1, SMTT(30)
    <3> QED
      BY <1>3, <1>4, <2>1, <3>1, Zenon
  <2>2. CASE t # o[1]
    <3>1. \A n : <<t, n>> # o
      BY <1>1, <2>2
    <3>2. /\ cs[t].vout = IF t \in M THEN {n \in 0 .. nOut[t] - 1 : <<t, n>> \notin S \cup {o}}
                          ELSE {}
          /\ cs[t].vout # {} => cs[t].nHeight = H[t] /\ cs[t].fCoinBase = (t \in CoinBase)
      BY Zenon DEF View
    <3>3. {n \in 0 .. nOut[t] - 1 : <<t, n>> \notin S \cup {o}}
            = {n \in 0 .. nOut[t] - 1 : <<t, n>> \notin S}
      BY <3>1, Zenon
    <3> QED
      BY <1>4, <2>2, <3>2, <3>3, Zenon
  <2> QED
    BY <2>1, <2>2, Zenon
<1> QED
  BY <1>5, Zenon DEF View, new

-----------------------------------------------------------------------------
(* One transaction *)

Firsts(s, i) == {s[j] : j \in 1 .. i}

LEMMA FirstsFacts ==
    ASSUME NEW s, NEW n \in Nat, DOMAIN s = 1 .. n
    PROVE  /\ Firsts(s, 0) = {} /\ Firsts(s, n) = Range(s)
           /\ \A i \in 1 .. n : Firsts(s, i) = Firsts(s, i - 1) \cup {s[i]}
<1>1. Firsts(s, 0) = {}
  BY DEF Firsts
<1>2. Firsts(s, n) = Range(s)
  BY Zenon DEF Firsts, Range
<1>3. ASSUME NEW i \in 1 .. n PROVE Firsts(s, i) = Firsts(s, i - 1) \cup {s[i]}
  <2>1. \A j : j \in 1 .. i <=> j \in 1 .. i - 1 \/ j = i
    BY SMTT(30)
  <2> QED
    BY <2>1, Zenon DEF Firsts
<1> QED
  BY <1>1, <1>2, <1>3, Zenon

Spending == [cs : [Txs -> Coin], rev : Seq(Coin)]

LEMMA SpendInputType ==
    ASSUME NEW s \in Spending, NEW o \in Outpoints PROVE SpendInput(s, o) \in Spending
<1>1. o[1] \in Txs /\ o[2] \in Nat /\ s.cs \in [Txs -> Coin] /\ s.rev \in Seq(Coin)
  BY Zenon DEF Outpoints, Spending
<1>2. s.cs[o[1]] \in Coin
  BY <1>1, Zenon
<1>3. SpendCoin(s.cs[o[1]], o[2]) \in Coin /\ SpendUndo(s.cs[o[1]], o[2]) \in Coin
  BY <1>1, <1>2, SpendType, Zenon
<1>4. /\ [s.cs EXCEPT ![o[1]] = SpendCoin(@, o[2])] \in [Txs -> Coin]
      /\ Append(s.rev, SpendUndo(s.cs[o[1]], o[2])) \in Seq(Coin)
  BY <1>1, <1>3
<1> QED
  BY <1>4, Zenon DEF SpendInput, Spending

\* The inputs of t are spent between the coins before and after, with undo r.
SpendsInputs(before, t, after, r) ==
    \A M, S, H :
       /\ View(before, M, S, H)
       /\ \A x \in 1 .. Len(vin[t]) :
            /\ vin[t][x] \notin S /\ vin[t][x][1] \in M
            /\ vin[t][x][2] \in 0 .. nOut[vin[t][x][1]] - 1
       => View(after, M, S \cup Range(vin[t]), H) /\ Entries(r, t, H)

Updates(s, t, k, r, cs) ==
    /\ r \in Seq(Coin) /\ cs \in [Txs -> Coin]
    /\ UpdateCoins(s, t, k) = [cs |-> [cs EXCEPT ![t] = FromTx(t, k)], rev |-> Append(s.rev, r)]
    /\ SpendsInputs(s.cs, t, cs, r)

\* UpdateCoins spends the inputs one after the other, then adds the outputs.
LEMMA UpdateFacts ==
    ASSUME Least, NEW s, s.cs \in [Txs -> Coin], NEW t \in Txs, NEW k \in Nat
    PROVE  \E r, cs : Updates(s, t, k, r, cs)
<1> DEFINE v == vin[t]
           n == Len(v)
           x0 == [cs |-> s.cs, rev |-> <<>>]
           Is(g) == g = [i \in 0 .. n |-> IF i = 0 THEN x0 ELSE SpendInput(g[i - 1], v[i])]
           spent == CHOOSE g : Is(g)
<1>1. UpdateCoins(s, t, k) =
        [cs |-> [spent[n].cs EXCEPT ![t] = FromTx(t, k)], rev |-> Append(s.rev, spent[n].rev)]
  BY Zenon DEF UpdateCoins
<1>2. /\ n \in Nat /\ DOMAIN v = 1 .. n /\ x0 \in Spending
      /\ \A i \in 1 .. n : v[i] \in Outpoints
      /\ \A i, j \in 1 .. n : v[i] = v[j] => i = j
  <2>1. x0 \in Spending
    BY SMTT(30) DEF Spending
  <2> QED
    BY <2>1, ConstantFacts, Zenon
<1>0. x0.cs = s.cs /\ x0.rev = <<>>
  BY Zenon
<1> HIDE DEF v, n, x0
<1>3. \E g : Is(g)
  <2> DEFINE D == [i \in 1 .. n |-> [p \in Spending |-> SpendInput(p, v[i])]]
  <2>1. \A i \in 1 .. n : \A p \in Spending : SpendInput(p, v[i]) \in Spending
    BY <1>2, SpendInputType, Zenon
  <2>2. D \in [1 .. n -> [Spending -> Spending]]
    BY <2>1, Zenon
  <2>3. \A i \in 1 .. n : \A p \in Spending : D[i][p] = SpendInput(p, v[i])
    BY Zenon
  <2> HIDE DEF D
  <2>4. Defines(n, Spending, x0, D)
    BY <1>2, <2>2, Recursion, Zenon
  <2>5. PICK f \in [0 .. n -> Spending] : f[0] = x0 /\ \A i \in 1 .. n : f[i] = D[i][f[i - 1]]
    BY <2>4, Zenon DEF Defines
  <2>6. ASSUME NEW i \in 0 .. n
        PROVE  f[i] = IF i = 0 THEN x0 ELSE SpendInput(f[i - 1], v[i])
    <3>1. CASE i = 0
      BY <2>5, <3>1, Zenon
    <3>2. CASE i # 0
      <4>1. i \in 1 .. n /\ i - 1 \in 0 .. n
        BY <1>2, <3>2, Indices, Zenon
      <4> QED
        BY <2>3, <2>5, <3>2, <4>1, Zenon
    <3> QED
      BY <3>1, <3>2, Zenon
  <2>7. f = [i \in 0 .. n |-> f[i]]
    BY Zenon
  <2>8. [i \in 0 .. n |-> f[i]] = [i \in 0 .. n |-> IF i = 0 THEN x0 ELSE SpendInput(f[i - 1], v[i])]
    BY <2>6, Zenon
  <2>9. Is(f)
    BY <2>7, <2>8, Zenon
  <2> QED
    BY <2>9, Zenon
<1>4. spent[0] = x0 /\ \A i \in 1 .. n : spent[i] = SpendInput(spent[i - 1], v[i])
  <2>1. Is(spent)
    BY <1>3, Zenon
  <2> HIDE DEF spent
  <2>2. \A i \in 0 .. n : spent[i] = IF i = 0 THEN x0 ELSE SpendInput(spent[i - 1], v[i])
    BY <2>1, Zenon
  <2>3. 0 \in 0 .. n /\ \A i \in 1 .. n : i \in 0 .. n /\ i # 0
    BY <1>2
  <2> QED
    BY <2>2, <2>3, Zenon
<1> HIDE DEF spent
<1>5. \A i \in 0 .. n : spent[i] \in Spending
  <2> DEFINE Done == {i \in 0 .. n : spent[i] \in Spending}
  <2>1. 0 \in Done
    <3>1. 0 \in 0 .. n
      BY <1>2
    <3> QED
      BY <1>2, <1>4, <3>1, Zenon
  <2>2. ASSUME NEW i \in 0 .. n - 1, i \in Done PROVE i + 1 \in Done
    <3>1. i + 1 \in 1 .. n /\ i + 1 \in 0 .. n /\ (i + 1) - 1 = i
      BY <1>2, Turn, Zenon
    <3>2. spent[i] \in Spending
      BY <2>2, Zenon
    <3>3. spent[i + 1] = SpendInput(spent[i], v[i + 1])
      BY <1>4, <3>1, Zenon
    <3>4. SpendInput(spent[i], v[i + 1]) \in Spending
      BY <1>2, <3>1, <3>2, SpendInputType, Zenon
    <3> QED
      BY <3>1, <3>3, <3>4, Zenon
  <2> HIDE DEF Done
  <2>3. \A i \in 0 .. n : i \in Done
    BY <1>2, <2>1, <2>2, InductionUpTo, Zenon
  <2> QED
    BY <2>3, Zenon DEF Done
<1>6. ASSUME NEW M, NEW S, NEW H, View(s.cs, M, S, H),
             \A x \in 1 .. n : v[x] \notin S /\ v[x][1] \in M /\ v[x][2] \in 0 .. nOut[v[x][1]] - 1
      PROVE  View(spent[n].cs, M, S \cup Range(v), H) /\ Entries(spent[n].rev, t, H)
  <2> DEFINE Right(i) == /\ View(spent[i].cs, M, S \cup Firsts(v, i), H)
                         /\ Len(spent[i].rev) = i
                         /\ \A x \in 1 .. i : Entry(spent[i].rev[x], v[x], H)
             Done == {i \in 0 .. n : Right(i)}
  <2>0. /\ Firsts(v, 0) = {} /\ Firsts(v, n) = Range(v)
        /\ \A i \in 1 .. n : Firsts(v, i) = Firsts(v, i - 1) \cup {v[i]}
    BY <1>2, FirstsFacts, Zenon
  <2>1. 0 \in Done
    <3>1. S \cup Firsts(v, 0) = S
      BY <2>0, Zenon
    <3>2. View(spent[0].cs, M, S \cup Firsts(v, 0), H)
      BY <1>0, <1>4, <1>6, <3>1, Zenon
    <3>3. Len(spent[0].rev) = 0 /\ 0 \in 0 .. n
      BY <1>0, <1>2, <1>4, Indices, NoTurn, Zenon
    <3> QED
      BY <3>2, <3>3, NoTurn, Zenon
  <2>2. ASSUME NEW i \in 0 .. n - 1, i \in Done PROVE i + 1 \in Done
    <3>1. i + 1 \in 1 .. n /\ i + 1 \in 0 .. n /\ (i + 1) - 1 = i /\ i \in Nat /\ i \in 0 .. n
      BY <1>2, Turn, Zenon
    <3> DEFINE o == v[i + 1]
               p == spent[i]
               q == SpendUndo(p.cs[o[1]], o[2])
    <3>2. /\ View(p.cs, M, S \cup Firsts(v, i), H) /\ Len(p.rev) = i
          /\ \A x \in 1 .. i : Entry(p.rev[x], v[x], H)
      BY <2>2, Zenon
    <3>3. p.cs \in [Txs -> Coin] /\ p.rev \in Seq(Coin) /\ o \in Outpoints
      <4>1. p \in Spending /\ o \in Outpoints
        BY <1>2, <1>5, <3>1, Zenon
      <4> QED
        BY <4>1, Zenon DEF Spending
    <3>4. spent[i + 1] = SpendInput(p, o)
      BY <1>4, <3>1, Zenon
    <3>5. o \notin S \cup Firsts(v, i)
      <4>1. \A j \in 1 .. i : j \in 1 .. n /\ j # i + 1
        BY <1>2, Turn, Zenon
      <4>2. o \notin Firsts(v, i)
        BY <1>2, <3>1, <4>1, Zenon DEF Firsts
      <4> QED
        BY <1>6, <3>1, <4>2, Zenon
    <3>6. /\ View([p.cs EXCEPT ![o[1]] = SpendCoin(@, o[2])], M, (S \cup Firsts(v, i)) \cup {o}, H)
          /\ Entry(q, o, H)
      <4>1. o[1] \in M /\ o[2] \in 0 .. nOut[o[1]] - 1
        BY <1>6, <3>1, Zenon
      <4> HIDE DEF o, p
      <4> QED
        BY <3>2, <3>3, <3>5, <4>1, SpendView, Zenon
    <3> HIDE DEF o, p, q
    <3>7. /\ spent[i + 1].cs = [p.cs EXCEPT ![o[1]] = SpendCoin(@, o[2])]
          /\ spent[i + 1].rev = Append(p.rev, q)
      BY <3>4 DEF SpendInput, q
    <3>8. (S \cup Firsts(v, i)) \cup {o} = S \cup Firsts(v, i + 1)
      <4>1. Firsts(v, i + 1) = Firsts(v, i) \cup {o}
        BY <2>0, <3>1, Zenon DEF o
      <4> QED
        BY <4>1, Zenon
    <3>9. View(spent[i + 1].cs, M, S \cup Firsts(v, i + 1), H)
      BY <3>6, <3>7, <3>8, Zenon
    <3>10. q \in Coin
      BY <3>6, Zenon DEF Entry
    <3>11. /\ Len(spent[i + 1].rev) = i + 1 /\ spent[i + 1].rev[i + 1] = q
           /\ \A x \in 1 .. i : spent[i + 1].rev[x] = p.rev[x]
      <4>1. Len(p.rev) = i /\ p.rev \in Seq(Coin) /\ spent[i + 1].rev = Append(p.rev, q)
        BY <3>2, <3>3, <3>7, Zenon
      <4>2. Longer(Coin, p.rev, q, Append(p.rev, q))
        BY <3>10, <4>1, AppendFacts, Zenon
      <4>3. Longer(Coin, p.rev, q, spent[i + 1].rev)
        BY <4>1, <4>2, Zenon
      <4> QED
        BY <4>1, <4>3, Zenon DEF Longer
    <3>12. \A x \in 1 .. i + 1 : x \in 1 .. i \/ x = i + 1
      BY <1>2, Turn, Zenon
    <3>13. \A x \in 1 .. i + 1 : Entry(spent[i + 1].rev[x], v[x], H)
      BY <3>2, <3>6, <3>11, <3>12, Zenon DEF o
    <3> QED
      BY <3>1, <3>9, <3>11, <3>13, Zenon
  <2> HIDE DEF Done
  <2>3. \A i \in 0 .. n : i \in Done
    BY <1>2, <2>1, <2>2, InductionUpTo, Zenon
  <2>4. n \in Done /\ n \in 0 .. n
    BY <1>2, <2>3, Indices, Zenon
  <2>5. Right(n)
    BY <2>4, Zenon DEF Done
  <2>6. spent[n].rev \in Seq(Coin)
    <3>1. spent[n] \in Spending
      BY <1>5, <2>4, Zenon
    <3> QED
      BY <3>1, Zenon DEF Spending
  <2> QED
    BY <1>2, <2>0, <2>5, <2>6, Zenon DEF Entries, v, n
<1>7. spent[n].cs \in [Txs -> Coin] /\ spent[n].rev \in Seq(Coin)
  <2>1. spent[n] \in Spending
    <3>1. n \in 0 .. n
      BY <1>2, Indices, Zenon
    <3> QED
      BY <1>5, <3>1, Zenon
  <2> QED
    BY <2>1, Zenon DEF Spending
<1>8. SpendsInputs(s.cs, t, spent[n].cs, spent[n].rev)
  BY <1>6, Zenon DEF SpendsInputs, v, n
<1> QED
  BY <1>1, <1>7, <1>8, Zenon DEF Updates

LEMMA UpdateType ==
    ASSUME Least, NEW s, s.cs \in [Txs -> Coin], s.rev \in Seq(Seq(Coin)), NEW t \in Txs, NEW k \in Nat
    PROVE  UpdateCoins(s, t, k).cs \in [Txs -> Coin] /\ UpdateCoins(s, t, k).rev \in Seq(Seq(Coin))
<1>1. PICK r, cs : Updates(s, t, k, r, cs)
  BY UpdateFacts, Zenon
<1>2. FromTx(t, k) \in Coin
  BY EmptyFacts, Zenon
<1> QED
  BY <1>1, <1>2 DEF Updates

Applied == [ok : BOOLEAN, cs : [Txs -> Coin], rev : Seq(Seq(Coin))]

LEMMA AppliedFields ==
    \A s \in Applied : s.ok \in BOOLEAN /\ s.cs \in [Txs -> Coin] /\ s.rev \in Seq(Seq(Coin))
BY Zenon DEF Applied

LEMMA ApplyType ==
    ASSUME Least, NEW s \in Applied, NEW t \in Txs, NEW k \in Nat
    PROVE  ApplyTx(s, t, k) \in Applied
<1>1. s.ok \in BOOLEAN /\ s.cs \in [Txs -> Coin] /\ s.rev \in Seq(Seq(Coin))
  BY AppliedFields, Zenon
<1>2. UpdateCoins(s, t, k).cs \in [Txs -> Coin] /\ UpdateCoins(s, t, k).rev \in Seq(Seq(Coin))
  BY <1>1, UpdateType, Zenon
<1>3. (s.ok /\ CheckInputs(s.cs, t, k)) \in BOOLEAN
  BY <1>1, Zenon DEF CheckInputs
<1> QED
  BY <1>2, <1>3, Zenon DEF ApplyTx, Applied

UndoAdded(s, t, H, new) == \E r : Entries(r, t, H) /\ new.rev = Append(s.rev, r)

\* A transaction that CheckInputs accepts is new, and spends outputs of others
\* that nobody spent.
LEMMA ApplyFacts ==
    ASSUME Least, NEW s \in Applied, NEW t \in Txs, NEW k \in Nat, NEW M, NEW S, NEW H,
           View(s.cs, M, S, H), Booked(M, S), CheckInputs(s.cs, t, k),
           t \in CoinBase => t \notin M, t \notin M => H[t] = k
    PROVE  /\ t \notin M
           /\ \A o \in Range(vin[t]) : Spendable(o, M, S, H, k)
           /\ View(ApplyTx(s, t, k).cs, M \cup {t}, S \cup Range(vin[t]), H)
           /\ Booked(M \cup {t}, S \cup Range(vin[t]))
           /\ UndoAdded(s, t, H, ApplyTx(s, t, k))
<1> DEFINE v == vin[t]
           n == Len(v)
<1>1. /\ n \in Nat /\ DOMAIN v = 1 .. n /\ \A i \in 1 .. n : v[i] \in Outpoints
      /\ t \notin CoinBase => 1 \in 1 .. n
  BY ConstantFacts, Zenon
<1>2. s.cs \in [Txs -> Coin]
  BY AppliedFields, Zenon
<1>3. ASSUME NEW x \in 1 .. n PROVE Spendable(v[x], M, S, H, k)
  <2> DEFINE o == v[x]
             c == s.cs[o[1]]
  <2>1. o[1] \in Txs /\ o = <<o[1], o[2]>>
    <3>1. o \in Outpoints
      BY <1>1, Zenon
    <3> QED
      BY <3>1 DEF Outpoints
  <2>2. o[2] \in c.vout /\ (c.fCoinBase => k - c.nHeight >= Maturity)
    BY <1>1, Zenon DEF CheckInputs, IsAvailable
  <2> HIDE DEF o
  <2>3. /\ c.vout = IF o[1] \in M THEN {m \in 0 .. nOut[o[1]] - 1 : <<o[1], m>> \notin S} ELSE {}
        /\ c.vout # {} => c.nHeight = H[o[1]] /\ c.fCoinBase = (o[1] \in CoinBase)
    BY <2>1, Zenon DEF View
  <2> HIDE DEF c
  <2>4. o[1] \in M
    BY <2>2, <2>3, Zenon
  <2>5. o[2] \in 0 .. nOut[o[1]] - 1 /\ <<o[1], o[2]>> \notin S
    BY <2>2, <2>3, <2>4, Zenon
  <2>6. c.nHeight = H[o[1]] /\ c.fCoinBase = (o[1] \in CoinBase)
    BY <2>2, <2>3, Zenon
  <2>7. o[1] \in CoinBase => k - H[o[1]] >= Maturity
    BY <2>2, <2>6, Zenon
  <2>8. o \notin S
    BY <2>1, <2>5, Zenon
  <2> QED
    BY <2>4, <2>5, <2>7, <2>8, Zenon DEF Spendable, o
<1>4. t \notin M
  <2>1. ASSUME t \in M PROVE FALSE
    <3>1. 1 \in 1 .. n /\ Range(v) \subseteq S
      BY <1>1, <2>1, Zenon DEF Booked
    <3>2. v[1] \in Range(v) /\ v[1] \notin S
      BY <1>1, <1>3, <3>1, Zenon DEF Range, Spendable
    <3> QED
      BY <3>1, <3>2, Zenon
  <2> QED
    BY <2>1, Zenon
<1>5. \A o \in Range(v) : Spendable(o, M, S, H, k) /\ o \in Outpoints
  BY <1>1, <1>3, Zenon DEF Range
<1>6. PICK r, cs :
         /\ cs \in [Txs -> Coin]
         /\ UpdateCoins(s, t, k) = [cs |-> [cs EXCEPT ![t] = FromTx(t, k)], rev |-> Append(s.rev, r)]
         /\ View(cs, M, S \cup Range(v), H) /\ Entries(r, t, H)
  <2>1. PICK r, cs : Updates(s, t, k, r, cs)
    BY <1>2, UpdateFacts, Zenon
  <2>2. \A x \in 1 .. Len(vin[t]) :
                        /\ vin[t][x] \notin S /\ vin[t][x][1] \in M
                        /\ vin[t][x][2] \in 0 .. nOut[vin[t][x][1]] - 1
    BY <1>3, Zenon DEF Spendable
  <2>3. View(cs, M, S \cup Range(v), H) /\ Entries(r, t, H)
    BY <2>1, <2>2, Zenon DEF SpendsInputs, Updates
  <2> QED
    BY <2>1, <2>3, Zenon DEF Updates
<1>7. ApplyTx(s, t, k).cs = [cs EXCEPT ![t] = FromTx(t, k)] /\ ApplyTx(s, t, k).rev = Append(s.rev, r)
  <2> DEFINE w == UpdateCoins(s, t, k)
             A == [cs EXCEPT ![t] = FromTx(t, k)]
             B == Append(s.rev, r)
  <2>1. ApplyTx(s, t, k).cs = w.cs /\ ApplyTx(s, t, k).rev = w.rev
    BY Zenon DEF ApplyTx
  <2>2. w = [cs |-> A, rev |-> B]
    BY <1>6, Zenon
  <2> HIDE DEF A, B, w
  <2>3. w.cs = A /\ w.rev = B
    BY <2>2, Zenon
  <2> QED
    BY <2>1, <2>3, Zenon DEF A, B, w
<1>8. Booked(M \cup {t}, S \cup Range(v))
  BY <1>5, Zenon DEF Booked, Spendable
<1> DEFINE new == [cs EXCEPT ![t] = FromTx(t, k)]
<1>9. View(new, M \cup {t}, S \cup Range(v), H)
  <2>0. cs \in [Txs -> Coin]
    BY <1>6, Zenon
  <2>1. new[t] = FromTx(t, k) /\ \A u \in Txs : u # t => new[u] = cs[u]
    BY <2>0, Zenon
  <2> HIDE DEF new, v
  <2>2. \A m : <<t, m>> \notin S \cup Range(v)
    <3>1. \A o \in S \cup Range(v) : o[1] # t
      BY <1>4, <1>5, Zenon DEF Booked, Spendable
    <3>2. \A m : <<t, m>>[1] = t
      BY Zenon
    <3> QED
      BY <3>1, <3>2, Zenon
  <2>3. ASSUME NEW u \in Txs
        PROVE  /\ new[u].vout = IF u \in M \cup {t}
                                THEN {m \in 0 .. nOut[u] - 1 : <<u, m>> \notin S \cup Range(v)}
                                ELSE {}
               /\ new[u].vout # {} => new[u].nHeight = H[u] /\ new[u].fCoinBase = (u \in CoinBase)
    <3>1. CASE u = t
      <4>1. {m \in 0 .. nOut[t] - 1 : <<t, m>> \notin S \cup Range(v)} = 0 .. nOut[t] - 1
        BY <2>2, Zenon
      <4>2. /\ new[t].vout = 0 .. nOut[t] - 1
            /\ new[t].nHeight = k /\ new[t].fCoinBase = (t \in CoinBase)
        <5>1. /\ FromTx(t, k).vout = 0 .. nOut[t] - 1
              /\ FromTx(t, k).nHeight = k /\ FromTx(t, k).fCoinBase = (t \in CoinBase)
          BY EmptyFacts, Zenon
        <5> QED
          BY <2>1, <5>1, Zenon
      <4> QED
        BY <1>4, <3>1, <4>1, <4>2, Zenon
    <3>2. CASE u # t
      <4>1. u \in M \cup {t} <=> u \in M
        BY <3>2, Zenon
      <4>2. /\ cs[u].vout = IF u \in M
                            THEN {m \in 0 .. nOut[u] - 1 : <<u, m>> \notin S \cup Range(v)}
                            ELSE {}
            /\ cs[u].vout # {} => cs[u].nHeight = H[u] /\ cs[u].fCoinBase = (u \in CoinBase)
        BY <1>6, Zenon DEF View
      <4> QED
        BY <2>1, <3>2, <4>1, <4>2, Zenon
    <3> QED
      BY <3>1, <3>2, Zenon
  <2> QED
    BY <2>3, Zenon DEF View
<1> QED
  BY <1>4, <1>5, <1>6, <1>7, <1>8, <1>9, Zenon DEF UndoAdded

-----------------------------------------------------------------------------
(* One block *)

Inputs(b, i) == UNION {Range(vin[b[j]]) : j \in 1 .. i}

LEMMA InputsFacts ==
    ASSUME NEW b, NEW n \in Nat
    PROVE  /\ Inputs(b, 0) = {}
           /\ \A i \in 1 .. n : Inputs(b, i) = Inputs(b, i - 1) \cup Range(vin[b[i]])
<1>1. Inputs(b, 0) = {}
  BY DEF Inputs
<1>2. ASSUME NEW i \in 1 .. n PROVE Inputs(b, i) = Inputs(b, i - 1) \cup Range(vin[b[i]])
  <2>1. \A j : j \in 1 .. i <=> j \in 1 .. i - 1 \/ j = i
    OBVIOUS
  <2> QED
    BY <2>1, Zenon DEF Inputs
<1> QED
  BY <1>1, <1>2, Zenon

\* The j-th transaction of b, with undo data e, in a block at height k on top of
\* a chain that mined M and spent S.
Fits(b, j, e, M, S, H, k) ==
    /\ b[j] \notin M \cup Firsts(b, j - 1) /\ H[b[j]] = k
    /\ \A o \in Range(vin[b[j]]) :
          Spendable(o, M \cup Firsts(b, j - 1), S \cup Inputs(b, j - 1), H, k)
    /\ Entries(e, b[j], H)

LEMMA BlockFacts ==
    ASSUME NEW b \in Blocks
    PROVE  /\ b \in Seq(Txs) /\ Len(b) \in Nat /\ DOMAIN b = 1 .. Len(b)
           /\ \A i \in 1 .. Len(b) : b[i] \in Txs /\ (b[i] \in CoinBase => i = 1)
<1>1. b \in Seq(Txs) /\ \A i \in DOMAIN b : b[i] \in CoinBase => i = 1
  BY ConstantsAssumption, Zenon
<1> QED
  BY <1>1

\* The state after a block that ConnectBlock accepts on top of such a chain.
Accepted(b, k, M, S, H, new) ==
    /\ new.cs \in [Txs -> Coin]
    /\ new.rev \in Seq(Seq(Coin)) /\ Len(new.rev) = Len(b)
    /\ \A j \in 1 .. Len(b) : Fits(b, j, new.rev[j], M, S, H, k)
    /\ View(new.cs, M \cup Range(b), S \cup Inputs(b, Len(b)), H)
    /\ Booked(M \cup Range(b), S \cup Inputs(b, Len(b)))

\* What a block leaves when ConnectBlock accepts every transaction of it.
LEMMA ApplyBlockFacts ==
    ASSUME Least, NEW cs \in [Txs -> Coin], NEW b \in Blocks, NEW k \in Nat, NEW M, NEW S, NEW H,
           View(cs, M, S, H), Booked(M, S),
           \A i \in 1 .. Len(b) : b[i] \in CoinBase => b[i] \notin M,
           \A t \in Txs : t \notin M => H[t] = k,
           ApplyBlock(cs, b, k).ok
    PROVE  Accepted(b, k, M, S, H, ApplyBlock(cs, b, k))
<1> DEFINE n == Len(b)
           x0 == [ok |-> TRUE, cs |-> cs, rev |-> <<>>]
           Is(g) == g = [i \in 0 .. n |-> IF i = 0 THEN x0 ELSE ApplyTx(g[i - 1], b[i], k)]
           applied == CHOOSE g : Is(g)
<1>1. ApplyBlock(cs, b, k) = applied[n]
  BY Zenon DEF ApplyBlock
<1>2. /\ n \in Nat /\ DOMAIN b = 1 .. n /\ x0 \in Applied
      /\ \A i \in 1 .. n : b[i] \in Txs /\ (b[i] \in CoinBase => i = 1)
  <2>1. x0 \in Applied
    BY EmptySequence, Zenon DEF Applied
  <2> QED
    BY <2>1, BlockFacts, Zenon
<1>0. x0.cs = cs /\ x0.rev = <<>>
  BY Zenon
<1> HIDE DEF n, x0
<1>3. \E g : Is(g)
  <2> DEFINE D == [i \in 1 .. n |-> [p \in Applied |-> ApplyTx(p, b[i], k)]]
  <2>1. \A i \in 1 .. n : \A p \in Applied : ApplyTx(p, b[i], k) \in Applied
    BY <1>2, ApplyType, Zenon
  <2>2. D \in [1 .. n -> [Applied -> Applied]]
    BY <2>1, Zenon
  <2>3. \A i \in 1 .. n : \A p \in Applied : D[i][p] = ApplyTx(p, b[i], k)
    BY Zenon
  <2> HIDE DEF D
  <2>4. Defines(n, Applied, x0, D)
    BY <1>2, <2>2, Recursion, Zenon
  <2>5. PICK f \in [0 .. n -> Applied] : f[0] = x0 /\ \A i \in 1 .. n : f[i] = D[i][f[i - 1]]
    BY <2>4, Zenon DEF Defines
  <2>6. ASSUME NEW i \in 0 .. n
        PROVE  f[i] = IF i = 0 THEN x0 ELSE ApplyTx(f[i - 1], b[i], k)
    <3>1. CASE i = 0
      BY <2>5, <3>1, Zenon
    <3>2. CASE i # 0
      <4>1. i \in 1 .. n /\ i - 1 \in 0 .. n
        BY <1>2, <3>2, Indices, Zenon
      <4> QED
        BY <2>3, <2>5, <3>2, <4>1, Zenon
    <3> QED
      BY <3>1, <3>2, Zenon
  <2>7. f = [i \in 0 .. n |-> f[i]]
    BY Zenon
  <2>8. [i \in 0 .. n |-> f[i]] = [i \in 0 .. n |-> IF i = 0 THEN x0 ELSE ApplyTx(f[i - 1], b[i], k)]
    BY <2>6, Zenon
  <2>9. Is(f)
    BY <2>7, <2>8, Zenon
  <2> QED
    BY <2>9, Zenon
<1>4. applied[0] = x0 /\ \A i \in 1 .. n : applied[i] = ApplyTx(applied[i - 1], b[i], k)
  <2>1. Is(applied)
    BY <1>3, Zenon
  <2> HIDE DEF applied
  <2>2. \A i \in 0 .. n : applied[i] = IF i = 0 THEN x0 ELSE ApplyTx(applied[i - 1], b[i], k)
    BY <2>1, Zenon
  <2>3. 0 \in 0 .. n /\ \A i \in 1 .. n : i \in 0 .. n /\ i # 0
    BY <1>2
  <2> QED
    BY <2>2, <2>3, Zenon
<1> HIDE DEF applied
<1>5. \A i \in 0 .. n : applied[i] \in Applied
  <2> DEFINE Done == {i \in 0 .. n : applied[i] \in Applied}
  <2>1. 0 \in Done
    <3>1. 0 \in 0 .. n
      BY <1>2
    <3> QED
      BY <1>2, <1>4, <3>1, Zenon
  <2>2. ASSUME NEW i \in 0 .. n - 1, i \in Done PROVE i + 1 \in Done
    <3>1. i + 1 \in 1 .. n /\ i + 1 \in 0 .. n /\ (i + 1) - 1 = i
      BY <1>2, Turn, Zenon
    <3>2. applied[i] \in Applied
      BY <2>2, Zenon
    <3>3. applied[i + 1] = ApplyTx(applied[i], b[i + 1], k)
      BY <1>4, <3>1, Zenon
    <3>4. ApplyTx(applied[i], b[i + 1], k) \in Applied
      BY <1>2, <3>1, <3>2, ApplyType, Zenon
    <3> QED
      BY <3>1, <3>3, <3>4, Zenon
  <2> HIDE DEF Done
  <2>3. \A i \in 0 .. n : i \in Done
    BY <1>2, <2>1, <2>2, InductionUpTo, Zenon
  <2> QED
    BY <2>3, Zenon DEF Done
<1>6. /\ Firsts(b, 0) = {} /\ Firsts(b, n) = Range(b)
      /\ \A i \in 1 .. n : Firsts(b, i) = Firsts(b, i - 1) \cup {b[i]}
  BY <1>2, FirstsFacts, Zenon
<1>7. /\ Inputs(b, 0) = {}
      /\ \A i \in 1 .. n : Inputs(b, i) = Inputs(b, i - 1) \cup Range(vin[b[i]])
  BY <1>2, InputsFacts, Zenon
<1> DEFINE Right(i) == /\ View(applied[i].cs, M \cup Firsts(b, i), S \cup Inputs(b, i), H)
                       /\ Booked(M \cup Firsts(b, i), S \cup Inputs(b, i))
                       /\ Len(applied[i].rev) = i
                       /\ \A j \in 1 .. i : Fits(b, j, applied[i].rev[j], M, S, H, k)
           Done == {i \in 0 .. n : applied[i].ok => Right(i)}
<1>8. 0 \in Done
  <2>1. M \cup Firsts(b, 0) = M /\ S \cup Inputs(b, 0) = S
    BY <1>6, <1>7, Zenon
  <2>2. Len(applied[0].rev) = 0 /\ 0 \in 0 .. n
    BY <1>0, <1>2, <1>4, Indices, NoTurn, Zenon
  <2>3. \A j \in 1 .. 0 : FALSE
    BY NoTurn, Zenon
  <2>4. applied[0].cs = cs
    BY <1>0, <1>4, Zenon
  <2> QED
    BY <2>1, <2>2, <2>3, <2>4, Zenon
<1>9. ASSUME NEW i \in 0 .. n - 1, i \in Done PROVE i + 1 \in Done
  <2>1. i + 1 \in 1 .. n /\ i + 1 \in 0 .. n /\ (i + 1) - 1 = i /\ i \in Nat /\ i \in 0 .. n
    BY <1>2, Turn, Zenon
  <2>0. applied[i + 1].ok => Right(i + 1)
    <3> DEFINE p == applied[i]
               t == b[i + 1]
               A == M \cup Firsts(b, i)
               Z == S \cup Inputs(b, i)
    <3> SUFFICES ASSUME applied[i + 1].ok PROVE Right(i + 1)
      BY Zenon
    <3>1. applied[i + 1] = ApplyTx(p, t, k) /\ p \in Applied /\ t \in Txs
      BY <1>2, <1>4, <1>5, <2>1, Zenon
    <3>2. p.ok /\ CheckInputs(p.cs, t, k)
      <4>1. ApplyTx(p, t, k).ok = (p.ok /\ CheckInputs(p.cs, t, k))
        BY Zenon DEF ApplyTx
      <4> QED
        BY <3>1, <4>1, Zenon
    <3>3. Right(i)
      BY <1>9, <3>2, Zenon
    <3>4. t \in CoinBase => t \notin A
      <4>1. ASSUME t \in CoinBase PROVE t \notin A
        <5>1. i + 1 = 1 /\ t \notin M
          BY <1>2, <2>1, <4>1, Zenon DEF n
        <5>2. i = 0
          BY <1>2, <5>1, Turn, Zenon
        <5>3. A = M
          BY <1>6, <5>2, Zenon
        <5> QED
          BY <5>1, <5>3, Zenon
      <4> QED
        BY <4>1, Zenon
    <3>5. t \notin A => H[t] = k
      BY <3>1, Zenon
    <3> HIDE DEF p, t, A, Z
    <3>6. View(p.cs, A, Z, H) /\ Booked(A, Z) /\ Len(p.rev) = i
      BY <3>3, Zenon DEF p, A, Z
    <3>7. /\ t \notin A
          /\ \A o \in Range(vin[t]) : Spendable(o, A, Z, H, k)
          /\ View(ApplyTx(p, t, k).cs, A \cup {t}, Z \cup Range(vin[t]), H)
          /\ Booked(A \cup {t}, Z \cup Range(vin[t]))
          /\ UndoAdded(p, t, H, ApplyTx(p, t, k))
      BY <3>1, <3>2, <3>4, <3>5, <3>6, ApplyFacts, Zenon
    <3>8. A \cup {t} = M \cup Firsts(b, i + 1) /\ Z \cup Range(vin[t]) = S \cup Inputs(b, i + 1)
      <4>1. Firsts(b, i + 1) = Firsts(b, i) \cup {t} /\ Inputs(b, i + 1) = Inputs(b, i) \cup Range(vin[t])
        BY <1>6, <1>7, <2>1, Zenon DEF t
      <4> QED
        BY <4>1, Zenon DEF A, Z
    <3>9. /\ View(applied[i + 1].cs, M \cup Firsts(b, i + 1), S \cup Inputs(b, i + 1), H)
          /\ Booked(M \cup Firsts(b, i + 1), S \cup Inputs(b, i + 1))
      BY <3>1, <3>7, <3>8, Zenon
    <3>10. PICK r : Entries(r, t, H) /\ applied[i + 1].rev = Append(p.rev, r)
      BY <3>1, <3>7, Zenon DEF UndoAdded
    <3>11. r \in Seq(Coin) /\ p.rev \in Seq(Seq(Coin))
      BY <3>1, <3>10, AppliedFields, Zenon DEF Entries
    <3>12. /\ Len(applied[i + 1].rev) = i + 1 /\ applied[i + 1].rev[i + 1] = r
           /\ \A j \in 1 .. i : applied[i + 1].rev[j] = p.rev[j]
      <4>1. Longer(Seq(Coin), p.rev, r, applied[i + 1].rev)
        BY <3>10, <3>11, AppendFacts, Zenon
      <4> QED
        BY <3>6, <4>1, Zenon DEF Longer
    <3>13. \A j \in 1 .. i + 1 : j \in 1 .. i \/ j = i + 1
      BY <1>2, Turn, Zenon
    <3>14. Fits(b, i + 1, r, M, S, H, k)
      BY <2>1, <3>5, <3>7, <3>10, Zenon DEF Fits, t, A, Z
    <3>15. ASSUME NEW j \in 1 .. i + 1 PROVE Fits(b, j, applied[i + 1].rev[j], M, S, H, k)
      BY <3>3, <3>12, <3>13, <3>14, Zenon DEF p
    <3> QED
      BY <3>9, <3>12, <3>15, Zenon
  <2> QED
    BY <2>0, <2>1, Zenon
<1> HIDE DEF Done
<1>10. \A i \in 0 .. n : i \in Done
  BY <1>2, <1>8, <1>9, InductionUpTo, Zenon
<1>11. n \in Done /\ n \in 0 .. n
  BY <1>2, <1>10, Indices, Zenon
<1>12. Right(n)
  BY <1>1, <1>11, Zenon DEF Done
<1>13. applied[n].cs \in [Txs -> Coin] /\ applied[n].rev \in Seq(Seq(Coin))
  <2>1. applied[n] \in Applied
    BY <1>5, <1>11, Zenon
  <2> QED
    BY <2>1, AppliedFields, Zenon
<1> QED
  BY <1>1, <1>6, <1>12, <1>13, Zenon DEF Accepted, n

-----------------------------------------------------------------------------
(* Undoing *)

Undone == [clean : BOOLEAN, cs : [Txs -> Coin]]

LEMMA UndoneFields == \A s \in Undone : s.clean \in BOOLEAN /\ s.cs \in [Txs -> Coin]
BY Zenon DEF Undone

LEMMA UndoInputType ==
    ASSUME NEW s \in Undone, NEW o \in Outpoints, NEW u \in Coin PROVE UndoInput(s, o, u) \in Undone
<1>1. o[1] \in Txs /\ o[2] \in Nat /\ s.cs \in [Txs -> Coin] /\ s.clean \in BOOLEAN
  BY Zenon DEF Outpoints, Undone
<1>2. s.cs[o[1]] \in Coin
  BY <1>1, Zenon
<1>3. RestoreInput(s.cs[o[1]], o[2], u) \in Coin
  BY <1>1, <1>2, RestoreType, Zenon
<1>4. [s.cs EXCEPT ![o[1]] = RestoreInput(@, o[2], u)] \in [Txs -> Coin]
  BY <1>1, <1>3, Zenon
<1>5. (s.clean /\ CleanInput(s.cs[o[1]], o[2], u)) \in BOOLEAN
  BY <1>1, Zenon DEF CleanInput
<1> QED
  BY <1>4, <1>5, Zenon DEF UndoInput, Undone

\* From a state with t on top of a chain that mined M and spent S, the state d
\* without it.
TakesOff(s, t, r, d) ==
    \A M, S, H :
       /\ t \notin M /\ Entries(r, t, H)
       /\ \A x \in 1 .. Len(vin[t]) :
            /\ vin[t][x] \notin S /\ vin[t][x][1] \in M
            /\ vin[t][x][2] \in 0 .. nOut[vin[t][x][1]] - 1
       /\ s.clean => View(s.cs, M \cup {t}, S \cup Range(vin[t]), H)
       => (d.clean => View(d.cs, M, S, H))

LEMMA UndoTxFacts ==
    ASSUME Least, NEW s \in Undone, NEW t \in Txs, NEW k \in Nat,
           NEW r \in Seq(Coin), Len(r) = Len(vin[t])
    PROVE  UndoTx(s, t, r, k) \in Undone /\ TakesOff(s, t, r, UndoTx(s, t, r, k))
<1> DEFINE v == vin[t]
           n == Len(v)
           x0 == [clean |-> s.clean /\ SameCoins(s.cs[t], FromTx(t, k)),
                  cs |-> [s.cs EXCEPT ![t] = Empty]]
           Is(g) == g = [i \in 0 .. n |->
                           IF i = 0 THEN x0 ELSE UndoInput(g[i - 1], v[n + 1 - i], r[n + 1 - i])]
           restored == CHOOSE g : Is(g)
<1>1. UndoTx(s, t, r, k) = restored[n]
  BY Zenon DEF UndoTx
<1>0. x0.cs = [s.cs EXCEPT ![t] = Empty] /\ x0.clean = (s.clean /\ SameCoins(s.cs[t], FromTx(t, k)))
  BY Zenon
<1>2. /\ n \in Nat /\ DOMAIN v = 1 .. n /\ x0 \in Undone /\ s.cs \in [Txs -> Coin]
      /\ \A i \in 1 .. n : v[i] \in Outpoints /\ r[i] \in Coin
      /\ \A i, j \in 1 .. n : v[i] = v[j] => i = j
      /\ \A i \in 1 .. n : v[n + 1 - i] \in Outpoints /\ r[n + 1 - i] \in Coin
  <2>1. s.clean \in BOOLEAN /\ s.cs \in [Txs -> Coin]
    BY UndoneFields, Zenon
  <2>2. (s.clean /\ SameCoins(s.cs[t], FromTx(t, k))) \in BOOLEAN
    BY <2>1, Zenon DEF SameCoins
  <2>3. [s.cs EXCEPT ![t] = Empty] \in [Txs -> Coin]
    BY <2>1, EmptyFacts, Zenon
  <2>4. x0 \in Undone
    BY <2>2, <2>3, Zenon DEF Undone
  <2>5. /\ n \in Nat /\ DOMAIN v = 1 .. n /\ \A i \in 1 .. n : v[i] \in Outpoints
        /\ \A i, j \in 1 .. n : v[i] = v[j] => i = j
    BY ConstantFacts, Zenon
  <2> HIDE DEF v
  <2>6. n = Len(r)
    BY Zenon DEF v
  <2> HIDE DEF n
  <2>7. \A i \in 1 .. n : r[i] \in Coin
    BY <2>5, <2>6
  <2>8. \A i \in 1 .. n : n + 1 - i \in 1 .. n
    BY <2>5
  <2> QED
    BY <2>1, <2>4, <2>5, <2>7, <2>8, Zenon
<1> HIDE DEF v, n, x0
<1>3. \E g : Is(g)
  <2> DEFINE D == [i \in 1 .. n |-> [p \in Undone |-> UndoInput(p, v[n + 1 - i], r[n + 1 - i])]]
  <2>1. \A i \in 1 .. n : \A p \in Undone : UndoInput(p, v[n + 1 - i], r[n + 1 - i]) \in Undone
    BY <1>2, UndoInputType, Zenon
  <2>2. D \in [1 .. n -> [Undone -> Undone]]
    BY <2>1, Zenon
  <2>3. \A i \in 1 .. n : \A p \in Undone : D[i][p] = UndoInput(p, v[n + 1 - i], r[n + 1 - i])
    BY Zenon
  <2> HIDE DEF D
  <2>4. Defines(n, Undone, x0, D)
    BY <1>2, <2>2, Recursion, Zenon
  <2>5. PICK f \in [0 .. n -> Undone] : f[0] = x0 /\ \A i \in 1 .. n : f[i] = D[i][f[i - 1]]
    BY <2>4, Zenon DEF Defines
  <2>6. ASSUME NEW i \in 0 .. n
        PROVE  f[i] = IF i = 0 THEN x0 ELSE UndoInput(f[i - 1], v[n + 1 - i], r[n + 1 - i])
    <3>1. CASE i = 0
      BY <2>5, <3>1, Zenon
    <3>2. CASE i # 0
      <4>1. i \in 1 .. n /\ i - 1 \in 0 .. n
        BY <1>2, <3>2, Indices, Zenon
      <4> QED
        BY <2>3, <2>5, <3>2, <4>1, Zenon
    <3> QED
      BY <3>1, <3>2, Zenon
  <2>7. f = [i \in 0 .. n |-> f[i]]
    BY Zenon
  <2>8. [i \in 0 .. n |-> f[i]] = [i \in 0 .. n |-> IF i = 0 THEN x0 ELSE UndoInput(f[i - 1], v[n + 1 - i], r[n + 1 - i])]
    BY <2>6, Zenon
  <2>9. Is(f)
    BY <2>7, <2>8, Zenon
  <2> QED
    BY <2>9, Zenon
<1>4. restored[0] = x0 /\ \A i \in 1 .. n : restored[i] = UndoInput(restored[i - 1], v[n + 1 - i], r[n + 1 - i])
  <2>1. Is(restored)
    BY <1>3, Zenon
  <2> HIDE DEF restored
  <2>2. \A i \in 0 .. n : restored[i] = IF i = 0 THEN x0 ELSE UndoInput(restored[i - 1], v[n + 1 - i], r[n + 1 - i])
    BY <2>1, Zenon
  <2>3. 0 \in 0 .. n /\ \A i \in 1 .. n : i \in 0 .. n /\ i # 0
    BY <1>2
  <2> QED
    BY <2>2, <2>3, Zenon
<1> HIDE DEF restored
<1>5. \A i \in 0 .. n : restored[i] \in Undone
  <2> DEFINE Done == {i \in 0 .. n : restored[i] \in Undone}
  <2>1. 0 \in Done
    <3>1. 0 \in 0 .. n
      BY <1>2
    <3> QED
      BY <1>2, <1>4, <3>1, Zenon
  <2>2. ASSUME NEW i \in 0 .. n - 1, i \in Done PROVE i + 1 \in Done
    <3>1. i + 1 \in 1 .. n /\ i + 1 \in 0 .. n /\ (i + 1) - 1 = i
      BY <1>2, Turn, Zenon
    <3>2. restored[i] \in Undone
      BY <2>2, Zenon
    <3>3. restored[i + 1] = UndoInput(restored[i], v[n + 1 - (i + 1)], r[n + 1 - (i + 1)])
      BY <1>4, <3>1, Zenon
    <3>4. UndoInput(restored[i], v[n + 1 - (i + 1)], r[n + 1 - (i + 1)]) \in Undone
      BY <1>2, <3>1, <3>2, UndoInputType, Zenon
    <3> QED
      BY <3>1, <3>3, <3>4, Zenon
  <2> HIDE DEF Done
  <2>3. \A i \in 0 .. n : i \in Done
    BY <1>2, <2>1, <2>2, InductionUpTo, Zenon
  <2> QED
    BY <2>3, Zenon DEF Done
<1>6. ASSUME NEW M, NEW S, NEW H, t \notin M, Entries(r, t, H),
             \A x \in 1 .. n : v[x] \notin S /\ v[x][1] \in M /\ v[x][2] \in 0 .. nOut[v[x][1]] - 1,
             s.clean => View(s.cs, M \cup {t}, S \cup Range(v), H)
      PROVE  restored[n].clean => View(restored[n].cs, M, S, H)
  <2> DEFINE Right(i) == restored[i].clean => View(restored[i].cs, M, S \cup Firsts(v, n - i), H)
             Done == {i \in 0 .. n : Right(i)}
  <2>0. /\ Firsts(v, 0) = {} /\ Firsts(v, n) = Range(v)
        /\ \A i \in 1 .. n : Firsts(v, i) = Firsts(v, i - 1) \cup {v[i]}
    BY <1>2, FirstsFacts, Zenon
  <2>1. 0 \in Done
    <3>1. 0 \in 0 .. n /\ n - 0 = n
      BY <1>2
    <3>2. ASSUME restored[0].clean PROVE View(restored[0].cs, M, S \cup Range(v), H)
      <4> DEFINE new == [s.cs EXCEPT ![t] = Empty]
      <4>1. restored[0].cs = new
        BY <1>0, <1>4, Zenon
      <4>2. View(s.cs, M \cup {t}, S \cup Range(v), H)
        BY <1>0, <1>4, <1>6, <3>2, Zenon
      <4>3. new[t] = Empty /\ \A u \in Txs : u # t => new[u] = s.cs[u]
        BY <1>2, Zenon
      <4> HIDE DEF new
      <4>4. ASSUME NEW u \in Txs
            PROVE  /\ new[u].vout = IF u \in M
                                    THEN {m \in 0 .. nOut[u] - 1 : <<u, m>> \notin S \cup Range(v)}
                                    ELSE {}
                   /\ new[u].vout # {} => new[u].nHeight = H[u] /\ new[u].fCoinBase = (u \in CoinBase)
        <5>1. CASE u = t
          BY <1>6, <4>3, <5>1, EmptyFacts, Zenon
        <5>2. CASE u # t
          <6>1. u \in M \cup {t} <=> u \in M
            BY <5>2, Zenon
          <6>2. /\ s.cs[u].vout = IF u \in M \cup {t}
                                  THEN {m \in 0 .. nOut[u] - 1 : <<u, m>> \notin S \cup Range(v)}
                                  ELSE {}
                /\ s.cs[u].vout # {} => s.cs[u].nHeight = H[u] /\ s.cs[u].fCoinBase = (u \in CoinBase)
            BY <4>2, Zenon DEF View
          <6> QED
            BY <4>3, <5>2, <6>1, <6>2, Zenon
        <5> QED
          BY <5>1, <5>2, Zenon
      <4>5. View(new, M, S \cup Range(v), H)
        BY <4>4, Zenon DEF View
      <4> QED
        BY <4>1, <4>5, Zenon
    <3> QED
      BY <2>0, <3>1, <3>2, Zenon
  <2>2. ASSUME NEW i \in 0 .. n - 1, i \in Done PROVE i + 1 \in Done
    <3> DEFINE j == n - i
               o == v[j]
               u == r[j]
               p == restored[i]
    <3>1. /\ i + 1 \in 1 .. n /\ i + 1 \in 0 .. n /\ (i + 1) - 1 = i /\ i \in 0 .. n
          /\ j \in 1 .. n /\ n + 1 - (i + 1) = j /\ n - (i + 1) = j - 1
      BY <1>2
    <3>2. restored[i + 1] = UndoInput(p, o, u)
      BY <1>4, <3>1, Zenon
    <3>3. p \in Undone /\ o \in Outpoints
      BY <1>2, <1>5, <3>1, Zenon
    <3>4. p.clean => View(p.cs, M, S \cup Firsts(v, j), H)
      BY <2>2, Zenon
    <3> HIDE DEF j
    <3>5. Firsts(v, j) = Firsts(v, j - 1) \cup {o} /\ o \notin Firsts(v, j - 1)
      <4>1. \A x \in 1 .. j - 1 : x \in 1 .. n /\ x # j
        BY <1>2, <3>1
      <4>2. o \notin Firsts(v, j - 1)
        BY <1>2, <3>1, <4>1, Zenon DEF Firsts
      <4> QED
        BY <2>0, <3>1, <4>2, Zenon
    <3>6. /\ o \notin S \cup Firsts(v, j - 1)
          /\ o[1] \in M /\ o[2] \in 0 .. nOut[o[1]] - 1 /\ Entry(u, o, H)
      <4>1. Entry(u, o, H)
        BY <1>2, <1>6, <3>1, Zenon DEF Entries, v
      <4> QED
        BY <1>6, <3>1, <3>5, <4>1, Zenon
    <3> HIDE DEF o, u, p
    <3>7. (S \cup Firsts(v, j - 1)) \cup {o} = S \cup Firsts(v, j)
      BY <3>5, Zenon
    <3>8. ASSUME restored[i + 1].clean PROVE View(restored[i + 1].cs, M, S \cup Firsts(v, j - 1), H)
      <4>1. /\ UndoInput(p, o, u).clean = (p.clean /\ CleanInput(p.cs[o[1]], o[2], u))
            /\ UndoInput(p, o, u).cs = [p.cs EXCEPT ![o[1]] = RestoreInput(@, o[2], u)]
        BY Zenon DEF UndoInput
      <4>2. p.clean /\ CleanInput(p.cs[o[1]], o[2], u)
        BY <3>2, <3>8, <4>1, Zenon
      <4>3. View(p.cs, M, (S \cup Firsts(v, j - 1)) \cup {o}, H)
        BY <3>4, <3>7, <4>2, Zenon
      <4>4. p.cs \in [Txs -> Coin]
        BY <3>3, UndoneFields, Zenon
      <4>5. View([p.cs EXCEPT ![o[1]] = RestoreInput(@, o[2], u)], M, S \cup Firsts(v, j - 1), H)
        BY <3>3, <3>6, <4>2, <4>3, <4>4, RestoreView, Zenon
      <4> QED
        BY <3>2, <4>1, <4>5, Zenon
    <3> QED
      BY <3>1, <3>8, Zenon
  <2> HIDE DEF Done
  <2>3. \A i \in 0 .. n : i \in Done
    BY <1>2, <2>1, <2>2, InductionUpTo, Zenon
  <2>4. n \in Done /\ n \in 0 .. n /\ n - n = 0
    BY <1>2, <2>3, Indices, Zenon
  <2>5. Right(n)
    BY <2>4, Zenon DEF Done
  <2>6. S \cup Firsts(v, 0) = S
    BY <2>0, Zenon
  <2> QED
    BY <2>4, <2>5, <2>6, Zenon
<1>7. restored[n] \in Undone
  <2>1. n \in 0 .. n
    BY <1>2, Indices, Zenon
  <2> QED
    BY <1>5, <2>1, Zenon
<1>8. TakesOff(s, t, r, restored[n])
  BY <1>6, Zenon DEF TakesOff, v, n
<1> QED
  BY <1>1, <1>7, <1>8, Zenon

\* What a block leaves when DisconnectBlock finds no problem in it.
LEMMA DisconnectedFacts ==
    ASSUME Least, NEW cs \in [Txs -> Coin], NEW b \in Blocks, NEW k \in Nat,
           NEW rev, NEW M, NEW S, NEW H,
           \A j \in 1 .. Len(b) : Fits(b, j, rev[j], M, S, H, k),
           View(cs, M \cup Range(b), S \cup Inputs(b, Len(b)), H)
    PROVE  /\ Disconnected(cs, b, rev, k).cs \in [Txs -> Coin]
           /\ Disconnected(cs, b, rev, k).clean => View(Disconnected(cs, b, rev, k).cs, M, S, H)
<1> DEFINE n == Len(b)
           x0 == [clean |-> TRUE, cs |-> cs]
           Is(g) == g = [i \in 0 .. n |->
                           IF i = 0 THEN x0 ELSE UndoTx(g[i - 1], b[n + 1 - i], rev[n + 1 - i], k)]
           undone == CHOOSE g : Is(g)
<1>1. Disconnected(cs, b, rev, k) = undone[n]
  BY Zenon DEF Disconnected
<1>0. x0.cs = cs
  BY Zenon
<1>2. /\ n \in Nat /\ DOMAIN b = 1 .. n /\ x0 \in Undone
      /\ \A i \in 1 .. n : b[i] \in Txs /\ rev[i] \in Seq(Coin) /\ Len(rev[i]) = Len(vin[b[i]])
      /\ \A i \in 1 .. n : /\ b[n + 1 - i] \in Txs /\ rev[n + 1 - i] \in Seq(Coin)
                           /\ Len(rev[n + 1 - i]) = Len(vin[b[n + 1 - i]])
  <2>1. x0 \in Undone
    BY Zenon DEF Undone
  <2>2. n \in Nat /\ DOMAIN b = 1 .. n /\ \A i \in 1 .. n : b[i] \in Txs
    BY BlockFacts, Zenon
  <2>3. \A i \in 1 .. n : rev[i] \in Seq(Coin) /\ Len(rev[i]) = Len(vin[b[i]])
    BY Zenon DEF Fits, Entries
  <2> HIDE DEF n
  <2>4. \A i \in 1 .. n : n + 1 - i \in 1 .. n
    BY <2>2
  <2> QED
    BY <2>1, <2>2, <2>3, <2>4, Zenon
<1> HIDE DEF n, x0
<1>3. \E g : Is(g)
  <2> DEFINE D == [i \in 1 .. n |-> [p \in Undone |-> UndoTx(p, b[n + 1 - i], rev[n + 1 - i], k)]]
  <2>1. \A i \in 1 .. n : \A p \in Undone : UndoTx(p, b[n + 1 - i], rev[n + 1 - i], k) \in Undone
    BY <1>2, UndoTxFacts, Zenon
  <2>2. D \in [1 .. n -> [Undone -> Undone]]
    BY <2>1, Zenon
  <2>3. \A i \in 1 .. n : \A p \in Undone : D[i][p] = UndoTx(p, b[n + 1 - i], rev[n + 1 - i], k)
    BY Zenon
  <2> HIDE DEF D
  <2>4. Defines(n, Undone, x0, D)
    BY <1>2, <2>2, Recursion, Zenon
  <2>5. PICK f \in [0 .. n -> Undone] : f[0] = x0 /\ \A i \in 1 .. n : f[i] = D[i][f[i - 1]]
    BY <2>4, Zenon DEF Defines
  <2>6. ASSUME NEW i \in 0 .. n
        PROVE  f[i] = IF i = 0 THEN x0 ELSE UndoTx(f[i - 1], b[n + 1 - i], rev[n + 1 - i], k)
    <3>1. CASE i = 0
      BY <2>5, <3>1, Zenon
    <3>2. CASE i # 0
      <4>1. i \in 1 .. n /\ i - 1 \in 0 .. n
        BY <1>2, <3>2, Indices, Zenon
      <4> QED
        BY <2>3, <2>5, <3>2, <4>1, Zenon
    <3> QED
      BY <3>1, <3>2, Zenon
  <2>7. f = [i \in 0 .. n |-> f[i]]
    BY Zenon
  <2>8. [i \in 0 .. n |-> f[i]] = [i \in 0 .. n |-> IF i = 0 THEN x0 ELSE UndoTx(f[i - 1], b[n + 1 - i], rev[n + 1 - i], k)]
    BY <2>6, Zenon
  <2>9. Is(f)
    BY <2>7, <2>8, Zenon
  <2> QED
    BY <2>9, Zenon
<1>4. undone[0] = x0 /\ \A i \in 1 .. n : undone[i] = UndoTx(undone[i - 1], b[n + 1 - i], rev[n + 1 - i], k)
  <2>1. Is(undone)
    BY <1>3, Zenon
  <2> HIDE DEF undone
  <2>2. \A i \in 0 .. n : undone[i] = IF i = 0 THEN x0 ELSE UndoTx(undone[i - 1], b[n + 1 - i], rev[n + 1 - i], k)
    BY <2>1, Zenon
  <2>3. 0 \in 0 .. n /\ \A i \in 1 .. n : i \in 0 .. n /\ i # 0
    BY <1>2
  <2> QED
    BY <2>2, <2>3, Zenon
<1> HIDE DEF undone
<1>5. \A i \in 0 .. n : undone[i] \in Undone
  <2> DEFINE Done == {i \in 0 .. n : undone[i] \in Undone}
  <2>1. 0 \in Done
    <3>1. 0 \in 0 .. n
      BY <1>2
    <3> QED
      BY <1>2, <1>4, <3>1, Zenon
  <2>2. ASSUME NEW i \in 0 .. n - 1, i \in Done PROVE i + 1 \in Done
    <3>1. i + 1 \in 1 .. n /\ i + 1 \in 0 .. n /\ (i + 1) - 1 = i
      BY <1>2, Turn, Zenon
    <3>2. undone[i] \in Undone
      BY <2>2, Zenon
    <3>3. undone[i + 1] = UndoTx(undone[i], b[n + 1 - (i + 1)], rev[n + 1 - (i + 1)], k)
      BY <1>4, <3>1, Zenon
    <3>4. UndoTx(undone[i], b[n + 1 - (i + 1)], rev[n + 1 - (i + 1)], k) \in Undone
      BY <1>2, <3>1, <3>2, UndoTxFacts, Zenon
    <3> QED
      BY <3>1, <3>3, <3>4, Zenon
  <2> HIDE DEF Done
  <2>3. \A i \in 0 .. n : i \in Done
    BY <1>2, <2>1, <2>2, InductionUpTo, Zenon
  <2> QED
    BY <2>3, Zenon DEF Done
<1>6. /\ Firsts(b, 0) = {} /\ Firsts(b, n) = Range(b)
      /\ \A i \in 1 .. n : Firsts(b, i) = Firsts(b, i - 1) \cup {b[i]}
  BY <1>2, FirstsFacts, Zenon
<1>7. /\ Inputs(b, 0) = {}
      /\ \A i \in 1 .. n : Inputs(b, i) = Inputs(b, i - 1) \cup Range(vin[b[i]])
  BY <1>2, InputsFacts, Zenon
<1> DEFINE Right(i) == undone[i].clean =>
                         View(undone[i].cs, M \cup Firsts(b, n - i), S \cup Inputs(b, n - i), H)
           Done == {i \in 0 .. n : Right(i)}
<1>8. 0 \in Done
  <2>1. 0 \in 0 .. n /\ n - 0 = n
    BY <1>2
  <2>2. View(undone[0].cs, M \cup Firsts(b, n), S \cup Inputs(b, n), H)
    BY <1>0, <1>4, <1>6, Zenon DEF n
  <2> QED
    BY <2>1, <2>2, Zenon
<1>9. ASSUME NEW i \in 0 .. n - 1, i \in Done PROVE i + 1 \in Done
  <2> DEFINE j == n - i
             t == b[j]
             p == undone[i]
             A == M \cup Firsts(b, j - 1)
             Z == S \cup Inputs(b, j - 1)
  <2>1. /\ i + 1 \in 1 .. n /\ i + 1 \in 0 .. n /\ (i + 1) - 1 = i /\ i \in 0 .. n
        /\ j \in 1 .. n /\ n + 1 - (i + 1) = j /\ n - (i + 1) = j - 1
    BY <1>2
  <2>2. undone[i + 1] = UndoTx(p, t, rev[j], k)
    BY <1>4, <2>1, Zenon
  <2>3. /\ p \in Undone /\ t \in Txs /\ rev[j] \in Seq(Coin) /\ Len(rev[j]) = Len(vin[t])
    BY <1>2, <1>5, <2>1, Zenon
  <2>4. p.clean => View(p.cs, M \cup Firsts(b, j), S \cup Inputs(b, j), H)
    BY <1>9, Zenon
  <2> HIDE DEF j
  <2>5. Fits(b, j, rev[j], M, S, H, k)
    BY <2>1, Zenon DEF n
  <2>6. /\ t \notin A /\ Entries(rev[j], t, H)
        /\ \A o \in Range(vin[t]) : o \notin Z /\ o[1] \in A /\ o[2] \in 0 .. nOut[o[1]] - 1
    BY <2>5, Zenon DEF Fits, Spendable
  <2>7. M \cup Firsts(b, j) = A \cup {t} /\ S \cup Inputs(b, j) = Z \cup Range(vin[t])
    <3>1. Firsts(b, j) = Firsts(b, j - 1) \cup {t} /\ Inputs(b, j) = Inputs(b, j - 1) \cup Range(vin[t])
      BY <1>6, <1>7, <2>1, Zenon
    <3> QED
      BY <3>1, Zenon
  <2> HIDE DEF p, t, A, Z
  <2>8. \A x \in 1 .. Len(vin[t]) : vin[t][x] \in Range(vin[t])
    BY <2>3, ConstantFacts, Zenon DEF Range
  <2>9. TakesOff(p, t, rev[j], undone[i + 1])
    BY <2>2, <2>3, UndoTxFacts, Zenon
  <2>10. p.clean => View(p.cs, A \cup {t}, Z \cup Range(vin[t]), H)
    BY <2>4, <2>7, Zenon
  <2>11. \A x \in 1 .. Len(vin[t]) :
            /\ vin[t][x] \notin Z /\ vin[t][x][1] \in A
            /\ vin[t][x][2] \in 0 .. nOut[vin[t][x][1]] - 1
    BY <2>6, <2>8, Zenon
  <2>12. undone[i + 1].clean => View(undone[i + 1].cs, A, Z, H)
    BY <2>6, <2>9, <2>10, <2>11, Zenon DEF TakesOff
  <2> QED
    BY <2>1, <2>12, Zenon DEF A, Z
<1> HIDE DEF Done
<1>10. \A i \in 0 .. n : i \in Done
  BY <1>2, <1>8, <1>9, InductionUpTo, Zenon
<1>11. n \in Done /\ n \in 0 .. n /\ n - n = 0
  BY <1>2, <1>10, Indices, Zenon
<1>12. Right(n)
  BY <1>11, Zenon DEF Done
<1>13. M \cup Firsts(b, 0) = M /\ S \cup Inputs(b, 0) = S
  BY <1>6, <1>7, Zenon
<1>14. undone[n].cs \in [Txs -> Coin]
  <2>1. undone[n] \in Undone
    BY <1>5, <1>11, Zenon
  <2> QED
    BY <2>1, UndoneFields, Zenon
<1> QED
  BY <1>1, <1>11, <1>12, <1>13, <1>14, Zenon

-----------------------------------------------------------------------------
(* The chain *)

MinedTo(c, h) == UNION {Range(c[g]) : g \in 1 .. h}
SpentTo(c, h) == UNION {Inputs(c[g], Len(c[g])) : g \in 1 .. h}

\* The block at height h fits on those below it.
Laid(c, u, H, h) ==
    /\ Len(u[h]) = Len(c[h])
    /\ \A j \in 1 .. Len(c[h]) : Fits(c[h], j, u[h][j], MinedTo(c, h - 1), SpentTo(c, h - 1), H, h)

ChainOK(c, u, H) ==
    /\ c \in Seq(Blocks) /\ Len(c) <= MaxHeight
    /\ u \in Seq(Seq(Seq(Coin))) /\ Len(u) = Len(c)
    /\ H \in [Txs -> Nat]
    /\ \A h \in 1 .. Len(c) : Laid(c, u, H, h)
    /\ \A h \in 0 .. Len(c) : Booked(MinedTo(c, h), SpentTo(c, h))

Holds(c, u, cs, H) ==
    ChainOK(c, u, H) /\ View(cs, MinedTo(c, Len(c)), SpentTo(c, Len(c)), H)

UndoInv == coins \in [Txs -> Coin] /\ \E H : Holds(chain, undo, coins, H)

LEMMA ToFacts ==
    ASSUME NEW c, NEW n \in Nat
    PROVE  /\ MinedTo(c, 0) = {} /\ SpentTo(c, 0) = {}
           /\ \A h \in 1 .. n : /\ MinedTo(c, h) = MinedTo(c, h - 1) \cup Range(c[h])
                                /\ SpentTo(c, h) = SpentTo(c, h - 1) \cup Inputs(c[h], Len(c[h]))
           /\ \A h \in 0 .. n : MinedTo(c, h) \subseteq MinedTo(c, n)
<1>1. MinedTo(c, 0) = {} /\ SpentTo(c, 0) = {}
  BY DEF MinedTo, SpentTo
<1>2. ASSUME NEW h \in 1 .. n
      PROVE  /\ MinedTo(c, h) = MinedTo(c, h - 1) \cup Range(c[h])
             /\ SpentTo(c, h) = SpentTo(c, h - 1) \cup Inputs(c[h], Len(c[h]))
  <2>1. \A j : j \in 1 .. h <=> j \in 1 .. h - 1 \/ j = h
    OBVIOUS
  <2>2. MinedTo(c, h) = MinedTo(c, h - 1) \cup Range(c[h])
    BY <2>1, Zenon DEF MinedTo
  <2>3. SpentTo(c, h) = SpentTo(c, h - 1) \cup Inputs(c[h], Len(c[h]))
    BY <2>1, Zenon DEF SpentTo
  <2> QED
    BY <2>2, <2>3, Zenon
<1>3. ASSUME NEW h \in 0 .. n PROVE MinedTo(c, h) \subseteq MinedTo(c, n)
  <2>1. \A j \in 1 .. h : j \in 1 .. n
    OBVIOUS
  <2> QED
    BY <2>1, Zenon DEF MinedTo
<1> QED
  BY <1>1, <1>2, <1>3, Zenon

LEMMA SameBelow ==
    ASSUME NEW c, NEW d, NEW n \in Nat, \A g \in 1 .. n : c[g] = d[g], NEW h \in 0 .. n
    PROVE  MinedTo(c, h) = MinedTo(d, h) /\ SpentTo(c, h) = SpentTo(d, h)
<1>1. \A g \in 1 .. h : c[g] = d[g]
  OBVIOUS
<1>2. MinedTo(c, h) = MinedTo(d, h)
  BY <1>1, Zenon DEF MinedTo
<1>3. SpentTo(c, h) = SpentTo(d, h)
  BY <1>1, Zenon DEF SpentTo
<1> QED
  BY <1>2, <1>3, Zenon

\* The blocks of a chain are also laid in another with the same ones.
LEMMA SameLaid ==
    ASSUME NEW c, NEW d, NEW u, NEW w, NEW H, NEW n \in Nat,
           \A g \in 1 .. n : c[g] = d[g] /\ u[g] = w[g], NEW h \in 1 .. n, Laid(c, u, H, h)
    PROVE  Laid(d, w, H, h)
<1>1. h - 1 \in 0 .. n
  OBVIOUS
<1>2. MinedTo(c, h - 1) = MinedTo(d, h - 1) /\ SpentTo(c, h - 1) = SpentTo(d, h - 1)
  BY <1>1, SameBelow, Zenon
<1>3. c[h] = d[h] /\ u[h] = w[h]
  BY Zenon
<1> QED
  BY <1>2, <1>3, Zenon DEF Laid

\* Only the heights of mined transactions matter.
LEMMA SameHeights ==
    ASSUME NEW c, NEW u, NEW cs, NEW H, NEW G \in [Txs -> Nat], Holds(c, u, cs, H),
           \A t \in MinedTo(c, Len(c)) : G[t] = H[t]
    PROVE  Holds(c, u, cs, G)
<1> DEFINE M == MinedTo(c, Len(c))
<1>1. /\ c \in Seq(Blocks) /\ \A h \in 1 .. Len(c) : Laid(c, u, H, h)
      /\ View(cs, M, SpentTo(c, Len(c)), H)
  BY Zenon DEF Holds, ChainOK
<1>2. Len(c) \in Nat /\ \A h \in 1 .. Len(c) : c[h] \in Blocks /\ h - 1 \in 0 .. Len(c) /\ h \in 0 .. Len(c)
  BY <1>1
<1>3. ASSUME NEW h \in 1 .. Len(c) PROVE Laid(c, u, G, h)
  <2> DEFINE b == c[h]
             A == MinedTo(c, h - 1)
             Z == SpentTo(c, h - 1)
  <2>1. MinedTo(c, h) = A \cup Range(b) /\ A \subseteq M /\ MinedTo(c, h) \subseteq M
    BY <1>2, ToFacts, ZenonT(60)
  <2>2. Laid(c, u, H, h) /\ b \in Blocks
    BY <1>1, <1>2, Zenon
  <2>3. Len(b) \in Nat /\ DOMAIN b = 1 .. Len(b)
    BY <2>2, BlockFacts, Zenon
  <2>4. ASSUME NEW j \in 1 .. Len(b) PROVE Fits(b, j, u[h][j], A, Z, G, h)
    <3>1. Fits(b, j, u[h][j], A, Z, H, h)
      BY <2>2, Zenon DEF Laid
    <3>2. b[j] \in M /\ Firsts(b, j - 1) \subseteq M
      <4>1. \A x \in 1 .. j - 1 : x \in 1 .. Len(b)
        BY <2>3
      <4>2. \A x \in 1 .. Len(b) : b[x] \in Range(b)
        BY <2>3, Zenon DEF Range
      <4> QED
        BY <2>1, <4>1, <4>2, Zenon DEF Firsts
    <3>3. G[b[j]] = H[b[j]]
      BY <3>2, Zenon
    <3>4. ASSUME NEW o \in Range(vin[b[j]])
          PROVE  /\ Spendable(o, A \cup Firsts(b, j - 1), Z \cup Inputs(b, j - 1), G, h)
                 /\ G[o[1]] = H[o[1]]
      <4>1. Spendable(o, A \cup Firsts(b, j - 1), Z \cup Inputs(b, j - 1), H, h)
        BY <3>1, Zenon DEF Fits
      <4>2. o[1] \in M
        BY <2>1, <3>2, <4>1, Zenon DEF Spendable
      <4>3. G[o[1]] = H[o[1]]
        BY <4>2, Zenon
      <4> QED
        BY <4>1, <4>3, Zenon DEF Spendable
    <3>5. Entries(u[h][j], b[j], G)
      <4>1. Entries(u[h][j], b[j], H)
        BY <3>1, Zenon DEF Fits
      <4>2. \A x \in DOMAIN vin[b[j]] : G[vin[b[j]][x][1]] = H[vin[b[j]][x][1]]
        BY <3>4, Zenon DEF Range
      <4> QED
        BY <4>1, <4>2, Zenon DEF Entries, Entry
    <3> QED
      BY <3>1, <3>3, <3>4, <3>5, Zenon DEF Fits
  <2> QED
    BY <2>2, <2>4, Zenon DEF Laid
<1>4. View(cs, M, SpentTo(c, Len(c)), G)
  <2>1. ASSUME NEW t \in Txs, cs[t].vout # {} PROVE G[t] = H[t]
    <3>1. t \in M
      BY <1>1, <2>1, Zenon DEF View
    <3> QED
      BY <3>1, Zenon
  <2> QED
    BY <1>1, <2>1, Zenon DEF View
<1> QED
  BY <1>3, <1>4, Zenon DEF Holds, ChainOK

LEMMA UndoInitInv == UndoInit => UndoInv
<1> SUFFICES ASSUME UndoInit PROVE UndoInv
  BY Zenon
<1> DEFINE H == [t \in Txs |-> 0]
<1>1. coins \in [Txs -> Coin] /\ \A t \in Txs : coins[t].vout = {}
  <2>1. coins = [t \in Txs |-> Empty]
    BY Zenon DEF UndoInit
  <2> QED
    BY <2>1, EmptyFacts, Zenon
<1>2. chain = <<>> /\ undo = <<>> /\ Len(chain) = 0 /\ Len(undo) = 0
  BY Zenon DEF UndoInit
<1>3. MinedTo(chain, 0) = {} /\ SpentTo(chain, 0) = {}
  BY ToFacts, 0 \in Nat, Zenon
<1>4. Booked({}, {})
  BY Zenon DEF Booked
<1>5. View(coins, {}, {}, H)
  BY <1>1, Zenon DEF View
<1>6. ChainOK(chain, undo, H)
  <2>1. H \in [Txs -> Nat]
    BY Zenon
  <2> HIDE DEF H
  <2>2. \A h \in 1 .. Len(chain) : FALSE
    BY <1>2
  <2>3. \A h \in 0 .. Len(chain) : h = 0
    BY <1>2, SMTT(30)
  <2>4. 0 <= MaxHeight
    BY ConstantsAssumption
  <2>5. chain \in Seq(Blocks) /\ undo \in Seq(Seq(Seq(Coin))) /\ Len(chain) <= MaxHeight /\ Len(undo) = Len(chain)
    BY <1>2, <2>4
  <2> QED
    BY <1>3, <1>4, <2>1, <2>2, <2>3, <2>5, Zenon DEF ChainOK
<1> QED
  BY <1>1, <1>2, <1>3, <1>5, <1>6, Zenon DEF UndoInv, Holds

LEMMA ConnectUndoInv ==
    ASSUME Least, UndoInv, NEW b \in Blocks, ConnectBlock(b) PROVE UndoInv'
<1> DEFINE n == Len(chain)
           k == n + 1
           M == MinedTo(chain, n)
           S == SpentTo(chain, n)
           new == ApplyBlock(coins, b, k)
<1>1. PICK H0 : Holds(chain, undo, coins, H0)
  BY Zenon DEF UndoInv
<1>2. /\ chain \in Seq(Blocks) /\ undo \in Seq(Seq(Seq(Coin))) /\ Len(undo) = n
      /\ H0 \in [Txs -> Nat] /\ Booked(M, S) /\ coins \in [Txs -> Coin]
  <2>1. /\ chain \in Seq(Blocks) /\ undo \in Seq(Seq(Seq(Coin))) /\ Len(undo) = n
        /\ H0 \in [Txs -> Nat] /\ coins \in [Txs -> Coin]
        /\ \A h \in 0 .. n : Booked(MinedTo(chain, h), SpentTo(chain, h))
    BY <1>1, Zenon DEF Holds, ChainOK, UndoInv
  <2>2. n \in 0 .. n
    BY <2>1
  <2> QED
    BY <2>1, <2>2, Zenon
<1>3. n \in Nat /\ k \in Nat /\ DOMAIN chain = 1 .. n
  BY <1>2
<1>4. /\ k <= MaxHeight /\ FreshCoinbase(b) /\ new.ok
      /\ coins' = new.cs /\ undo' = Append(undo, new.rev) /\ chain' = Append(chain, b)
  BY Zenon DEF ConnectBlock
<1> HIDE DEF new
<1> DEFINE H == [t \in Txs |-> IF t \in M THEN H0[t] ELSE k]
<1>5. /\ H \in [Txs -> Nat]
      /\ \A t \in M : H[t] = H0[t]
      /\ \A t \in Txs : t \notin M => H[t] = k
  <2>1. M \subseteq Txs
    BY <1>2, Zenon DEF Booked
  <2> QED
    BY <1>2, <1>3, <2>1, Zenon
<1> HIDE DEF H
<1>6. Holds(chain, undo, coins, H)
  BY <1>1, <1>5, SameHeights, Zenon
<1>7. View(coins, M, S, H) /\ \A h \in 1 .. n : Laid(chain, undo, H, h)
  BY <1>6, Zenon DEF Holds, ChainOK
<1>8. Len(b) \in Nat /\ DOMAIN b = 1 .. Len(b) /\ b \in Seq(Txs)
  BY BlockFacts, Zenon
<1>9. \A i \in 1 .. Len(b) : b[i] \in CoinBase => b[i] \notin M
  <2>1. \A i \in 1 .. Len(b) : b[i] \in Range(b)
    BY <1>8, Zenon DEF Range
  <2>2. \A h \in 1 .. n : Range(b) \cap Range(chain[h]) \cap CoinBase = {}
    BY <1>3, <1>4, Zenon DEF FreshCoinbase
  <2> QED
    BY <2>1, <2>2, Zenon DEF MinedTo
<1>10. /\ new.cs \in [Txs -> Coin] /\ new.rev \in Seq(Seq(Coin)) /\ Len(new.rev) = Len(b)
       /\ \A j \in 1 .. Len(b) : Fits(b, j, new.rev[j], M, S, H, k)
       /\ View(new.cs, M \cup Range(b), S \cup Inputs(b, Len(b)), H)
       /\ Booked(M \cup Range(b), S \cup Inputs(b, Len(b)))
  <2> HIDE DEF M, S, k
  <2>1. Accepted(b, k, M, S, H, new)
    BY <1>2, <1>3, <1>4, <1>5, <1>7, <1>9, ApplyBlockFacts, Zenon DEF new
  <2> QED
    BY <2>1, Zenon DEF Accepted
<1>11. /\ chain' \in Seq(Blocks) /\ Len(chain') = k /\ chain'[k] = b
       /\ undo' \in Seq(Seq(Seq(Coin))) /\ Len(undo') = k /\ undo'[k] = new.rev
       /\ \A g \in 1 .. n : chain[g] = chain'[g] /\ undo[g] = undo'[g]
  <2>1. new.rev \in Seq(Seq(Coin))
    BY <1>10, Zenon
  <2> DEFINE c == Append(chain, b)
             w == Append(undo, new.rev)
  <2>2. c \in Seq(Blocks) /\ Len(c) = k /\ c[k] = b /\ \A g \in 1 .. n : chain[g] = c[g]
    <3>1. Longer(Blocks, chain, b, c)
      BY <1>2, AppendFacts, Zenon
    <3> HIDE DEF c
    <3> QED
      BY <3>1, Zenon DEF Longer
  <2>3. /\ w \in Seq(Seq(Seq(Coin))) /\ Len(w) = k /\ w[k] = new.rev
        /\ \A g \in 1 .. n : undo[g] = w[g]
    <3>1. Longer(Seq(Seq(Coin)), undo, new.rev, w)
      BY <1>2, <2>1, AppendFacts, Zenon
    <3> HIDE DEF w
    <3> QED
      BY <1>2, <3>1, Zenon DEF Longer
  <2> QED
    BY <1>4, <2>2, <2>3, Zenon
<1>12. /\ MinedTo(chain', n) = M /\ SpentTo(chain', n) = S
       /\ \A h \in 0 .. n : MinedTo(chain', h) = MinedTo(chain, h) /\ SpentTo(chain', h) = SpentTo(chain, h)
  <2>1. n \in 0 .. n
    BY <1>3
  <2>2. \A h \in 0 .. n : MinedTo(chain, h) = MinedTo(chain', h) /\ SpentTo(chain, h) = SpentTo(chain', h)
    BY <1>3, <1>11, SameBelow, ZenonT(60)
  <2> QED
    BY <2>1, <2>2, Zenon
<1>13. MinedTo(chain', k) = M \cup Range(b) /\ SpentTo(chain', k) = S \cup Inputs(b, Len(b))
  <2>1. k \in 1 .. k /\ k - 1 = n
    BY <1>3
  <2>2. /\ MinedTo(chain', k) = MinedTo(chain', k - 1) \cup Range(chain'[k])
        /\ SpentTo(chain', k) = SpentTo(chain', k - 1) \cup Inputs(chain'[k], Len(chain'[k]))
    <3> HIDE DEF k
    <3> QED
      BY <1>3, <2>1, ToFacts, Zenon
  <2> QED
    BY <1>11, <1>12, <2>1, <2>2, Zenon
<1>14. ASSUME NEW h \in 1 .. k PROVE Laid(chain', undo', H, h)
  <2>1. CASE h = k
    <3>1. k - 1 = n
      BY <1>3
    <3> HIDE DEF k
    <3> QED
      BY <1>10, <1>11, <1>12, <2>1, <3>1, Zenon DEF Laid
  <2>2. CASE h # k
    <3>1. h \in 1 .. n
      BY <1>3, <2>2
    <3> QED
      BY <1>3, <1>7, <1>11, <3>1, SameLaid, Zenon
  <2> QED
    BY <2>1, <2>2, Zenon
<1>15. ASSUME NEW h \in 0 .. k PROVE Booked(MinedTo(chain', h), SpentTo(chain', h))
  <2>1. CASE h = k
    BY <1>10, <1>13, <2>1, Zenon
  <2>2. CASE h # k
    <3>1. h \in 0 .. n
      BY <1>3, <2>2
    <3> QED
      BY <1>6, <1>12, <3>1, Zenon DEF Holds, ChainOK
  <2> QED
    BY <2>1, <2>2, Zenon
<1>16. ChainOK(chain', undo', H)
  <2> HIDE DEF k
  <2> QED
    BY <1>4, <1>5, <1>11, <1>14, <1>15, Zenon DEF ChainOK
<1>17. Holds(chain', undo', coins', H) /\ coins' \in [Txs -> Coin]
  <2> HIDE DEF k
  <2> QED
    BY <1>4, <1>10, <1>11, <1>13, <1>16, Zenon DEF Holds
<1> QED
  BY <1>17, Zenon DEF UndoInv

LEMMA DisconnectUndoInv ==
    ASSUME Least, UndoInv, DisconnectTip PROVE UndoInv'
<1> DEFINE k == Len(chain)
           n == k - 1
           M == MinedTo(chain, n)
           S == SpentTo(chain, n)
           b == chain[k]
           new == Disconnected(coins, b, undo[k], k)
<1>1. PICK H : Holds(chain, undo, coins, H)
  BY Zenon DEF UndoInv
<1>2. /\ chain \in Seq(Blocks) /\ undo \in Seq(Seq(Seq(Coin))) /\ Len(undo) = k /\ k <= MaxHeight
      /\ H \in [Txs -> Nat] /\ coins \in [Txs -> Coin] /\ View(coins, MinedTo(chain, k), SpentTo(chain, k), H)
      /\ \A h \in 0 .. k : Booked(MinedTo(chain, h), SpentTo(chain, h))
      /\ \A h \in 1 .. k : Laid(chain, undo, H, h)
  BY <1>1, Zenon DEF Holds, ChainOK, UndoInv
<1>3. /\ chain # <<>> /\ TipDisconnected.clean /\ coins' = TipDisconnected.cs
      /\ chain' = Front(chain) /\ undo' = Front(undo)
  BY Zenon DEF DisconnectTip
<1>4. TipDisconnected = new
  BY <1>2, Zenon DEF TipDisconnected, Last
<1>5. k \in Nat /\ n \in Nat /\ k \in 1 .. k /\ n <= MaxHeight
  BY <1>2, <1>3, ConstantsAssumption, SMTT(30)
<1>6. b \in Blocks
  BY <1>2, <1>5
<1>7. /\ MinedTo(chain, k) = M \cup Range(b) /\ SpentTo(chain, k) = S \cup Inputs(b, Len(b))
  <2> HIDE DEF k
  <2> QED
    BY <1>5, ToFacts, Zenon
<1>8. \A j \in 1 .. Len(b) : Fits(b, j, undo[k][j], M, S, H, k)
  BY <1>2, <1>5, Zenon DEF Laid
<1>9. coins' \in [Txs -> Coin] /\ View(coins', M, S, H)
  <2>1. new.clean /\ coins' = new.cs
    BY <1>3, <1>4, Zenon
  <2>2. View(coins, M \cup Range(b), S \cup Inputs(b, Len(b)), H)
    BY <1>2, <1>7, Zenon
  <2> HIDE DEF M, S, k, b, n
  <2>3. new.cs \in [Txs -> Coin] /\ (new.clean => View(new.cs, M, S, H))
    BY <1>2, <1>5, <1>6, <1>8, <2>2, DisconnectedFacts, Zenon
  <2> QED
    BY <2>1, <2>3, Zenon
<1>10. /\ chain' \in Seq(Blocks) /\ Len(chain') = n
       /\ undo' \in Seq(Seq(Seq(Coin))) /\ Len(undo') = n
       /\ \A g \in 1 .. n : chain[g] = chain'[g] /\ undo[g] = undo'[g]
  <2>1. /\ Front(chain) \in Seq(Blocks) /\ Len(Front(chain)) = n
        /\ \A g \in 1 .. n : chain[g] = Front(chain)[g]
    BY <1>2, <1>3, FrontFacts, Zenon
  <2>2. /\ Front(undo) \in Seq(Seq(Seq(Coin))) /\ Len(Front(undo)) = n
        /\ \A g \in 1 .. n : undo[g] = Front(undo)[g]
    <3>1. undo # <<>>
      BY <1>2, <1>5
    <3> QED
      BY <1>2, <3>1, FrontFacts, Zenon
  <2> QED
    BY <1>3, <2>1, <2>2, Zenon
<1>11. \A h \in 0 .. n : MinedTo(chain, h) = MinedTo(chain', h) /\ SpentTo(chain, h) = SpentTo(chain', h)
  BY <1>5, <1>10, SameBelow, Zenon
<1>12. \A h \in 0 .. n : h \in 0 .. k
  BY <1>5
<1>13. \A h \in 1 .. n : h \in 1 .. k
  BY <1>5
<1>14. n \in 0 .. n
  BY <1>5
<1>15. ASSUME NEW h \in 1 .. n PROVE Laid(chain', undo', H, h)
  BY <1>2, <1>5, <1>10, <1>13, SameLaid, ZenonT(60)
<1>16. \A h \in 0 .. n : Booked(MinedTo(chain', h), SpentTo(chain', h))
  BY <1>2, <1>11, <1>12, Zenon
<1>17. ChainOK(chain', undo', H)
  BY <1>2, <1>5, <1>10, <1>15, <1>16, Zenon DEF ChainOK
<1>18. Holds(chain', undo', coins', H)
  BY <1>9, <1>10, <1>11, <1>14, <1>17, Zenon DEF Holds
<1> QED
  BY <1>9, <1>18, Zenon DEF UndoInv

LEMMA UndoNextInv == ASSUME Least PROVE UndoInv /\ [UndoNext]_undoVars => UndoInv'
<1> SUFFICES ASSUME UndoInv, [UndoNext]_undoVars PROVE UndoInv'
  BY Zenon
<1>1. ASSUME NEW b \in Blocks, ConnectBlock(b) PROVE UndoInv'
  BY <1>1, ConnectUndoInv, Zenon
<1>2. CASE DisconnectTip
  BY <1>2, DisconnectUndoInv, Zenon
<1>3. CASE UNCHANGED undoVars
  BY <1>3, Zenon DEF UndoInv, undoVars
<1> QED
  BY <1>1, <1>2, <1>3, Zenon DEF UndoNext

\* The sets the properties are stated with are those of the invariant.
LEMMA ReferenceFacts ==
    ASSUME UndoInv, NEW H, Holds(chain, undo, coins, H)
    PROVE  /\ MinedTxs = MinedTo(chain, Len(chain)) /\ Spent = SpentTo(chain, Len(chain))
           /\ \A m \in Mined : /\ m[1] \in 1 .. Len(chain) /\ m[2] \in 1 .. Len(chain[m[1]])
                               /\ \A o \in Range(vin[chain[m[1]][m[2]]]) :
                                     o[1] \in MinedTxs /\ (o[1] \in CoinBase => m[1] - H[o[1]] >= Maturity)
           /\ \A t \in MinedTxs : HeightOf(t) = H[t]
<1> DEFINE n == Len(chain)
<1>1. chain \in Seq(Blocks) /\ \A h \in 1 .. n : Laid(chain, undo, H, h)
  BY Zenon DEF Holds, ChainOK
<1>2. n \in Nat /\ DOMAIN chain = 1 .. n /\ \A h \in 1 .. n : chain[h] \in Blocks /\ h - 1 \in 0 .. n
  BY <1>1
<1>3. \A h \in 1 .. n : Len(chain[h]) \in Nat /\ DOMAIN chain[h] = 1 .. Len(chain[h])
  BY <1>2, BlockFacts, Zenon
<1> HIDE DEF n
<1>4. \A m : m \in Mined <=> \E h \in 1 .. n : \E i \in 1 .. Len(chain[h]) : m = <<h, i>>
  BY <1>2, <1>3, SMTT(30) DEF Mined
<1>5. ASSUME NEW m \in Mined
      PROVE  \E h \in 1 .. n : \E i \in 1 .. Len(chain[h]) : m = <<h, i>> /\ m[1] = h /\ m[2] = i
  <2>1. PICK h \in 1 .. n : \E i \in 1 .. Len(chain[h]) : m = <<h, i>>
    BY <1>4, Zenon
  <2>2. PICK i \in 1 .. Len(chain[h]) : m = <<h, i>>
    BY <2>1, Zenon
  <2>3. m[1] = h /\ m[2] = i
    BY <2>2, Zenon
  <2> QED
    BY <2>2, <2>3, Zenon
<1>6. ASSUME NEW h \in 1 .. n, NEW i \in 1 .. Len(chain[h])
      PROVE  \E m \in Mined : m[1] = h /\ m[2] = i
  <2>1. <<h, i>> \in Mined
    BY <1>4, Zenon
  <2>2. <<h, i>>[1] = h /\ <<h, i>>[2] = i
    BY Zenon
  <2> QED
    BY <2>1, <2>2, Zenon
<1>7. \A t : t \in MinedTxs <=> \E h \in 1 .. n : \E i \in 1 .. Len(chain[h]) : t = chain[h][i]
  <2>1. ASSUME NEW t \in MinedTxs PROVE \E h \in 1 .. n : \E i \in 1 .. Len(chain[h]) : t = chain[h][i]
    <3>1. PICK m \in Mined : t = chain[m[1]][m[2]]
      BY Zenon DEF MinedTxs
    <3> QED
      BY <1>5, <3>1, Zenon
  <2>2. ASSUME NEW h \in 1 .. n, NEW i \in 1 .. Len(chain[h]) PROVE chain[h][i] \in MinedTxs
    <3>1. PICK m \in Mined : m[1] = h /\ m[2] = i
      BY <1>6, Zenon
    <3> QED
      BY <3>1, Zenon DEF MinedTxs
  <2> QED
    BY <2>1, <2>2, Zenon
<1>8. \A t : t \in MinedTo(chain, n) <=> \E h \in 1 .. n : \E i \in 1 .. Len(chain[h]) : t = chain[h][i]
  BY <1>3 DEF MinedTo, Range
<1>9. MinedTxs = MinedTo(chain, n)
  BY <1>7, <1>8, Zenon
<1>10. \A o : o \in Spent <=> \E h \in 1 .. n : \E i \in 1 .. Len(chain[h]) : o \in Range(vin[chain[h][i]])
  <2>1. ASSUME NEW o \in Spent
        PROVE  \E h \in 1 .. n : \E i \in 1 .. Len(chain[h]) : o \in Range(vin[chain[h][i]])
    <3>1. PICK m \in Mined : o \in Range(vin[chain[m[1]][m[2]]])
      BY Zenon DEF Spent
    <3> QED
      BY <1>5, <3>1, Zenon
  <2>2. ASSUME NEW h \in 1 .. n, NEW i \in 1 .. Len(chain[h]), NEW o \in Range(vin[chain[h][i]])
        PROVE  o \in Spent
    <3>1. PICK m \in Mined : m[1] = h /\ m[2] = i
      BY <1>6, ZenonT(60)
    <3> QED
      BY <3>1, Zenon DEF Spent
  <2> QED
    BY <2>1, <2>2, Zenon
<1>11. \A o : o \in SpentTo(chain, n) <=>
                \E h \in 1 .. n : \E i \in 1 .. Len(chain[h]) : o \in Range(vin[chain[h][i]])
  BY DEF SpentTo, Inputs
<1>12. Spent = SpentTo(chain, n)
  BY <1>10, <1>11, Zenon
<1>13. ASSUME NEW h \in 1 .. n, NEW i \in 1 .. Len(chain[h])
       PROVE  /\ H[chain[h][i]] = h
              /\ \A o \in Range(vin[chain[h][i]]) :
                    o[1] \in MinedTxs /\ (o[1] \in CoinBase => h - H[o[1]] >= Maturity)
  <2>1. Fits(chain[h], i, undo[h][i], MinedTo(chain, h - 1), SpentTo(chain, h - 1), H, h)
    BY <1>1, Zenon DEF Laid, n
  <2>2. \A x \in 1 .. i - 1 : x \in 1 .. Len(chain[h])
    BY <1>3
  <2>3. Firsts(chain[h], i - 1) \subseteq MinedTxs
    BY <1>7, <2>2, Zenon DEF Firsts
  <2>4. MinedTo(chain, h - 1) \subseteq MinedTxs
    BY <1>2, <1>9, ToFacts, Zenon
  <2> QED
    BY <2>1, <2>3, <2>4, Zenon DEF Fits, Spendable
<1>14. ASSUME NEW t \in MinedTxs PROVE HeightOf(t) = H[t]
  <2>1. PICK h \in 1 .. n : \E i \in 1 .. Len(chain[h]) : t = chain[h][i]
    BY <1>7, Zenon
  <2>2. \A g \in 1 .. n : t \in Range(chain[g]) => g = H[t]
    <3>1. ASSUME NEW g \in 1 .. n, t \in Range(chain[g]) PROVE g = H[t]
      <4>1. PICK i \in 1 .. Len(chain[g]) : t = chain[g][i]
        BY <1>3, <3>1, Zenon DEF Range
      <4> QED
        BY <1>13, <4>1, Zenon
    <3> QED
      BY <3>1, Zenon
  <2>3. t \in Range(chain[h]) /\ h = H[t]
    BY <1>3, <1>13, <2>1, Zenon DEF Range
  <2> DEFINE P(x) == t \in Range(chain[x]) /\ \A g \in DOMAIN chain : t \in Range(chain[g]) => g <= x
  <2>4. h \in DOMAIN chain /\ P(h)
    <3>1. h <= h
      BY <1>2
    <3> QED
      BY <1>2, <2>2, <2>3, <3>1, Zenon
  <2>5. HeightOf(t) = CHOOSE x \in DOMAIN chain : P(x)
    BY Zenon DEF HeightOf
  <2>6. HeightOf(t) \in DOMAIN chain /\ P(HeightOf(t))
    BY <2>4, <2>5, Zenon
  <2> QED
    BY <1>2, <2>2, <2>6, Zenon
<1>15. ASSUME NEW m \in Mined
       PROVE  /\ m[1] \in 1 .. n /\ m[2] \in 1 .. Len(chain[m[1]])
              /\ \A o \in Range(vin[chain[m[1]][m[2]]]) :
                    o[1] \in MinedTxs /\ (o[1] \in CoinBase => m[1] - H[o[1]] >= Maturity)
  <2>1. PICK h \in 1 .. n : \E i \in 1 .. Len(chain[h]) : m = <<h, i>> /\ m[1] = h /\ m[2] = i
    BY <1>5, Zenon
  <2>2. PICK i \in 1 .. Len(chain[h]) : m[1] = h /\ m[2] = i
    BY <2>1, Zenon
  <2>3. \A o \in Range(vin[chain[h][i]]) :
           o[1] \in MinedTxs /\ (o[1] \in CoinBase => h - H[o[1]] >= Maturity)
    BY <1>13, Zenon
  <2> QED
    BY <2>2, <2>3, Zenon
<1> QED
  BY <1>9, <1>12, <1>14, <1>15, Zenon DEF n

LEMMA UndoImplies ==
    ASSUME UndoInv PROVE UndoTypeOK /\ OutputsFollowChain /\ CoinbaseSpendsMature
<1>1. PICK H : Holds(chain, undo, coins, H)
  BY Zenon DEF UndoInv
<1>2. /\ MinedTxs = MinedTo(chain, Len(chain)) /\ Spent = SpentTo(chain, Len(chain))
      /\ \A m \in Mined : /\ m[1] \in 1 .. Len(chain) /\ m[2] \in 1 .. Len(chain[m[1]])
                          /\ \A o \in Range(vin[chain[m[1]][m[2]]]) :
                                o[1] \in MinedTxs /\ (o[1] \in CoinBase => m[1] - H[o[1]] >= Maturity)
      /\ \A t \in MinedTxs : HeightOf(t) = H[t]
  BY <1>1, ReferenceFacts, Zenon
<1>3. View(coins, MinedTxs, Spent, H)
  BY <1>1, <1>2, Zenon DEF Holds
<1>4. OutputsFollowChain
  <2>1. ASSUME NEW t \in Txs, coins[t].vout # {} PROVE HeightOf(t) = H[t]
    <3>1. t \in MinedTxs
      BY <1>3, <2>1, Zenon DEF View
    <3> QED
      BY <1>2, <3>1, Zenon
  <2> QED
    BY <1>3, <2>1, Zenon DEF View, OutputsFollowChain
<1>5. CoinbaseSpendsMature
  <2>1. ASSUME NEW m \in Mined, NEW i \in DOMAIN vin[chain[m[1]][m[2]]],
               vin[chain[m[1]][m[2]]][i][1] \in CoinBase
        PROVE  m[1] - HeightOf(vin[chain[m[1]][m[2]]][i][1]) >= Maturity
    <3> DEFINE o == vin[chain[m[1]][m[2]]][i]
    <3>1. o \in Range(vin[chain[m[1]][m[2]]])
      BY Zenon DEF Range
    <3>2. o[1] \in MinedTxs /\ m[1] - H[o[1]] >= Maturity
      BY <1>2, <2>1, <3>1, Zenon
    <3>3. HeightOf(o[1]) = H[o[1]]
      BY <1>2, <3>2, Zenon
    <3> QED
      BY <3>2, <3>3, Zenon
  <2> QED
    BY <2>1, Zenon DEF CoinbaseSpendsMature
<1>6. UndoTypeOK
  <2>1. /\ chain \in Seq(Blocks) /\ Len(chain) <= MaxHeight /\ coins \in [Txs -> Coin]
        /\ Len(undo) = Len(chain) /\ \A h \in 1 .. Len(chain) : Laid(chain, undo, H, h)
    BY <1>1, Zenon DEF Holds, ChainOK, UndoInv
  <2>2. DOMAIN chain = 1 .. Len(chain) /\ \A h \in 1 .. Len(chain) : chain[h] \in Blocks
    BY <2>1
  <2>3. \A h \in 1 .. Len(chain) : DOMAIN chain[h] = 1 .. Len(chain[h])
    BY <2>2, BlockFacts, Zenon
  <2>4. ASSUME NEW h \in 1 .. Len(chain)
        PROVE  /\ Len(undo[h]) = Len(chain[h])
               /\ \A i \in 1 .. Len(chain[h]) : /\ undo[h][i] \in Seq(Coin)
                                                /\ Len(undo[h][i]) = Len(vin[chain[h][i]])
    BY <2>1, ZenonT(60) DEF Laid, Fits, Entries
  <2> QED
    BY <2>1, <2>2, <2>3, <2>4, Zenon DEF UndoTypeOK
<1> QED
  BY <1>4, <1>5, <1>6, Zenon


-----------------------------------------------------------------------------
(* The theorems about CheckQueue *)

INSTANCE FiniteSetTheorems

(* There are finitely many workers and checks.                           *)
LEMMA AllSizes == Sizes
<1>1. IsFiniteSet(Threads) /\ IsFiniteSet(Checks)
  BY WorkersAssumption, ChecksAssumption, FS_AddElement, ZenonT(60) DEF Threads
<1>2. ASSUME NEW S, IsFiniteSet(S)
      PROVE  Cardinality(S) \in Nat /\ (Cardinality(S) = 0 <=> S = {})
  BY <1>2, FS_CardinalityType, FS_EmptySet, Zenon
<1>3. ASSUME NEW S \in SUBSET Threads
      PROVE  /\ \A R \in SUBSET S : Cardinality(R) <= Cardinality(S)
             /\ \A t \in Threads \ S : Cardinality(S \cup {t}) = Cardinality(S) + 1
  <2>1. IsFiniteSet(S)
    BY <1>1, FS_Subset, Zenon
  <2> QED BY <2>1, FS_Subset, FS_AddElement, ZenonT(60)
<1>4. ASSUME NEW S \in SUBSET Checks, NEW R \in SUBSET Checks, S \cap R = {}
      PROVE  Cardinality(S \cup R) = Cardinality(S) + Cardinality(R)
  <2>1. IsFiniteSet(S) /\ IsFiniteSet(R)
    BY <1>1, FS_Subset, Zenon
  <2>2. Cardinality(S \cup R) = Cardinality(S) + Cardinality(R) - Cardinality(S \cap R)
    BY <2>1, FS_Union, Zenon
  <2>3. Cardinality(S \cap R) = 0
    BY <1>4, FS_EmptySet, Zenon
  <2> QED BY <1>2, <2>1, <2>2, <2>3, SMTT(30)
<1>5. \A S \in SUBSET Threads : IsFiniteSet(S)
  BY <1>1, FS_Subset, Zenon
<1>6. \A S \in SUBSET Checks : IsFiniteSet(S)
  BY <1>1, FS_Subset, Zenon
<1> QED BY <1>2, <1>3, <1>4, <1>5, <1>6, SMTT(30) DEF Sizes

\* The inductive invariant holds in every reachable state.
THEOREM Invariance ==
    Spec => [](IInv /\ TypeOK /\ IdleWhenClosed /\ AnswerIsVerdict /\ NoCheckOutlivesControl)
<1>1. Init => IInv
  BY AllSizes, InitIInv, Zenon
<1>2. IInv /\ [Next]_vars => IInv'
  BY AllSizes, NextIInv, Zenon
<1>3. IInv => TypeOK /\ IdleWhenClosed /\ AnswerIsVerdict /\ NoCheckOutlivesControl
  BY AllSizes, IInvImplies, Zenon
<1> QED BY <1>1, <1>2, <1>3, PTL DEF Spec

\* Type correctness of the check queue.
THEOREM TypeCorrect == Spec => []TypeOK
BY Invariance, PTL

\* assert(isIdle) in CCheckQueueControl's constructor never fails, for any
\* number of workers, checks, sessions, spurious wake-ups and interruptions.
THEOREM ConstructorAssertion == Spec => []IdleWhenClosed
BY Invariance, PTL

\* Wait() answers exactly for the checks of its session.
THEOREM AnswerCorrect == Spec => []AnswerIsVerdict
BY Invariance, PTL

\* No thread holds a check once the control is closed.
THEOREM ChecksReleased == Spec => []NoCheckOutlivesControl
BY Invariance, PTL

\* The threads, batches and counters of CCheckQueue implement the conjunction
\* that CCheckQueueControl promises to ConnectBlock.
THEOREM Refinement == Spec => ImplementsControl
<1>1. Init => Abs!CInit
  BY Zenon DEF Init, Abs!CInit
<1>2. IInv /\ IInv' /\ [Next]_vars => [Abs!CNext]_ctlVars
  BY AllSizes, NextRefines, Zenon DEF Abs!cvars
<1> QED BY <1>1, <1>2, Invariance, PTL DEF Spec, ImplementsControl, Abs!CSpec, Abs!cvars, ctlVars

Less == {pair \in Nat \X Nat : pair[1] < pair[2]}

\* Every non-empty set of naturals has a least member.
LEMMA LeastNumbers == Least
<1> SUFFICES ASSUME NEW T \in SUBSET Nat, T # {} PROVE \E x \in T : \A y \in T : x <= y
  BY Zenon DEF Least
<1>1. IsWellFoundedOn(Less, Nat)
  BY NatLessThanWellFounded, Zenon DEF OpToRel, Less
<1>2. PICK x \in T : \A y \in T : <<y, x>> \notin Less
  BY <1>1, WFMin, Zenon
<1>3. \A y \in T : ~(y < x)
  BY <1>2, Zenon DEF Less
<1> QED
  BY <1>3, SMTT(30)

-----------------------------------------------------------------------------
(* The theorems about BlockUndo *)

\* UndoInv is an invariant of BlockUndo and implies its properties.
THEOREM UndoInvariance == UndoSpec => [](UndoInv /\ UndoTypeOK /\ OutputsFollowChain /\ CoinbaseSpendsMature)
<1>1. UndoInit => UndoInv
  BY UndoInitInv, Zenon
<1>2. UndoInv /\ [UndoNext]_undoVars => UndoInv'
  BY LeastNumbers, UndoNextInv, Zenon
<1>3. UndoInv => UndoTypeOK /\ OutputsFollowChain /\ CoinbaseSpendsMature
  BY UndoImplies, Zenon
<1> QED BY <1>1, <1>2, <1>3, PTL DEF UndoSpec

\* Every block of the chain has its undo data, one entry per input of every
\* transaction, as DisconnectBlock expects it.
THEOREM UndoTypeCorrect == UndoSpec => []UndoTypeOK
BY UndoInvariance, PTL

\* Whatever blocks are connected and disconnected, the unspent outputs, their
\* heights and their coinbase flags are those of the active chain.
THEOREM OutputsAlwaysFollow == UndoSpec => []OutputsFollowChain
BY UndoInvariance, PTL

\* No block of the active chain spends a coinbase that is less than Maturity
\* blocks deep, whatever was disconnected and restored before.
THEOREM CoinbasesAlwaysMature == UndoSpec => []CoinbaseSpendsMature
BY UndoInvariance, PTL
=============================================================================
