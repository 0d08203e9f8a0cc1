----------------------------- MODULE CheckQueue -----------------------------
(***************************************************************************)
(* CCheckQueue and CCheckQueueControl of src/src/checkqueue.h: the script  *)
(* check threads (ThreadScriptCheck) and the thread inside ConnectBlock,   *)
(* which joins them as N'th worker when it calls Wait().                   *)
(*                                                                         *)
(* Every action is one critical section of the queue's mutex.  The checks  *)
(* themselves run outside it and touch nothing shared, so their execution  *)
(* is folded into the critical section that accounts for it.  The queue is *)
(* a set: the code uses it as a stack because "the order of booleans       *)
(* doesn't matter", and any choice of batch covers that order.             *)
(***************************************************************************)
EXTENDS Integers, FiniteSets

CONSTANTS Workers,      \* the threads running CCheckQueue::Thread
          Master,       \* the thread holding the CCheckQueueControl
          Checks,       \* identities of the checks of one session
          Bad,          \* the checks that return false
          nBatchSize,   \* bound on one batch (128 in main.cpp)
          GroupMasters  \* threads of threadGroup that may become Master; each
                        \* of them can be interrupted once

ASSUME MasterAssumption == Master \notin Workers
ASSUME WorkersAssumption == IsFiniteSet(Workers)
ASSUME ChecksAssumption == IsFiniteSet(Checks) /\ Bad \subseteq Checks
ASSUME BatchAssumption == nBatchSize \in Nat \ {0}
ASSUME GroupMastersAssumption == GroupMasters \in Nat

Threads == Workers \cup {Master}

VARIABLES queue,     \* checks not yet taken
          nIdle,     \* threads counted as waiting
          nTotal,    \* threads counted as inside Loop
          fAllOk,    \* no check has failed in this session
          nTodo,     \* checks added and not yet accounted for
          batch,     \* vChecks: the checks a thread has taken out
          fOk,       \* fOk: fAllOk as the thread saw it on taking them
          pc,        \* where a thread is (below)
          open,      \* a CCheckQueueControl exists
          added,     \* the checks of the session (history)
          result,    \* the answer of the last Wait() (history)
          shutdown,  \* threadGroup.interrupt_all() has been called
          unwinding, \* the master was interrupted: its answer is dropped
          interrupts \* masters interrupted so far

loopVars == <<queue, nIdle, nTotal, fAllOk, nTodo, batch, fOk, pc>>
ctlVars == <<open, added, result>>
vars == <<queue, nIdle, nTotal, fAllOk, nTodo, batch, fOk, pc,
          open, added, result, shutdown, unwinding, interrupts>>

(***************************************************************************)
(* "out"    not in Loop (a worker not started yet; the master elsewhere)   *)
(* "call"   the master has called Wait() and wants the mutex               *)
(* "wait"   in cond.wait                                                   *)
(* "ready"  woken, wants the mutex back                                    *)
(* "exec"   runs its batch outside the mutex                               *)
(* "gone"   the thread ended by boost::thread_interrupted                  *)
(***************************************************************************)
PC == {"out", "call", "wait", "ready", "exec", "gone"}

Abs == INSTANCE CheckControl

Max2(a, b) == IF a >= b THEN a ELSE b
Min2(a, b) == IF a <= b THEN a ELSE b

Init == /\ queue = {} /\ nIdle = 0 /\ nTotal = 0 /\ fAllOk = TRUE /\ nTodo = 0
        /\ batch = [t \in Threads |-> {}]
        /\ fOk = [t \in Threads |-> TRUE]
        /\ pc = [t \in Threads |-> "out"]
        /\ open = FALSE /\ added = {} /\ result = "none"
        /\ shutdown = FALSE /\ unwinding = FALSE /\ interrupts = 0

-----------------------------------------------------------------------------

(***************************************************************************)
(* The rest of a critical section of Loop once the clean-up is done: take  *)
(* a batch, return (the master, when nothing is left), or wait.  P is pc   *)
(* and B batch after the clean-up's own changes to them.                   *)
(***************************************************************************)
BatchSize(total, idle) ==
    Max2(1, Min2(nBatchSize, Cardinality(queue) \div (total + idle + 1)))

TakeBatch(t, total, idle, allOk, P, B) ==
    /\ queue # {}
    /\ \E S \in SUBSET queue :
         /\ Cardinality(S) = BatchSize(total, idle)
         /\ queue' = queue \ S
         /\ batch' = [B EXCEPT ![t] = S]
    /\ fOk' = [fOk EXCEPT ![t] = allOk]
    /\ pc' = [P EXCEPT ![t] = "exec"]
    /\ nTotal' = total /\ nIdle' = idle /\ fAllOk' = allOk
    /\ UNCHANGED <<open, result, unwinding>>

\* Faulty variants, for the mutation runs: returning as soon as the queue is
\* empty, and answering after the reset of fAllOk.
MasterReturnEarly(t, total, idle, allOk, todo, P, B) ==
    /\ queue = {} /\ t = Master
    /\ nTotal' = total - 1 /\ nIdle' = idle /\ fAllOk' = TRUE
    /\ pc' = [P EXCEPT ![t] = "out"]
    /\ result' = IF unwinding THEN "none" ELSE IF allOk THEN "ok" ELSE "fail"
    /\ open' = FALSE /\ unwinding' = FALSE
    /\ batch' = B
    /\ UNCHANGED <<queue, fOk>>

MasterReturnAfterReset(t, total, idle, allOk, todo, P, B) ==
    /\ queue = {} /\ t = Master /\ todo = 0
    /\ nTotal' = total - 1 /\ nIdle' = idle /\ fAllOk' = TRUE
    /\ pc' = [P EXCEPT ![t] = "out"]
    /\ result' = IF unwinding THEN "none" ELSE "ok"
    /\ open' = FALSE /\ unwinding' = FALSE
    /\ batch' = B
    /\ UNCHANGED <<queue, fOk>>

MasterReturn(t, total, idle, allOk, todo, P, B) ==
    /\ queue = {} /\ t = Master /\ todo = 0
    /\ nTotal' = total - 1 /\ nIdle' = idle /\ fAllOk' = TRUE
    /\ pc' = [P EXCEPT ![t] = "out"]
    /\ result' = IF unwinding THEN "none" ELSE IF allOk THEN "ok" ELSE "fail"
    /\ open' = FALSE /\ unwinding' = FALSE
    /\ batch' = B
    /\ UNCHANGED <<queue, fOk>>

WaitForWork(t, total, idle, allOk, todo, P, B) ==
    /\ queue = {} /\ ~(t = Master /\ todo = 0)
    /\ nIdle' = idle + 1 /\ nTotal' = total /\ fAllOk' = allOk
    /\ pc' = [P EXCEPT ![t] = "wait"]
    /\ batch' = B
    /\ UNCHANGED <<queue, fOk, open, result, unwinding>>

Loop(t, total, idle, allOk, todo, P, B) ==
    \/ TakeBatch(t, total, idle, allOk, P, B)
    \/ MasterReturn(t, total, idle, allOk, todo, P, B)
    \/ WaitForWork(t, total, idle, allOk, todo, P, B)

-----------------------------------------------------------------------------

\* First iteration of Loop: a worker thread starts, or the master calls Wait.
Enter(t) ==
    /\ pc[t] = IF t = Master THEN "call" ELSE "out"
    /\ Loop(t, nTotal + 1, nIdle, fAllOk, nTodo, pc, batch)
    /\ UNCHANGED <<nTodo, added, shutdown, interrupts>>

\* A woken thread has the mutex again, counts itself out of nIdle and loops.
Resume(t) ==
    /\ pc[t] = "ready"
    /\ Loop(t, nTotal, nIdle - 1, fAllOk, nTodo, pc, batch)
    /\ UNCHANGED <<nTodo, added, shutdown, interrupts>>

\* The batch has run: clean-up of the previous iteration, then the next one.
AllPass(t) == fOk[t] /\ batch[t] \cap Bad = {}

\* Faulty variant: condMaster.notify_one() forgotten.
NotifyNobody(t, todo) == pc

NotifyMaster(t, todo) ==
    IF todo = 0 /\ t # Master /\ pc[Master] = "wait"
    THEN [pc EXCEPT ![Master] = "ready"]
    ELSE pc

\* Faulty variant: fAllOk = fOk instead of fAllOk &= fOk.
FinishOverwrites(t) ==
    LET todo == nTodo - Cardinality(batch[t])
    IN  /\ pc[t] = "exec"
        /\ nTodo' = todo
        /\ Loop(t, nTotal, nIdle, AllPass(t), todo,
                NotifyMaster(t, todo), [batch EXCEPT ![t] = {}])
        /\ UNCHANGED <<added, shutdown, interrupts>>

Finish(t) ==
    LET todo == nTodo - Cardinality(batch[t])
    IN  /\ pc[t] = "exec"
        /\ nTodo' = todo
        /\ Loop(t, nTotal, nIdle, fAllOk /\ AllPass(t), todo,
                NotifyMaster(t, todo), [batch EXCEPT ![t] = {}])
        /\ UNCHANGED <<added, shutdown, interrupts>>

-----------------------------------------------------------------------------

\* CCheckQueue::IsIdle
IsIdle == nTotal = nIdle /\ nTodo = 0 /\ fAllOk = TRUE

\* CCheckQueueControl's constructor; its assert(isIdle) is IdleWhenClosed.
Construct ==
    /\ ~open
    /\ open' = TRUE /\ added' = {} /\ result' = "none"
    /\ UNCHANGED <<loopVars, shutdown, unwinding, interrupts>>

\* Add: notify_one for one check, notify_all for more, nothing for none.
Add(S) ==
    LET sleeping == {w \in Workers : pc[w] = "wait"}
    IN  /\ open /\ pc[Master] = "out"
        /\ S \cap added = {}
        /\ queue' = queue \cup S
        /\ nTodo' = nTodo + Cardinality(S)
        /\ added' = added \cup S
        /\ \/ /\ Cardinality(S) = 0 \/ sleeping = {}
              /\ pc' = pc
           \/ /\ Cardinality(S) = 1
              /\ \E w \in sleeping : pc' = [pc EXCEPT ![w] = "ready"]
           \/ /\ Cardinality(S) > 1 /\ sleeping # {}
              /\ pc' = [t \in Threads |->
                          IF t \in sleeping THEN "ready" ELSE pc[t]]
        /\ UNCHANGED <<nIdle, nTotal, fAllOk, batch, fOk,
                       open, result, shutdown, unwinding, interrupts>>

\* Wait() (called by ConnectBlock, or by the destructor on an early return).
CallWait ==
    /\ open /\ pc[Master] = "out"
    /\ pc' = [pc EXCEPT ![Master] = "call"]
    /\ UNCHANGED <<queue, nIdle, nTotal, fAllOk, nTodo, batch, fOk,
                   ctlVars, shutdown, unwinding, interrupts>>

\* boost's condition variables may wake without a notification.
SpuriousWake(t) ==
    /\ pc[t] = "wait"
    /\ pc' = [pc EXCEPT ![t] = "ready"]
    /\ UNCHANGED <<queue, nIdle, nTotal, fAllOk, nTodo, batch, fOk,
                   ctlVars, shutdown, unwinding, interrupts>>

-----------------------------------------------------------------------------

\* Shutdown: threadGroup.interrupt_all().
InterruptAll ==
    /\ ~shutdown
    /\ shutdown' = TRUE
    /\ UNCHANGED <<loopVars, ctlVars, unwinding, interrupts>>

\* cond.wait throws thread_interrupted in a worker: the thread ends, and
\* neither nIdle nor nTotal is corrected.
WorkerInterrupted(w) ==
    /\ shutdown /\ pc[w] \in {"wait", "ready"}
    /\ pc' = [pc EXCEPT ![w] = "gone"]
    /\ UNCHANGED <<queue, nIdle, nTotal, fAllOk, nTodo, batch, fOk,
                   ctlVars, shutdown, unwinding, interrupts>>

\* cond.wait throws in the master: the exception leaves Wait before fDone is
\* set, so the destructor enters Loop again as a first iteration.
MasterInterrupted ==
    /\ shutdown /\ interrupts < GroupMasters /\ pc[Master] \in {"wait", "ready"}
    /\ pc' = [pc EXCEPT ![Master] = "call"]
    /\ ~unwinding /\ unwinding' = TRUE
    /\ interrupts' = interrupts + 1
    /\ UNCHANGED <<queue, nIdle, nTotal, fAllOk, nTodo, batch, fOk,
                   ctlVars, shutdown>>

Next ==
    \/ \E t \in Threads : Enter(t) \/ Resume(t) \/ Finish(t) \/ SpuriousWake(t)
    \/ \E w \in Workers : WorkerInterrupted(w)
    \/ \E S \in SUBSET Checks : Add(S)
    \/ Construct \/ CallWait \/ InterruptAll \/ MasterInterrupted

Spec == Init /\ [][Next]_vars

(***************************************************************************)
(* Every thread that wants the mutex gets it eventually.  Nothing is       *)
(* assumed of workers that have not started, of spurious wake-ups, of      *)
(* interruptions, or of what the owner of the control does before Wait().  *)
(***************************************************************************)
Fairness == /\ \A t \in Threads : WF_vars(Resume(t)) /\ WF_vars(Finish(t))
            /\ WF_vars(Enter(Master))

LiveSpec == Spec /\ Fairness

-----------------------------------------------------------------------------

TypeOK ==
    /\ queue \subseteq Checks
    /\ nIdle \in Nat /\ nTotal \in Nat /\ nTodo \in Nat
    /\ fAllOk \in BOOLEAN
    /\ batch \in [Threads -> SUBSET Checks]
    /\ fOk \in [Threads -> BOOLEAN]
    /\ pc \in [Threads -> PC]
    /\ open \in BOOLEAN /\ added \subseteq Checks
    /\ result \in {"none", "ok", "fail"}
    /\ shutdown \in BOOLEAN /\ unwinding \in BOOLEAN
    /\ interrupts \in 0..GroupMasters

\* The assertion in CCheckQueueControl's constructor: whenever no control
\* exists the queue is idle, whatever the workers, late starters and
\* interruptions did in between.
IdleWhenClosed == ~open => IsIdle

\* A returned Wait() answered for exactly the checks of its session: a failure
\* cannot be lost to a batch in flight or leak in from an earlier session.
AnswerIsVerdict == result # "none" => result = Abs!Verdict(added)

\* Once the control is closed no thread holds a check: the checks point into
\* the block and the coins view that ConnectBlock is about to release.
NoCheckOutlivesControl ==
    ~open => queue = {} /\ \A t \in Threads : batch[t] = {}

\* The queue implements the one-shot conjunction that CheckControl describes.
ImplementsControl == Abs!CSpec

\* A caller of Wait() gets its answer: no notification is lost, and the master
\* finishes the work alone if every worker has been interrupted.
WaitReturns == (pc[Master] # "out") ~> (pc[Master] = "out")
=============================================================================
