--------------------------- MODULE Services_proofs ---------------------------
(***************************************************************************)
(* The safety properties of the service threads, for any number of         *)
(* requests, workers, service threads and tasks: the steps of the          *)
(* scheduler keep one invariant, those of the HTTP server another, and     *)
(* each step of the node is a step of one of the two or of neither.        *)
(***************************************************************************)
EXTENDS Services, TLAPS

\* The sizes of the sets of threads, which the two counters have to follow.
Sizes(W) ==
    \A S \in SUBSET W :
        /\ Cardinality(S) \in Nat
        /\ Cardinality(S) = 0 <=> S = {}
        /\ \A x \in W \ S : Cardinality(S \cup {x}) = Cardinality(S) + 1
        /\ \A x \in S : Cardinality(S \ {x}) = Cardinality(S) - 1

-----------------------------------------------------------------------------
\* The scheduler.

Serving == {s \in Servants : spc[s] \notin {"absent", "start", "gone"}}

Alone == \E s \in Servants : pool = {s}

\* Only threads of the pool are there, and each is counted while it serves.
ServingCounted ==
    /\ nThreadsServicingQueue = Cardinality(Serving)
    /\ \A s \in Servants : spc[s] # "absent" => s \in pool

\* What the only thread waits for is still in the queue when the wait ends,
\* or something that is due even earlier.
DueAlone ==
    Alone => \A s \in Servants :
        /\ spc[s] = "timed" => \E e \in taskQueue : e.time <= until[s]
        /\ spc[s] = "take" => \E e \in taskQueue : e.time <= now
        /\ spc[s] = "run" => current[s].time <= now

SchedulerInv == SchedulerTypeOK /\ ServingCounted /\ DueAlone

USE TasksAssumption, TimesAssumption

LEMMA SchedulerInitInv ==
    ASSUME Sizes(Servants), SchedulerInit PROVE SchedulerInv
<1>1. SchedulerTypeOK
  <2>1. /\ spc \in [Servants -> ServantPC]
        /\ until \in [Servants -> 0 .. MaxTime + Period]
        /\ current \in [Servants -> Entries \cup {NoEntry}]
    BY DEF SchedulerInit, ServantPC
  <2>2. now \in 0 .. MaxTime /\ nThreadsServicingQueue \in Nat
    BY DEF SchedulerInit
  <2>3. stopRequested \in BOOLEAN /\ stopWhenEmpty \in BOOLEAN /\ interrupted \in BOOLEAN
    BY Zenon DEF SchedulerInit
  <2>4. taskQueue \subseteq Entries /\ pool \in Pools /\ unscheduled \subseteq Tasks
    BY DEF SchedulerInit
  <2> QED
    BY <2>1, <2>2, <2>3, <2>4, Zenon DEF SchedulerTypeOK
<1>2. Serving = {}
  BY DEF SchedulerInit, Serving
<1>3. ServingCounted
  BY <1>2 DEF SchedulerInit, ServingCounted, Sizes
<1>4. DueAlone
  BY DEF SchedulerInit, DueAlone
<1> QED
  BY <1>1, <1>3, <1>4 DEF SchedulerInv

\* What a notification may do to the threads.
Stirring(pcs) ==
    /\ spc' \in [Servants -> ServantPC]
    /\ \A s \in Servants : \/ spc'[s] = pcs[s]
                           \/ pcs[s] = "idle" /\ spc'[s] = "empty"
                           \/ pcs[s] = "timed" /\ spc'[s] = "first"

\* A thread that sleeps in spc sleeps in pcs too: the step moves another one.
LEMMA NotifyStirs ==
    ASSUME NEW pcs \in [Servants -> ServantPC], NotifyServant(pcs),
           \A s \in Sleepers : pcs[s] = spc[s]
    PROVE  Stirring(pcs)
  BY DEF NotifyServant, Roused, Sleepers, Stirring, ServantPC

\* The users' steps, the clock, and a stop or an interruption.
LEMMA UserStep ==
    ASSUME SchedulerInv,
           \/ \E x \in Tasks, t \in 0 .. MaxTime : Schedule(x, t)
           \/ \E drain \in BOOLEAN : Stop(drain)
           \/ InterruptAll \/ Tick
    PROVE  SchedulerInv'
<1>1. Stirring(spc)
  <2>1. CASE \E x \in Tasks, t \in 0 .. MaxTime : Schedule(x, t)
    BY <2>1, NotifyStirs DEF Schedule, SchedulerInv, SchedulerTypeOK
  <2>2. CASE \E drain \in BOOLEAN : Stop(drain)
    BY <2>2 DEF Stop, SchedulerInv, SchedulerTypeOK, Roused, Sleepers, Stirring, ServantPC
  <2>3. CASE InterruptAll \/ Tick
    BY <2>3 DEF InterruptAll, Tick, SchedulerInv, SchedulerTypeOK, Stirring
  <2> QED
    BY <2>1, <2>2, <2>3
<1>2. /\ taskQueue \subseteq taskQueue' /\ taskQueue' \subseteq Entries
      /\ now' \in 0 .. MaxTime /\ now <= now'
      /\ stopRequested' \in BOOLEAN /\ stopWhenEmpty' \in BOOLEAN /\ interrupted' \in BOOLEAN
      /\ unscheduled' \subseteq Tasks
      /\ UNCHANGED <<nThreadsServicingQueue, until, current, pool>>
  <2>1. CASE \E x \in Tasks, t \in 0 .. MaxTime : Schedule(x, t)
    <3>1. PICK x \in Tasks, t \in 0 .. MaxTime : Schedule(x, t)
      BY <2>1
    <3>2. [time |-> t, task |-> x] \in Entries
      BY DEF Entries
    <3> QED
      BY <3>1, <3>2 DEF Schedule, SchedulerInv, SchedulerTypeOK
  <2>2. CASE \E drain \in BOOLEAN : Stop(drain)
    BY <2>2 DEF Stop, SchedulerInv, SchedulerTypeOK
  <2>3. CASE InterruptAll \/ Tick
    <3>1. now \in Nat /\ now' \in 0 .. MaxTime /\ now <= now'
      BY <2>3 DEF InterruptAll, Tick, SchedulerInv, SchedulerTypeOK
    <3>2. stopRequested' \in BOOLEAN /\ stopWhenEmpty' \in BOOLEAN /\ interrupted' \in BOOLEAN
      BY <2>3, Zenon DEF InterruptAll, Tick, SchedulerInv, SchedulerTypeOK
    <3> QED
      BY <2>3, <3>1, <3>2 DEF InterruptAll, Tick, SchedulerInv, SchedulerTypeOK
  <2> QED
    BY <2>1, <2>2, <2>3
<1>3. SchedulerTypeOK'
  BY <1>1, <1>2 DEF SchedulerInv, SchedulerTypeOK, Stirring
<1>4. Serving' = Serving
  BY <1>1 DEF Serving, Stirring
<1>5. ServingCounted'
  BY <1>1, <1>2, <1>4 DEF SchedulerInv, ServingCounted, Stirring
<1>6. DueAlone'
  <2>1. \A e \in taskQueue : e.time \in Nat
    BY DEF SchedulerInv, SchedulerTypeOK, Entries
  <2>2. \A s \in Servants : current[s].time \in Nat
    BY DEF SchedulerInv, SchedulerTypeOK, Entries, NoEntry
  <2>3. \A s \in Servants : spc'[s] \in {"timed", "take", "run"} => spc'[s] = spc[s]
    BY <1>1 DEF Stirring
  <2>4. now \in Nat /\ now' \in Nat
    BY <1>2 DEF SchedulerInv, SchedulerTypeOK
  <2> QED
    BY <1>2, <2>1, <2>2, <2>3, <2>4 DEF SchedulerInv, DueAlone, Alone
<1> QED
  BY <1>3, <1>5, <1>6 DEF SchedulerInv

\* The steps of a thread that neither come in nor go out, nor touch the queue.
LEMMA WaitingStep ==
    ASSUME SchedulerInv, NEW s \in Servants,
           \/ Loop(s) \/ RandAddSeedSleep(s) \/ AwaitTask(s) \/ AwaitTime(s) \/ TimedOut(s)
    PROVE  SchedulerInv'
<1> USE DEF quiet, Move
<1>1. /\ UNCHANGED <<now, stopRequested, stopWhenEmpty, pool, unscheduled, interrupted,
                     taskQueue, nThreadsServicingQueue, current>>
      /\ spc' \in [Servants -> ServantPC]
      /\ \A x \in Servants \ {s} : spc'[x] = spc[x]
      /\ spc[s] \notin {"absent", "start", "gone"} /\ spc'[s] \notin {"absent", "start", "gone", "run"}
  BY DEF SchedulerInv, SchedulerTypeOK, ServantPC, Loop, RandAddSeedSleep, AwaitTask, AwaitTime, TimedOut
<1>2. /\ until' \in [Servants -> 0 .. MaxTime + Period]
      /\ \A x \in Servants \ {s} : until'[x] = until[x]
  BY DEF SchedulerInv, SchedulerTypeOK, Entries, Firsts, Loop, RandAddSeedSleep, AwaitTask, AwaitTime, TimedOut
<1>3. SchedulerTypeOK'
  BY <1>1, <1>2 DEF SchedulerInv, SchedulerTypeOK
<1>4. Serving' = Serving
  BY <1>1 DEF Serving
<1>5. ServingCounted'
  BY <1>1, <1>4 DEF SchedulerInv, ServingCounted
<1>6. ASSUME Alone, spc'[s] = "timed" PROVE \E e \in taskQueue : e.time <= until'[s]
  <2>1. AwaitTime(s)
    BY <1>6 DEF SchedulerInv, SchedulerTypeOK, Loop, RandAddSeedSleep, AwaitTask, AwaitTime, TimedOut
  <2>2. PICK e \in Firsts : until' = [until EXCEPT ![s] = e.time]
    BY <1>6, <2>1 DEF SchedulerInv, SchedulerTypeOK, AwaitTime
  <2>3. e \in taskQueue /\ until'[s] = e.time /\ e.time \in Nat
    BY <2>2 DEF Firsts, SchedulerInv, SchedulerTypeOK, Entries
  <2> QED
    BY <2>3
<1>7. ASSUME Alone, spc'[s] = "take" PROVE \E e \in taskQueue : e.time <= now
  <2>1. spc[s] = "timed" /\ until[s] <= now
    BY <1>7 DEF SchedulerInv, SchedulerTypeOK, Loop, RandAddSeedSleep, AwaitTask, AwaitTime, TimedOut
  <2>2. PICK e \in taskQueue : e.time <= until[s]
    BY <1>7, <2>1 DEF SchedulerInv, DueAlone
  <2>3. e.time \in Nat /\ until[s] \in Nat /\ now \in Nat
    BY DEF SchedulerInv, SchedulerTypeOK, Entries
  <2> QED
    BY <2>1, <2>2, <2>3
<1>8. DueAlone'
  <2>1. Alone' = Alone
    BY <1>1 DEF Alone
  <2> QED
    BY <1>1, <1>2, <1>6, <1>7, <2>1 DEF SchedulerInv, DueAlone
<1> QED
  BY <1>3, <1>5, <1>8 DEF SchedulerInv

\* The steps by which a thread comes in and goes out.
LEMMA CountedStep ==
    ASSUME Sizes(Servants), SchedulerInv, NEW s \in Servants, Enter(s) \/ Leave(s) \/ Unwind(s)
    PROVE  SchedulerInv'
<1> USE DEF quiet, Move
<1>1. /\ UNCHANGED <<now, stopRequested, stopWhenEmpty, pool, unscheduled, interrupted,
                     taskQueue, until, current>>
      /\ \/ spc[s] = "start" /\ nThreadsServicingQueue' = nThreadsServicingQueue + 1
         \/ /\ spc[s] \in {"loop", "idle", "timed", "run"}
            /\ nThreadsServicingQueue' = nThreadsServicingQueue - 1
  BY DEF Enter, Leave, Unwind
<1>2. PICK to \in {"loop", "gone"} :
         /\ Stirring([spc EXCEPT ![s] = to])
         /\ spc[s] = "start" <=> to = "loop"
  <2>1. CASE Enter(s)
    BY <2>1 DEF Enter, SchedulerInv, SchedulerTypeOK, Stirring, ServantPC
  <2>2. CASE Unwind(s)
    BY <2>2 DEF Unwind, SchedulerInv, SchedulerTypeOK, Stirring, ServantPC
  <2>3. CASE Leave(s)
    <3>1. [spc EXCEPT ![s] = "gone"] \in [Servants -> ServantPC]
      BY DEF SchedulerInv, SchedulerTypeOK, ServantPC
    <3>2. \A x \in Sleepers : [spc EXCEPT ![s] = "gone"][x] = spc[x]
      BY <2>3 DEF Leave, Sleepers, SchedulerInv, SchedulerTypeOK
    <3>3. Stirring([spc EXCEPT ![s] = "gone"])
      BY <2>3, <3>1, <3>2, NotifyStirs, Zenon DEF Leave
    <3> QED
      BY <2>3, <3>3 DEF Leave
  <2> QED
    BY <2>1, <2>2, <2>3
<1>3. /\ spc' \in [Servants -> ServantPC] /\ spc'[s] = to
      /\ \A x \in Servants \ {s} : \/ spc'[x] = spc[x]
                                   \/ spc[x] = "idle" /\ spc'[x] = "empty"
                                   \/ spc[x] = "timed" /\ spc'[x] = "first"
  <2> DEFINE pcs == [spc EXCEPT ![s] = to]
  <2>1. pcs[s] = to /\ \A x \in Servants \ {s} : pcs[x] = spc[x]
    BY DEF SchedulerInv, SchedulerTypeOK
  <2>2. Stirring(pcs)
    BY <1>2
  <2> HIDE DEF pcs
  <2>3. to # "idle" /\ to # "timed"
    BY <1>2
  <2> QED
    BY <2>1, <2>2, <2>3 DEF Stirring
<1>4. \/ to = "loop" /\ s \notin Serving /\ Serving' = Serving \cup {s}
      \/ to = "gone" /\ s \in Serving /\ Serving' = Serving \ {s}
  BY <1>1, <1>2, <1>3 DEF Serving
<1>5. nThreadsServicingQueue' = Cardinality(Serving') /\ nThreadsServicingQueue' \in Nat
  <2>1. /\ Serving \in SUBSET Servants /\ Serving' \in SUBSET Servants
        /\ nThreadsServicingQueue = Cardinality(Serving)
    BY <1>4 DEF SchedulerInv, ServingCounted, Serving
  <2> QED
    BY <1>1, <1>2, <1>4, <2>1 DEF Sizes
<1>6. SchedulerTypeOK'
  BY <1>1, <1>3, <1>5 DEF SchedulerInv, SchedulerTypeOK
<1>7. ServingCounted'
  BY <1>1, <1>3, <1>5 DEF SchedulerInv, ServingCounted
<1>8. DueAlone'
  BY <1>1, <1>2, <1>3, Zenon DEF SchedulerInv, DueAlone, Alone
<1> QED
  BY <1>6, <1>7, <1>8 DEF SchedulerInv

\* A thread takes the first task out and runs it.
LEMMA TaskStep ==
    ASSUME SchedulerInv, NEW s \in Servants, Take(s) \/ RunTask(s)
    PROVE  SchedulerInv'
<1> USE DEF quiet, Move
<1>1. CASE spc[s] = "take" /\ UNCHANGED <<taskQueue, current>>
  <2>1. /\ UNCHANGED <<now, stopRequested, stopWhenEmpty, pool, unscheduled, interrupted,
                       taskQueue, nThreadsServicingQueue, current, until>>
        /\ spc' \in [Servants -> ServantPC]
        /\ \A x \in Servants \ {s} : spc'[x] = spc[x]
        /\ spc'[s] = "loop"
    <3>1. \A e \in taskQueue : taskQueue \ {e} # taskQueue
      OBVIOUS
    <3>2. spc' = [spc EXCEPT ![s] = "loop"]
      BY <1>1, <3>1 DEF Take, RunTask, Firsts
    <3> QED
      BY <1>1, <3>2 DEF SchedulerInv, SchedulerTypeOK, ServantPC, Take, RunTask
  <2>2. Serving' = Serving
    BY <1>1, <2>1 DEF Serving
  <2>3. SchedulerTypeOK' /\ ServingCounted'
    BY <1>1, <2>1, <2>2 DEF SchedulerInv, SchedulerTypeOK, ServingCounted
  <2>4. DueAlone'
    BY <2>1 DEF SchedulerInv, DueAlone, Alone
  <2> QED
    BY <2>3, <2>4 DEF SchedulerInv
<1>2. CASE \E e \in Firsts : /\ taskQueue' = taskQueue \ {e}
                            /\ current' = [current EXCEPT ![s] = e]
                            /\ spc[s] = "take" /\ spc' = [spc EXCEPT ![s] = "run"]
  <2>1. PICK e \in Firsts : /\ taskQueue' = taskQueue \ {e}
                            /\ current' = [current EXCEPT ![s] = e]
                            /\ spc[s] = "take" /\ spc' = [spc EXCEPT ![s] = "run"]
    BY <1>2, Zenon
  <2>2. UNCHANGED <<now, stopRequested, stopWhenEmpty, pool, unscheduled, interrupted,
                    nThreadsServicingQueue, until>>
    BY <2>1 DEF Take, RunTask
  <2>3. /\ spc' \in [Servants -> ServantPC] /\ spc'[s] = "run" /\ current'[s] = e
        /\ \A x \in Servants \ {s} : spc'[x] = spc[x] /\ current'[x] = current[x]
        /\ current' \in [Servants -> Entries \cup {NoEntry}]
        /\ taskQueue' \subseteq Entries
    BY <2>1 DEF SchedulerInv, SchedulerTypeOK, ServantPC, Firsts
  <2>4. Serving' = Serving
    BY <2>1, <2>3, Zenon DEF Serving
  <2>5. SchedulerTypeOK' /\ ServingCounted'
    BY <2>1, <2>2, <2>3, <2>4 DEF SchedulerInv, SchedulerTypeOK, ServingCounted
  <2>6. ASSUME Alone PROVE /\ e.time <= now
                           /\ \A x \in Servants \ {s} : spc[x] = "absent"
    <3>1. PICK f \in taskQueue : f.time <= now
      BY <2>1, <2>6 DEF SchedulerInv, DueAlone
    <3>2. e.time <= f.time /\ e.time \in Nat /\ f.time \in Nat /\ now \in Nat
      BY <3>1 DEF Firsts, SchedulerInv, SchedulerTypeOK, Entries
    <3>3. \A x \in Servants \ {s} : x \notin pool
      BY <2>1, <2>6 DEF Alone, SchedulerInv, ServingCounted
    <3> QED
      BY <3>1, <3>2, <3>3 DEF SchedulerInv, ServingCounted
  <2>7. DueAlone'
    <3>1. Alone' = Alone
      BY <2>2, Zenon DEF Alone
    <3> QED
      BY <2>2, <2>3, <2>6, <3>1 DEF DueAlone
  <2> QED
    BY <2>5, <2>7 DEF SchedulerInv
<1>3. CASE RunTask(s)
  <2>1. /\ spc[s] = "run" /\ current' = [current EXCEPT ![s] = NoEntry]
        /\ UNCHANGED <<now, stopRequested, stopWhenEmpty, pool, unscheduled, interrupted,
                       nThreadsServicingQueue, until>>
    BY <1>3 DEF RunTask
  <2>2. taskQueue \subseteq taskQueue' /\ taskQueue' \subseteq Entries
    <3>1. CASE UNCHANGED taskQueue
      BY <3>1 DEF SchedulerInv, SchedulerTypeOK
    <3>2. CASE /\ current[s].task \in Repeated
               /\ taskQueue' = taskQueue \cup {[time |-> now + Period, task |-> current[s].task]}
      <4>1. [time |-> now + Period, task |-> current[s].task] \in Entries
        BY <3>2 DEF Entries, SchedulerInv, SchedulerTypeOK
      <4> QED
        BY <3>2, <4>1 DEF SchedulerInv, SchedulerTypeOK
    <3> QED
      BY <1>3, <3>1, <3>2 DEF RunTask
  <2> DEFINE pcs == [spc EXCEPT ![s] = "loop"]
  <2>3. /\ pcs \in [Servants -> ServantPC] /\ pcs[s] = "loop"
        /\ \A x \in Servants \ {s} : pcs[x] = spc[x]
    BY DEF SchedulerInv, SchedulerTypeOK, ServantPC
  <2>4. NotifyServant(pcs) \/ spc' = pcs
    BY <1>3 DEF RunTask
  <2> HIDE DEF pcs
  <2>5. Stirring(pcs)
    <3>1. \A x \in Sleepers : pcs[x] = spc[x]
      BY <2>1, <2>3 DEF Sleepers
    <3>2. CASE NotifyServant(pcs)
      BY <2>3, <3>1, <3>2, NotifyStirs
    <3>3. CASE spc' = pcs
      BY <2>3, <3>3 DEF Stirring
    <3> QED
      BY <2>4, <3>2, <3>3
  <2>6. /\ spc' \in [Servants -> ServantPC] /\ spc'[s] = "loop"
        /\ \A x \in Servants \ {s} : \/ spc'[x] = spc[x]
                                     \/ spc[x] = "idle" /\ spc'[x] = "empty"
                                     \/ spc[x] = "timed" /\ spc'[x] = "first"
    BY <2>3, <2>5 DEF Stirring
  <2>7. /\ current' \in [Servants -> Entries \cup {NoEntry}]
        /\ \A x \in Servants \ {s} : current'[x] = current[x]
    BY <2>1 DEF SchedulerInv, SchedulerTypeOK
  <2>8. Serving' = Serving
    BY <2>1, <2>6 DEF Serving
  <2>9. SchedulerTypeOK' /\ ServingCounted'
    BY <2>1, <2>2, <2>6, <2>7, <2>8, ZenonT(60) DEF SchedulerInv, SchedulerTypeOK, ServingCounted
  <2>10. DueAlone'
    BY <2>1, <2>2, <2>6, <2>7 DEF SchedulerInv, DueAlone, Alone
  <2> QED
    BY <2>9, <2>10 DEF SchedulerInv
<1> QED
  BY <1>1, <1>2, <1>3 DEF Take

\* Every step of the scheduler keeps the invariant.
LEMMA SchedulerNextInv ==
    ASSUME Sizes(Servants), SchedulerInv, [SchedulerNext]_schedVars PROVE SchedulerInv'
<1>1. CASE UNCHANGED schedVars
  <2>1. SchedulerTypeOK'
    BY <1>1, Zenon DEF schedVars, SchedulerInv, SchedulerTypeOK
  <2>2. ServingCounted' /\ DueAlone'
    BY <1>1, Zenon DEF schedVars, SchedulerInv, ServingCounted, Serving, DueAlone, Alone
  <2> QED
    BY <2>1, <2>2 DEF SchedulerInv
<1>2. CASE SchedulerNext
  BY <1>2, UserStep, WaitingStep, CountedStep, TaskStep DEF SchedulerNext, Servant
<1> QED
  BY <1>1, <1>2

LEMMA SchedulerInvImplies ==
    ASSUME Sizes(Servants), SchedulerInv PROVE OnTimeAlone /\ NoneCountedAtExit
<1>1. OnTimeAlone
  BY DEF SchedulerInv, DueAlone, Alone, OnTimeAlone, OnTime
<1>2. NoneCountedAtExit
  <2>1. Joined => Serving = {}
    BY DEF Joined, SchedulerInv, ServingCounted, Serving
  <2> QED
    BY <2>1 DEF SchedulerInv, ServingCounted, NoneCountedAtExit, Sizes
<1> QED
  BY <1>1, <1>2

-----------------------------------------------------------------------------
\* The HTTP server.

Inside == {w \in HttpWorkers : wpc[w] \in {"ready", "wait", "serve", "served", "exit"}}

\* Who holds what: a request is in one hand at a time, has been received, and
\* has no reply before its handler has run.
Hands ==
    /\ \A w \in HttpWorkers : item[w] # NoRequest <=> wpc[w] \in {"serve", "served"}
    /\ \A v, w \in HttpWorkers : item[v] # NoRequest /\ item[v] = item[w] => v = w
    /\ \A i, j \in 1 .. Len(workQueue) : workQueue[i] = workQueue[j] => i = j
    /\ \A w \in HttpWorkers, i \in 1 .. Len(workQueue) : item[w] # workQueue[i]
    /\ inCallback # NoRequest =>
          /\ \A w \in HttpWorkers : item[w] # inCallback
          /\ \A i \in 1 .. Len(workQueue) : workQueue[i] # inCallback

HeldReceived ==
    /\ \A w \in HttpWorkers : item[w] # NoRequest => item[w] \in received
    /\ \A i \in 1 .. Len(workQueue) : workQueue[i] \in received
    /\ inCallback # NoRequest => inCallback \in received

Unreplied ==
    /\ \A w \in HttpWorkers : wpc[w] = "serve" => replies[item[w]] = 0
    /\ \A i \in 1 .. Len(workQueue) : replies[workQueue[i]] = 0
    /\ inCallback # NoRequest => replies[inCallback] = 0
    /\ \A r \in Requests : r \notin received => replies[r] = 0
    /\ \A r \in Requests : replies[r] \in {0, 1}
    /\ unsent \cap received = {}

NoneLost ==
    \A r \in Requests : r \in received /\ replies[r] = 0 =>
        \/ \E w \in HttpWorkers : item[w] = r
        \/ \E i \in 1 .. Len(workQueue) : workQueue[i] = r
        \/ inCallback = r

\* A worker that is out of the queue, or was late and will not take a request.
Parted(w) ==
    \/ wpc[w] \in {"absent", "gone"}
    \/ w \in late /\ wpc[w] \in {"start", "ready", "exit"}

\* The count is right, and once WaitExit has found 0 every worker is out of the
\* queue or late; it stays out of the waits because running is FALSE by then.
Counted ==
    /\ numThreads = Cardinality(Inside)
    /\ main = "init" => \A w \in HttpWorkers : wpc[w] = "absent"
    /\ main \in {"exiting", "asleep", "delete", "join", "stopped", "aborted"} => ~running
    /\ main \in {"delete", "join", "stopped", "aborted"} => \A w \in HttpWorkers : Parted(w)
    /\ deleted => main \in {"join", "stopped", "aborted"}

HttpInv == HttpTypeOK /\ Hands /\ HeldReceived /\ Unreplied /\ NoneLost /\ Counted

USE RequestsAssumption, MaxDepthAssumption, HttpFlagsAssumption

\* A server that has just been initialised, and one that does not exist.
LEMMA HttpInitInv ==
    ASSUME Sizes(HttpWorkers), HttpInit PROVE HttpInv
<1>1. HttpTypeOK
  <2>1. workQueue \in Seq(Requests)
    BY DEF HttpInit
  <2>2. /\ wpc \in [HttpWorkers -> WorkerPC]
        /\ item \in [HttpWorkers -> Requests \cup {NoRequest}]
        /\ replies \in [Requests -> Nat]
    BY DEF HttpInit, WorkerPC
  <2> QED
    BY <2>1, <2>2, Zenon DEF HttpInit, HttpTypeOK, MainPC
<1>2. Inside = {}
  BY DEF HttpInit, Inside
<1>3. Counted
  BY <1>2 DEF HttpInit, Counted, Sizes
<1>4. Hands /\ HeldReceived /\ Unreplied /\ NoneLost
  BY DEF HttpInit, Hands, HeldReceived, Unreplied, NoneLost
<1> QED
  BY <1>1, <1>3, <1>4 DEF HttpInv

\* What a notification may do to the workers and to the main thread.
Rousing ==
    /\ wpc' \in [HttpWorkers -> WorkerPC]
    /\ \A w \in HttpWorkers : wpc'[w] = wpc[w] \/ (wpc[w] = "wait" /\ wpc'[w] = "ready")
    /\ main' = main \/ (main = "asleep" /\ main' = "exiting")

LEMMA NotifyOneRouses ==
    ASSUME HttpTypeOK, NotifyOne PROVE Rousing
  BY DEF HttpTypeOK, NotifyOne, Rousing, Woken, Waiting, WorkerPC

LEMMA RousingInside ==
    ASSUME HttpTypeOK, Rousing PROVE Inside' = Inside
  BY Zenon DEF HttpTypeOK, Rousing, Inside

\* Requests that no step touches stay where they are.
LEMMA RequestsKept ==
    ASSUME HttpInv, UNCHANGED <<workQueue, item, inCallback, unsent, received, replies>>,
           \A w \in HttpWorkers : /\ wpc'[w] = "serve" <=> wpc[w] = "serve"
                                  /\ wpc'[w] = "served" <=> wpc[w] = "served"
    PROVE  Hands' /\ HeldReceived' /\ Unreplied' /\ NoneLost'
<1>1. Hands'
  <2>1. \A w \in HttpWorkers : item[w] # NoRequest <=> wpc'[w] \in {"serve", "served"}
    BY Zenon DEF HttpInv, Hands
  <2> QED
    BY <2>1 DEF HttpInv, Hands
<1>2. HeldReceived'
  BY Zenon DEF HttpInv, HeldReceived
<1>3. Unreplied'
  <2>1. \A w \in HttpWorkers : wpc'[w] = "serve" => replies[item[w]] = 0
    BY Zenon DEF HttpInv, Unreplied
  <2> QED
    BY <2>1, Zenon DEF HttpInv, Unreplied
<1>4. NoneLost'
  BY ZenonT(60) DEF HttpInv, NoneLost
<1> QED
  BY <1>1, <1>2, <1>3, <1>4, ZenonT(60)

\* A request that a worker has is in no other place.
LEMMA HeldApart ==
    ASSUME HttpInv, NEW w \in HttpWorkers, item[w] # NoRequest
    PROVE  /\ \A i \in 1 .. Len(workQueue) : workQueue[i] \in Requests /\ workQueue[i] # item[w]
           /\ \A x \in HttpWorkers \ {w} : wpc[x] = "serve" =>
                 item[x] \in Requests /\ item[x] # item[w]
           /\ inCallback # NoRequest => inCallback \in Requests /\ inCallback # item[w]
<1>1. /\ workQueue \in Seq(Requests) /\ inCallback \in Requests \cup {NoRequest}
      /\ item \in [HttpWorkers -> Requests \cup {NoRequest}]
  BY Zenon DEF HttpInv, HttpTypeOK
<1>2. /\ \A x \in HttpWorkers : item[x] # NoRequest <=> wpc[x] \in {"serve", "served"}
      /\ \A x \in HttpWorkers : item[w] = item[x] => w = x
      /\ \A i \in 1 .. Len(workQueue) : item[w] # workQueue[i]
      /\ inCallback # NoRequest => item[w] # inCallback
  BY Zenon DEF HttpInv, Hands
<1>3. \A i \in 1 .. Len(workQueue) : workQueue[i] \in Requests
  BY <1>1
<1>4. \A x \in HttpWorkers \ {w} : wpc[x] = "serve" => item[x] \in Requests /\ item[x] # item[w]
  BY <1>1, <1>2
<1> QED
  BY <1>1, <1>2, <1>3, <1>4

\* A step of the workers alone that moves none in or out.
LEMMA CountedKept ==
    ASSUME HttpInv, UNCHANGED <<running, numThreads, deleted, late, main>>, Inside' = Inside,
           \A x \in HttpWorkers : /\ wpc[x] = "absent" => wpc'[x] = "absent"
                                  /\ ~running /\ Parted(x) => Parted(x)'
    PROVE  Counted'
  BY Zenon DEF HttpInv, Counted

LEMMA StartStep ==
    ASSUME HttpInv, StartHTTPServer \/ StartFails PROVE HttpInv'
<1> USE DEF queueVars, eventVars, replyVars
<1>1. HttpTypeOK'
  BY ZenonT(60) DEF HttpInv, StartHTTPServer, StartFails, HttpTypeOK, WorkerPC, MainPC
<1>2. Hands' /\ HeldReceived' /\ Unreplied' /\ NoneLost'
  BY DEF HttpInv, StartHTTPServer, StartFails, Counted, Hands, HeldReceived, Unreplied, NoneLost
<1>3. Inside' = Inside /\ numThreads' = numThreads
  BY ZenonT(60) DEF HttpInv, StartHTTPServer, StartFails, Counted, Inside
<1>4. Counted'
  BY <1>1, <1>3 DEF HttpInv, StartHTTPServer, StartFails, Counted, HttpTypeOK
<1> QED
  BY <1>1, <1>2, <1>4, Zenon DEF HttpInv

LEMMA CallbackStep ==
    ASSUME HttpInv, NEW r \in Requests,
           RequestCallback(r) \/ RejectCallback(r) \/ SendReply(r)
    PROVE  HttpInv'
<1> USE DEF queueVars, eventVars, replyVars, WriteReply
<1>1. HttpTypeOK'
  <2>1. CASE RequestCallback(r)
    <3>1. replies \in [Requests -> Nat] /\ posted \subseteq Requests
      BY ZenonT(60) DEF HttpInv, HttpTypeOK
    <3>2. \/ replies' = replies /\ posted' = posted
          \/ /\ replies' = [q \in Requests |-> IF q \in {r} THEN replies[q] + 1 ELSE replies[q]]
             /\ posted' = posted \cup {r}
      BY <2>1 DEF RequestCallback
    <3>3. replies' \in [Requests -> Nat] /\ posted' \subseteq Requests
      BY <3>1, <3>2
    <3> QED
      BY <2>1, <3>3 DEF HttpInv, HttpTypeOK, RequestCallback
  <2>2. CASE RejectCallback(r)
    BY <2>2 DEF HttpInv, HttpTypeOK, RejectCallback
  <2>3. CASE SendReply(r)
    BY <2>3, Zenon DEF HttpInv, HttpTypeOK, SendReply
  <2> QED
    BY <2>1, <2>2, <2>3, ZenonT(60)
<1>2. Hands'
  <2>1. UNCHANGED <<workQueue, wpc, item>> /\ inCallback = NoRequest
    BY Zenon DEF RequestCallback, RejectCallback, SendReply
  <2>2. inCallback' = NoRequest \/ (inCallback' = r /\ r \in unsent)
    BY <2>1, Zenon DEF RequestCallback, RejectCallback, SendReply
  <2>3. ASSUME r \in unsent
        PROVE  /\ \A x \in HttpWorkers : item[x] # r
               /\ \A i \in 1 .. Len(workQueue) : workQueue[i] # r
    BY <2>3 DEF HttpInv, HeldReceived, Unreplied
  <2> QED
    BY <2>1, <2>2, <2>3, ZenonT(60) DEF HttpInv, Hands
<1>3. HeldReceived'
  BY Zenon DEF HttpInv, HttpTypeOK, HeldReceived, RequestCallback, RejectCallback, SendReply
<1>4. Unreplied'
  <2>1. CASE RequestCallback(r)
    BY <2>1 DEF HttpInv, HttpTypeOK, Hands, HeldReceived, Unreplied, RequestCallback
  <2>2. CASE RejectCallback(r)
    BY <2>2 DEF HttpInv, HttpTypeOK, Hands, HeldReceived, Unreplied, RejectCallback
  <2>3. CASE SendReply(r)
    BY <2>3, Zenon DEF HttpInv, Unreplied, SendReply
  <2> QED
    BY <2>1, <2>2, <2>3, ZenonT(60)
<1>5. NoneLost'
  <2>1. CASE RequestCallback(r)
    BY <2>1 DEF HttpInv, HttpTypeOK, Unreplied, NoneLost, RequestCallback
  <2>2. CASE RejectCallback(r)
    BY <2>2 DEF HttpInv, HttpTypeOK, Unreplied, NoneLost, RejectCallback
  <2>3. CASE SendReply(r)
    BY <2>3, Zenon DEF HttpInv, NoneLost, SendReply
  <2> QED
    BY <2>1, <2>2, <2>3, Zenon
<1>6. Counted'
  BY DEF HttpInv, Counted, Parted, Inside, RequestCallback, RejectCallback, SendReply
<1> QED
  BY <1>1, <1>2, <1>3, <1>4, <1>5, <1>6 DEF HttpInv

LEMMA EnqueueStep ==
    ASSUME HttpInv, Enqueue PROVE HttpInv'
<1> USE DEF eventVars, replyVars, WriteReply
<1>1. Rousing
  <2>1. CASE UNCHANGED <<wpc, main>>
    BY <2>1 DEF HttpInv, HttpTypeOK, Rousing
  <2>2. CASE NotifyOne
    BY <2>2, NotifyOneRouses, Zenon DEF HttpInv
  <2> QED
    BY <2>1, <2>2 DEF Enqueue
<1>2. workQueue' \in Seq(Requests)
  <2>1. workQueue \in Seq(Requests) /\ inCallback \in Requests
    BY DEF HttpInv, HttpTypeOK, Enqueue
  <2>2. Append(workQueue, inCallback) \in Seq(Requests)
    BY <2>1
  <2> QED
    BY <2>1, <2>2, ZenonT(60) DEF Enqueue
<1>3. HttpTypeOK'
  <2>1. main' \in MainPC /\ wpc' \in [HttpWorkers -> WorkerPC]
    BY <1>1, Zenon DEF HttpInv, HttpTypeOK, Rousing, MainPC
  <2>2. replies' \in [Requests -> Nat] /\ posted' \subseteq Requests
    BY DEF HttpInv, HttpTypeOK, Enqueue
  <2>3. /\ UNCHANGED <<running, numThreads, item, deleted, late, gencb, loop, unsent, received>>
        /\ inCallback' = NoRequest
    BY DEF Enqueue
  <2> QED
    BY <1>2, <2>1, <2>2, <2>3, Zenon DEF HttpInv, HttpTypeOK
<1>4. CASE workQueue' = workQueue /\ WriteReply({inCallback})
  <2>1. /\ inCallback \in Requests /\ inCallback' = NoRequest
        /\ UNCHANGED <<item, received, unsent, running, numThreads, deleted, late>>
    BY Zenon DEF HttpInv, HttpTypeOK, Enqueue
  <2>2. \A r \in Requests : replies'[r] = IF r = inCallback THEN replies[r] + 1 ELSE replies[r]
    BY <1>4, Zenon
  <2>3. Hands' /\ HeldReceived'
    BY <1>1, <1>4, <2>1, ZenonT(60) DEF HttpInv, Hands, HeldReceived, Rousing
  <2>4. Unreplied'
    <3>1. \A i \in 1 .. Len(workQueue) : workQueue[i] \in Requests /\ workQueue[i] # inCallback
      BY <2>1 DEF HttpInv, HttpTypeOK, Hands
    <3>2. \A w \in HttpWorkers : wpc'[w] = "serve" =>
             wpc[w] = "serve" /\ item[w] \in Requests /\ item[w] # inCallback
      BY <1>1, <2>1, Zenon DEF HttpInv, HttpTypeOK, Hands, Rousing
    <3>3. inCallback \in received /\ replies[inCallback] = 0
      BY <2>1, Zenon DEF HttpInv, HeldReceived, Unreplied
    <3> QED
      BY <1>4, <2>1, <2>2, <3>1, <3>2, <3>3 DEF HttpInv, Unreplied
  <2>5. NoneLost'
    <3>1. \A r \in Requests : replies'[r] = 0 => r # inCallback /\ replies[r] = 0
      BY <2>2 DEF HttpInv, HttpTypeOK
    <3> QED
      BY <1>4, <2>1, <3>1, ZenonT(60) DEF HttpInv, NoneLost
  <2>6. Counted'
    BY <1>1, <2>1, RousingInside DEF HttpInv, Counted, Parted, Rousing
  <2> QED
    BY <1>3, <2>3, <2>4, <2>5, <2>6, Zenon DEF HttpInv
<1>5. CASE workQueue' = Append(workQueue, inCallback) /\ UNCHANGED replyVars
  <2> DEFINE n == Len(workQueue)
  <2>1. /\ n \in Nat /\ Len(workQueue') = n + 1
        /\ \A i \in 1 .. n : workQueue'[i] = workQueue[i]
        /\ workQueue'[n + 1] = inCallback
    BY <1>5 DEF HttpInv, HttpTypeOK
  <2>2. /\ inCallback # NoRequest /\ inCallback' = NoRequest
        /\ UNCHANGED <<item, received, unsent, running, numThreads, deleted, late>>
    BY DEF Enqueue
  <2> HIDE DEF n
  <2>3. \A i \in 1 .. Len(workQueue') : i \in 1 .. n \/ i = n + 1
    BY <2>1
  <2>4. Hands'
    BY <1>1, <2>1, <2>2, <2>3 DEF HttpInv, Hands, Rousing, n
  <2>5. HeldReceived'
    BY <2>1, <2>2, <2>3, Zenon DEF HttpInv, HeldReceived, n
  <2>6. Unreplied'
    <3>1. /\ \A i \in 1 .. n : replies[workQueue[i]] = 0
          /\ replies[inCallback] = 0
      BY <2>2, Zenon DEF HttpInv, Unreplied, n
    <3>2. \A i \in 1 .. Len(workQueue') : replies[workQueue'[i]] = 0
      BY <2>1, <2>3, <3>1, Zenon
    <3>3. \A x \in HttpWorkers : wpc'[x] = "serve" => replies[item[x]] = 0
      BY <1>1, ZenonT(60) DEF HttpInv, Unreplied, Rousing
    <3> QED
      BY <1>5, <2>2, <3>2, <3>3, Zenon DEF HttpInv, Unreplied
  <2>7. NoneLost'
    <3>1. \A i \in 1 .. n : i \in 1 .. Len(workQueue')
      BY <2>1
    <3>2. n + 1 \in 1 .. Len(workQueue')
      BY <2>1
    <3> QED
      BY <1>5, <2>1, <2>2, <3>1, <3>2 DEF HttpInv, NoneLost, n
  <2>8. Counted'
    BY <1>1, <2>2, RousingInside DEF HttpInv, Counted, Parted, Rousing
  <2> QED
    BY <1>3, <2>4, <2>5, <2>6, <2>7, <2>8, ZenonT(60) DEF HttpInv
<1> QED
  BY <1>4, <1>5 DEF Enqueue

\* Steps that leave the requests alone and move no worker in or out.
LEMMA QuietStep ==
    ASSUME Sizes(HttpWorkers), HttpInv,
           \/ LoopEnds \/ RejectRequests \/ Interrupt \/ WaitExit
           \/ BreakLoop \/ JoinEventThread \/ \E w \in HttpWorkers : SpuriousWake(w)
    PROVE  HttpInv'
<1> USE DEF queueVars, eventVars, replyVars
<1>1. /\ wpc' \in [HttpWorkers -> WorkerPC]
      /\ \A w \in HttpWorkers : wpc'[w] = wpc[w] \/ (wpc[w] = "wait" /\ wpc'[w] = "ready")
      /\ UNCHANGED <<workQueue, numThreads, item, deleted, inCallback, unsent, received,
                     replies, posted>>
      /\ late' = late \/ WaitExit
  <2>1. UNCHANGED <<workQueue, numThreads, item, deleted, inCallback, unsent, received,
                    replies, posted>>
    BY Zenon DEF LoopEnds, RejectRequests, Interrupt, WaitExit, BreakLoop, JoinEventThread, SpuriousWake
  <2>2. wpc \in [HttpWorkers -> WorkerPC]
    BY DEF HttpInv, HttpTypeOK
  <2>7. late' = late \/ WaitExit
    BY Zenon DEF LoopEnds, RejectRequests, Interrupt, BreakLoop, JoinEventThread, SpuriousWake
  <2>3. CASE wpc' = wpc
    BY <2>1, <2>2, <2>3, <2>7, Zenon
  <2>4. CASE Interrupt
    <3>1. wpc' = [w \in HttpWorkers |-> IF wpc[w] = "wait" THEN "ready" ELSE wpc[w]]
      BY <2>4 DEF Interrupt
    <3> QED
      BY <2>1, <2>2, <2>7, <3>1, Zenon DEF WorkerPC
  <2>5. CASE \E w \in HttpWorkers : SpuriousWake(w)
    <3>1. PICK w \in HttpWorkers : wpc[w] = "wait" /\ wpc' = Woken({w})
      BY <2>5, ZenonT(60) DEF SpuriousWake
    <3> QED
      BY <2>1, <2>2, <2>7, <3>1, Zenon DEF Woken, WorkerPC
  <2>6. wpc' = wpc \/ Interrupt \/ \E w \in HttpWorkers : SpuriousWake(w)
    BY DEF LoopEnds, RejectRequests, WaitExit, BreakLoop, JoinEventThread
  <2> QED
    BY <2>1, <2>3, <2>4, <2>5, <2>6
<1>2. HttpTypeOK'
  <2>6. late' \subseteq HttpWorkers
    BY <1>1, Zenon DEF HttpInv, HttpTypeOK, WaitExit
  <2>1. /\ running \in BOOLEAN /\ gencb \in {"request", "reject"} /\ main \in MainPC
        /\ loop \in {"off", "on", "broken", "done"}
    BY DEF HttpInv, HttpTypeOK
  <2>2. running' \in BOOLEAN
    BY <2>1, Zenon DEF LoopEnds, RejectRequests, Interrupt, WaitExit, BreakLoop, JoinEventThread, SpuriousWake
  <2>3. gencb' \in {"request", "reject"}
    BY <2>1, Zenon DEF LoopEnds, RejectRequests, Interrupt, WaitExit, BreakLoop, JoinEventThread, SpuriousWake
  <2>4. loop' \in {"off", "on", "broken", "done"}
    BY <2>1, Zenon DEF LoopEnds, RejectRequests, Interrupt, WaitExit, BreakLoop, JoinEventThread, SpuriousWake
  <2>5. main' \in MainPC
    BY <2>1, Zenon DEF MainPC, LoopEnds, RejectRequests, Interrupt, WaitExit, BreakLoop, JoinEventThread,
                SpuriousWake
  <2> QED
    BY <1>1, <2>2, <2>3, <2>4, <2>5, <2>6 DEF HttpInv, HttpTypeOK
<1>3. Hands' /\ HeldReceived' /\ Unreplied' /\ NoneLost'
  BY <1>1, RequestsKept
<1>4. Inside' = Inside
  BY <1>1 DEF Inside
<1>5. Counted'
  <2>1. numThreads' = Cardinality(Inside')
    BY <1>1, <1>4 DEF HttpInv, Counted
  <2>2. main' = "init" => main = "init"
    BY ZenonT(60) DEF HttpInv, HttpTypeOK, LoopEnds, RejectRequests, Interrupt, WaitExit,
           BreakLoop, JoinEventThread, SpuriousWake
  <2>3. CASE main' = "delete" /\ WaitExit
    <3>1. numThreads = 0
      BY <2>3 DEF HttpInv, HttpTypeOK, WaitExit
    <3>2. Inside = {}
      BY <3>1, Zenon DEF HttpInv, Counted, Sizes, Inside
    <3>3. /\ UNCHANGED <<wpc, running>> /\ main = "exiting"
          /\ late' = {w \in HttpWorkers : wpc[w] = "start"}
      BY <2>3 DEF WaitExit
    <3>4. \A w \in HttpWorkers : wpc[w] \in {"absent", "start", "gone"}
      BY <3>2, Zenon DEF Inside, HttpInv, HttpTypeOK, WorkerPC
    <3>5. \A w \in HttpWorkers : Parted(w)'
      BY <3>3, <3>4, Zenon DEF Parted
    <3>6. ~running' /\ ~deleted
      BY <3>3, Zenon DEF HttpInv, Counted
    <3> QED
      BY <1>1, <2>1, <2>3, <3>5, <3>6 DEF Counted
  <2>4. CASE ~(main' = "delete" /\ WaitExit)
    <3>1. main' \in {"delete", "join", "stopped", "aborted"} =>
             main \in {"delete", "join", "stopped", "aborted"}
      BY <2>4, Zenon DEF LoopEnds, RejectRequests, Interrupt, WaitExit,
              BreakLoop, JoinEventThread, SpuriousWake
    <3>2. deleted => main' \in {"join", "stopped", "aborted"}
      BY <2>4, Zenon DEF HttpInv, Counted, LoopEnds, RejectRequests, Interrupt, WaitExit,
              BreakLoop, JoinEventThread, SpuriousWake
    <3>3. /\ running' = running \/ ~running'
          /\ main' \in {"exiting", "asleep", "delete", "join", "stopped", "aborted"} =>
                \/ ~running'
                \/ main \in {"exiting", "asleep", "delete", "join", "stopped", "aborted"}
      BY Zenon DEF LoopEnds, RejectRequests, Interrupt, WaitExit, BreakLoop, JoinEventThread,
              SpuriousWake
    <3>4. ASSUME main \in {"delete", "join", "stopped", "aborted"}, NEW w \in HttpWorkers
          PROVE  Parted(w)'
      <4>1. late' = late
        BY <1>1, <3>4, Zenon DEF WaitExit
      <4>2. Parted(w)
        BY <3>4, Zenon DEF HttpInv, Counted
      <4> QED
        BY <1>1, <4>1, <4>2, Zenon DEF Parted
    <3> QED
      <4>1. main' = "init" => \A w \in HttpWorkers : wpc'[w] = "absent"
        BY <1>1, <2>2, Zenon DEF HttpInv, Counted
      <4>2. main' \in {"exiting", "asleep", "delete", "join", "stopped", "aborted"} => ~running'
        BY <3>3, Zenon DEF HttpInv, Counted
      <4>3. main' \in {"delete", "join", "stopped", "aborted"} =>
               \A w \in HttpWorkers : Parted(w)'
        BY <3>1, <3>4, Zenon
      <4> QED
        BY <1>1, <2>1, <3>2, <4>1, <4>2, <4>3, Zenon DEF Counted
  <2> QED
    BY <2>3, <2>4
<1> QED
  BY <1>2, <1>3, <1>5, ZenonT(60) DEF HttpInv

LEMMA CountStep ==
    ASSUME Sizes(HttpWorkers), HttpInv, NEW w \in HttpWorkers, Count(w) \/ Uncount(w)
    PROVE  HttpInv'
<1> USE DEF eventVars, replyVars
<1>1. /\ wpc' \in [HttpWorkers -> WorkerPC]
      /\ \A x \in HttpWorkers \ {w} : wpc'[x] = wpc[x] \/ (wpc[x] = "wait" /\ wpc'[x] = "ready")
      /\ \/ wpc[w] = "start" /\ wpc'[w] = "ready" /\ numThreads' = numThreads + 1
         \/ wpc[w] = "exit" /\ wpc'[w] = "gone" /\ numThreads' = numThreads - 1
  BY ZenonT(60) DEF HttpInv, HttpTypeOK, WorkerPC, Count, Uncount, NotifyAll
<1>2. /\ UNCHANGED <<workQueue, running, item, deleted, late, gencb, inCallback, loop, unsent,
                     received, replies, posted>>
      /\ main' = main \/ (main = "asleep" /\ main' = "exiting")
  BY Zenon DEF Count, Uncount, NotifyAll
<1>3. \/ w \notin Inside /\ Inside' = Inside \cup {w} /\ numThreads' = numThreads + 1
      \/ w \in Inside /\ Inside' = Inside \ {w} /\ numThreads' = numThreads - 1
  BY <1>1, Zenon DEF Inside
<1>4. numThreads' = Cardinality(Inside') /\ numThreads' \in Nat
  <2>1. Inside \in SUBSET HttpWorkers /\ numThreads = Cardinality(Inside) /\ Inside' \in SUBSET HttpWorkers
    BY <1>3, ZenonT(60) DEF HttpInv, Counted, Inside
  <2> QED
    BY <1>3, <2>1 DEF Sizes
<1>5. HttpTypeOK'
  BY <1>1, <1>2, <1>4 DEF HttpInv, HttpTypeOK, MainPC
<1>6. Hands' /\ HeldReceived' /\ Unreplied' /\ NoneLost'
  BY <1>1, <1>2, RequestsKept, Zenon
<1>7. Counted'
  <2>1. ASSUME main \in {"delete", "join", "stopped", "aborted"}, NEW x \in HttpWorkers
        PROVE  Parted(x)'
    <3>1. Parted(x)
      BY <2>1, Zenon DEF HttpInv, Counted
    <3> QED
      BY <1>1, <1>2, <3>1, Zenon DEF Parted
  <2> QED
    BY <1>1, <1>2, <1>4, <2>1, Zenon DEF HttpInv, Counted
<1> QED
  BY <1>5, <1>6, <1>7 DEF HttpInv

LEMMA RunStep ==
    ASSUME HttpInv, NEW w \in HttpWorkers, Run(w) PROVE HttpInv'
<1> USE DEF eventVars, replyVars
<1>1. CASE UNCHANGED <<workQueue, item>>
  <2>1. /\ wpc[w] = "ready" /\ wpc'[w] \in {"exit", "wait"}
        /\ wpc' \in [HttpWorkers -> WorkerPC]
        /\ \A x \in HttpWorkers \ {w} : wpc'[x] = wpc[x]
        /\ UNCHANGED <<workQueue, item, running, numThreads, deleted, late, gencb, inCallback, loop,
                       unsent, received, replies, posted, main>>
    BY <1>1 DEF HttpInv, HttpTypeOK, WorkerPC, Run
  <2>2. HttpTypeOK'
    BY <2>1, Zenon DEF HttpInv, HttpTypeOK
  <2>3. Hands' /\ HeldReceived' /\ Unreplied' /\ NoneLost'
    <3>1. \A x \in HttpWorkers : /\ wpc'[x] = "serve" <=> wpc[x] = "serve"
                                 /\ wpc'[x] = "served" <=> wpc[x] = "served"
      BY <2>1, Zenon
    <3> QED
      BY <2>1, <3>1, RequestsKept, Zenon
  <2>4. Inside' = Inside
    BY <2>1, ZenonT(60) DEF Inside
  <2>5. Counted'
    <3>1. ~running => wpc'[w] = "exit"
      BY <1>1 DEF Run, HttpInv, HttpTypeOK
    <3>2. \A x \in HttpWorkers : ~running /\ Parted(x) => Parted(x)'
      BY <2>1, <3>1, Zenon DEF Parted
    <3>3. \A x \in HttpWorkers : wpc[x] = "absent" => wpc'[x] = "absent"
      BY <2>1, Zenon
    <3> QED
      BY <2>1, <2>4, <3>2, <3>3, CountedKept, Zenon
  <2> QED
    BY <2>2, <2>3, <2>5, ZenonT(60) DEF HttpInv
<1>2. CASE running /\ workQueue # <<>>
  <2> DEFINE n == Len(workQueue)
  <2>1. /\ workQueue \in Seq(Requests) /\ workQueue' = Tail(workQueue)
        /\ item' = [item EXCEPT ![w] = Head(workQueue)]
        /\ wpc[w] = "ready" /\ wpc' = [wpc EXCEPT ![w] = "serve"]
        /\ UNCHANGED <<running, numThreads, deleted, late, gencb, inCallback, loop,
                       unsent, received, replies, posted, main>>
    BY <1>2, Zenon DEF HttpInv, HttpTypeOK, Run
  <2>2. /\ n \in Nat \ {0} /\ Len(workQueue') = n - 1
        /\ \A i \in 1 .. n - 1 : workQueue'[i] = workQueue[i + 1] /\ i + 1 \in 1 .. n
        /\ Head(workQueue) = workQueue[1] /\ 1 \in 1 .. n
        /\ workQueue[1] \in Requests
        /\ workQueue' \in Seq(Requests)
    BY <1>2, <2>1
  <2>3. /\ item'[w] = workQueue[1] /\ wpc'[w] = "serve"
        /\ \A x \in HttpWorkers \ {w} : item'[x] = item[x] /\ wpc'[x] = wpc[x]
        /\ item' \in [HttpWorkers -> Requests \cup {NoRequest}]
        /\ wpc' \in [HttpWorkers -> WorkerPC]
    BY <2>1, <2>2, Zenon DEF HttpInv, HttpTypeOK, WorkerPC
  <2>4. item[w] = NoRequest
    BY <2>1, Zenon DEF HttpInv, Hands
  <2>5. HttpTypeOK'
    BY <2>1, <2>2, <2>3, Zenon DEF HttpInv, HttpTypeOK
  <2> HIDE DEF n
  <2>6. /\ Len(workQueue') = n - 1 /\ n \in Nat \ {0} /\ workQueue[1] \in Requests
        /\ \A i \in 1 .. n - 1 : workQueue'[i] = workQueue[i + 1]
    BY <2>2, Zenon
  <2>7. /\ 1 \in 1 .. n
        /\ \A i \in 1 .. Len(workQueue') : \E j \in 1 .. n : j # 1 /\ workQueue'[i] = workQueue[j]
    BY <2>6
  <2>8. /\ item'[w] = workQueue[1] /\ wpc'[w] = "serve"
        /\ \A x \in HttpWorkers \ {w} : item'[x] = item[x] /\ wpc'[x] = wpc[x]
    BY <2>3, Zenon
  <2>9. /\ \A x \in HttpWorkers : item[x] # NoRequest <=> wpc[x] \in {"serve", "served"}
        /\ \A v, x \in HttpWorkers : item[v] # NoRequest /\ item[v] = item[x] => v = x
        /\ \A i, j \in 1 .. n : workQueue[i] = workQueue[j] => i = j
        /\ \A x \in HttpWorkers, i \in 1 .. n : item[x] # workQueue[i]
        /\ inCallback # NoRequest =>
              /\ \A x \in HttpWorkers : item[x] # inCallback
              /\ \A i \in 1 .. n : workQueue[i] # inCallback
    BY Zenon DEF HttpInv, Hands, n
  <2>10. Hands'
    <3>1. \A x \in HttpWorkers : item'[x] # NoRequest <=> wpc'[x] \in {"serve", "served"}
      <4>1. workQueue[1] # NoRequest
        BY <2>6, Zenon
      <4>2. ASSUME NEW x \in HttpWorkers \ {w}
            PROVE  item'[x] # NoRequest <=> wpc'[x] \in {"serve", "served"}
        BY <2>8, <2>9, ZenonT(60)
      <4> QED  BY <2>8, <4>1, <4>2, Zenon
    <3>2. \A v, x \in HttpWorkers : item'[v] # NoRequest /\ item'[v] = item'[x] => v = x
      BY <2>7, <2>8, <2>9
    <3>3. \A i, j \in 1 .. Len(workQueue') : workQueue'[i] = workQueue'[j] => i = j
      <4> SUFFICES ASSUME NEW i \in 1 .. n - 1, NEW j \in 1 .. n - 1, workQueue[i + 1] = workQueue[j + 1]
                   PROVE  i = j
        BY <2>6, ZenonT(60)
      <4>1. i + 1 \in 1 .. n /\ j + 1 \in 1 .. n
        BY <2>6
      <4>2. i + 1 = j + 1
        BY <2>9, <4>1, ZenonT(60)
      <4> QED  BY <4>2
    <3>4. \A x \in HttpWorkers, i \in 1 .. Len(workQueue') : item'[x] # workQueue'[i]
      BY <2>7, <2>8, <2>9
    <3>5. inCallback # NoRequest =>
            /\ \A x \in HttpWorkers : item'[x] # inCallback
            /\ \A i \in 1 .. Len(workQueue') : workQueue'[i] # inCallback
      BY <2>7, <2>8, <2>9
    <3> QED
      BY <2>1, <3>1, <3>2, <3>3, <3>4, <3>5, Zenon DEF Hands
  <2>11. HeldReceived'
    <3>1. \A i \in 1 .. n : workQueue[i] \in received
      BY Zenon DEF HttpInv, HeldReceived, n
    <3>2. \A x \in HttpWorkers : item'[x] # NoRequest => item'[x] \in received
      BY <2>7, <2>8, <3>1, Zenon DEF HttpInv, HeldReceived
    <3>3. \A i \in 1 .. Len(workQueue') : workQueue'[i] \in received
      BY <2>7, <3>1, Zenon
    <3> QED
      BY <2>1, <3>2, <3>3 DEF HttpInv, HeldReceived
  <2>12. Unreplied'
    <3>1. \A i \in 1 .. n : replies[workQueue[i]] = 0
      BY ZenonT(60) DEF HttpInv, Unreplied, n
    <3>2. \A x \in HttpWorkers : wpc'[x] = "serve" => replies[item'[x]] = 0
      BY <2>7, <2>8, <3>1 DEF HttpInv, Unreplied
    <3>3. \A i \in 1 .. Len(workQueue') : replies[workQueue'[i]] = 0
      BY <2>7, <3>1
    <3> QED
      BY <2>1, <3>2, <3>3, Zenon DEF HttpInv, Unreplied
  <2>13. NoneLost'
    <3>1. \A i \in 1 .. n : i # 1 => \E j \in 1 .. Len(workQueue') : workQueue'[j] = workQueue[i]
      <4>1. ASSUME NEW i \in 1 .. n, i # 1
            PROVE  i - 1 \in 1 .. Len(workQueue') /\ workQueue'[i - 1] = workQueue[i]
        BY <2>6, <4>1
      <4> QED  BY <4>1, Zenon
    <3>2. SUFFICES ASSUME NEW r \in Requests, r \in received, replies[r] = 0
                   PROVE  \/ \E x \in HttpWorkers : item'[x] = r
                          \/ \E i \in 1 .. Len(workQueue') : workQueue'[i] = r
                          \/ inCallback = r
      BY <2>1, Zenon DEF NoneLost
    <3>3. CASE \E x \in HttpWorkers : item[x] = r
      BY <2>4, <2>8, <3>3, Zenon
    <3>4. CASE \E i \in 1 .. n : workQueue[i] = r
      BY <2>8, <3>1, <3>4, ZenonT(60)
    <3> QED
      BY <3>2, <3>3, <3>4, Zenon DEF HttpInv, NoneLost, n
  <2>14. Inside' = Inside
    BY <2>1, <2>3 DEF Inside
  <2>15. Counted'
    <3>1. \A x \in HttpWorkers : ~running /\ Parted(x) => Parted(x)'
      BY <1>2, Zenon
    <3>2. \A x \in HttpWorkers : wpc[x] = "absent" => wpc'[x] = "absent"
      BY <2>1, <2>3, Zenon
    <3> QED
      BY <2>1, <2>14, <3>1, <3>2, CountedKept, Zenon
  <2> QED
    BY <2>5, <2>10, <2>11, <2>12, <2>13, <2>15, Zenon DEF HttpInv
<1> QED
  BY <1>1, <1>2 DEF Run

LEMMA ServeStep ==
    ASSUME HttpInv, NEW w \in HttpWorkers, Serve(w) PROVE HttpInv'
<1> USE DEF eventVars, replyVars
<1>1. /\ wpc[w] = "serve" /\ wpc'[w] = "served"
      /\ wpc' \in [HttpWorkers -> WorkerPC]
      /\ \A x \in HttpWorkers \ {w} : wpc'[x] = wpc[x]
      /\ UNCHANGED <<workQueue, running, numThreads, item, deleted, late, gencb, inCallback, loop,
                     unsent, received, main>>
  BY Zenon DEF HttpInv, HttpTypeOK, WorkerPC, Serve
<1>2. /\ item[w] \in Requests /\ item[w] \in received /\ replies[item[w]] = 0
  BY <1>1, Zenon DEF HttpInv, HttpTypeOK, Hands, HeldReceived, Unreplied
<1>3. /\ \A r \in Requests : replies'[r] = replies[r] \/ (r = item[w] /\ replies'[r] = 1)
      /\ replies' \in [Requests -> Nat] /\ posted' \subseteq Requests
  <2>1. CASE WriteReply({item[w]})
    BY <1>2, <2>1 DEF HttpInv, HttpTypeOK, WriteReply
  <2>2. CASE UNCHANGED replyVars
    BY <2>2, ZenonT(60) DEF HttpInv, HttpTypeOK
  <2> QED
    BY <2>1, <2>2, Zenon DEF Serve
<1>4. HttpTypeOK'
  BY <1>1, <1>3 DEF HttpInv, HttpTypeOK
<1>5. Hands' /\ HeldReceived'
  <2>1. \A x \in HttpWorkers : item[x] # NoRequest <=> wpc'[x] \in {"serve", "served"}
    BY <1>1, Zenon DEF HttpInv, Hands
  <2>2. Hands'
    BY <1>1, <2>1, ZenonT(60) DEF HttpInv, Hands
  <2>3. HeldReceived'
    BY <1>1, Zenon DEF HttpInv, HeldReceived
  <2> QED
    BY <2>2, <2>3, Zenon
<1>6. Unreplied'
  <2>0. item[w] # NoRequest
    BY <1>1, Zenon DEF HttpInv, Hands
  <2>1. \A i \in 1 .. Len(workQueue) : workQueue[i] \in Requests /\ workQueue[i] # item[w]
    BY <2>0, HeldApart, Zenon
  <2>2. \A x \in HttpWorkers : wpc'[x] = "serve" =>
           wpc[x] = "serve" /\ item[x] \in Requests /\ item[x] # item[w]
    BY <1>1, <2>0, HeldApart, Zenon
  <2>3. inCallback # NoRequest => inCallback \in Requests /\ inCallback # item[w]
    BY <2>0, HeldApart, Zenon
  <2>4. \A x \in HttpWorkers : wpc'[x] = "serve" => replies'[item[x]] = 0
    BY <1>3, <2>2, Zenon DEF HttpInv, Unreplied
  <2>5. \A i \in 1 .. Len(workQueue) : replies'[workQueue[i]] = 0
    <3>1. \A i \in 1 .. Len(workQueue) : replies[workQueue[i]] = 0
      BY Zenon DEF HttpInv, Unreplied
    <3> QED
      BY <1>3, <2>1, <3>1, ZenonT(60)
  <2>6. inCallback # NoRequest => replies'[inCallback] = 0
    BY <1>3, <2>3, Zenon DEF HttpInv, Unreplied
  <2>7. \A r \in Requests : (r \notin received => replies'[r] = 0) /\ replies'[r] \in {0, 1}
    BY <1>2, <1>3, Zenon DEF HttpInv, Unreplied
  <2>8. unsent \cap received = {}
    BY Zenon DEF HttpInv, Unreplied
  <2> QED
    BY <1>1, <2>4, <2>5, <2>6, <2>7, <2>8, Zenon DEF Unreplied
<1>7. NoneLost'
  BY <1>1, <1>3, ZenonT(60) DEF HttpInv, NoneLost
<1>8. Inside' = Inside
  BY <1>1, Zenon DEF Inside
<1>9. Counted'
  <2>1. \A x \in HttpWorkers : Parted(x) => Parted(x)'
    BY <1>1, Zenon DEF Parted
  <2>2. \A x \in HttpWorkers : wpc[x] = "absent" => wpc'[x] = "absent"
    BY <1>1, Zenon
  <2> QED
    BY <1>1, <1>8, <2>1, <2>2, CountedKept, Zenon
<1> QED
  BY <1>4, <1>5, <1>6, <1>7, <1>9, Zenon DEF HttpInv

LEMMA DeleteItemStep ==
    ASSUME HttpInv, NEW w \in HttpWorkers, DeleteItem(w) PROVE HttpInv'
<1> USE DEF eventVars, replyVars
<1>1. /\ wpc[w] = "served" /\ wpc'[w] = "ready" /\ item'[w] = NoRequest
      /\ wpc' \in [HttpWorkers -> WorkerPC]
      /\ item' \in [HttpWorkers -> Requests \cup {NoRequest}]
      /\ \A x \in HttpWorkers \ {w} : wpc'[x] = wpc[x] /\ item'[x] = item[x]
      /\ UNCHANGED <<workQueue, running, numThreads, deleted, late, gencb, inCallback, loop,
                     unsent, received, main>>
  BY Zenon DEF HttpInv, HttpTypeOK, WorkerPC, DeleteItem
<1>2. item[w] \in Requests /\ item[w] \in received
  BY <1>1, ZenonT(60) DEF HttpInv, HttpTypeOK, Hands, HeldReceived
<1>3. /\ \A r \in Requests : r # item[w] => replies'[r] = replies[r]
      /\ replies'[item[w]] = 1
      /\ replies' \in [Requests -> Nat] /\ posted' \subseteq Requests
  <2>1. /\ replies \in [Requests -> Nat] /\ posted \subseteq Requests
        /\ replies[item[w]] \in {0, 1}
    BY <1>2, Zenon DEF HttpInv, HttpTypeOK, Unreplied
  <2>2. DeleteRequests({item[w]})
    BY Zenon DEF DeleteItem
  <2> QED
    BY <1>2, <2>1, <2>2 DEF DeleteRequests, WriteReply
<1>4. HttpTypeOK'
  BY <1>1, <1>3, Zenon DEF HttpInv, HttpTypeOK
<1>5. Hands' /\ HeldReceived'
  <2>1. \A x \in HttpWorkers : item'[x] = item[x] \/ item'[x] = NoRequest
    BY <1>1, Zenon
  <2>2. \A x \in HttpWorkers : item'[x] # NoRequest <=> wpc'[x] \in {"serve", "served"}
    BY <1>1, ZenonT(60) DEF HttpInv, Hands
  <2>3. \A i \in 1 .. Len(workQueue) : workQueue[i] # NoRequest
    <3>1. workQueue \in Seq(Requests)
      BY DEF HttpInv, HttpTypeOK
    <3> QED  BY <3>1
  <2>4. Hands'
    <3>1. \A x, y \in HttpWorkers : item'[x] # NoRequest /\ item'[x] = item'[y] => x = y
      BY <2>1, Zenon DEF HttpInv, Hands
    <3>2. \A x \in HttpWorkers, i \in 1 .. Len(workQueue) : item'[x] # workQueue[i]
      BY <2>1, <2>3, Zenon DEF HttpInv, Hands
    <3>3. inCallback # NoRequest => \A x \in HttpWorkers : item'[x] # inCallback
      BY <2>1, Zenon DEF HttpInv, Hands
    <3>4. /\ \A i, j \in 1 .. Len(workQueue) : workQueue[i] = workQueue[j] => i = j
          /\ inCallback # NoRequest => \A i \in 1 .. Len(workQueue) : workQueue[i] # inCallback
      BY Zenon DEF HttpInv, Hands
    <3>5. workQueue' = workQueue /\ inCallback' = inCallback
      BY <1>1, Zenon
    <3> QED
      BY <2>2, <3>1, <3>2, <3>3, <3>4, <3>5, Zenon DEF Hands
  <2>5. HeldReceived'
    BY <1>1, <2>1, Zenon DEF HttpInv, HeldReceived
  <2> QED
    BY <2>4, <2>5
<1>6. Unreplied'
  <2>0. item[w] # NoRequest
    BY <1>1, Zenon DEF HttpInv, Hands
  <2>1. \A i \in 1 .. Len(workQueue) : workQueue[i] \in Requests /\ workQueue[i] # item[w]
    BY <2>0, HeldApart, Zenon
  <2>2. \A x \in HttpWorkers : wpc'[x] = "serve" =>
           wpc[x] = "serve" /\ item'[x] = item[x] /\ item[x] \in Requests /\ item[x] # item[w]
    BY <1>1, <2>0, HeldApart, ZenonT(60)
  <2>3. inCallback # NoRequest => inCallback \in Requests /\ inCallback # item[w]
    BY <2>0, HeldApart
  <2>4. ASSUME NEW x \in HttpWorkers, wpc'[x] = "serve" PROVE replies'[item'[x]] = 0
    <3>1. replies[item[x]] = 0
      BY <2>2, <2>4, Zenon DEF HttpInv, Unreplied
    <3> QED  BY <1>3, <2>2, <2>4, <3>1, Zenon
  <2>5. \A i \in 1 .. Len(workQueue) : replies'[workQueue[i]] = 0
    BY <1>3, <2>1, Zenon DEF HttpInv, Unreplied
  <2>6. inCallback # NoRequest => replies'[inCallback] = 0
    BY <1>3, <2>3, Zenon DEF HttpInv, Unreplied
  <2>7. \A r \in Requests : (r \notin received => replies'[r] = 0) /\ replies'[r] \in {0, 1}
    BY <1>2, <1>3, Zenon DEF HttpInv, Unreplied
  <2>8. unsent \cap received = {}
    BY DEF HttpInv, Unreplied
  <2> QED
    BY <1>1, <2>4, <2>5, <2>6, <2>7, <2>8, Zenon DEF Unreplied
<1>7. NoneLost'
  <2> SUFFICES ASSUME NEW r \in Requests, r \in received', replies'[r] = 0
               PROVE  \/ \E x \in HttpWorkers : item'[x] = r
                      \/ \E i \in 1 .. Len(workQueue') : workQueue'[i] = r
                      \/ inCallback' = r
    BY Zenon DEF NoneLost
  <2>1. r # item[w] /\ replies[r] = 0
    BY <1>3
  <2>2. \/ \E x \in HttpWorkers : item[x] = r
        \/ \E i \in 1 .. Len(workQueue) : workQueue[i] = r
        \/ inCallback = r
    BY <1>1, <2>1, Zenon DEF HttpInv, NoneLost
  <2>3. CASE \E x \in HttpWorkers : item[x] = r
    <3>1. PICK x \in HttpWorkers : item[x] = r
      BY <2>3, Zenon
    <3>2. item'[x] = r
      BY <1>1, <2>1, <3>1, Zenon
    <3> QED  BY <3>2, Zenon
  <2> QED
    BY <1>1, <2>2, <2>3, Zenon
<1>8. Inside' = Inside
  BY <1>1, Zenon DEF Inside
<1>9. Counted'
  <2>1. \A x \in HttpWorkers : Parted(x) => Parted(x)'
    BY <1>1, Zenon DEF Parted
  <2>2. \A x \in HttpWorkers : wpc[x] = "absent" => wpc'[x] = "absent"
    BY <1>1, Zenon
  <2> QED
    BY <1>1, <1>8, <2>1, <2>2, CountedKept, Zenon
<1> QED
  BY <1>4, <1>5, <1>6, <1>7, <1>9 DEF HttpInv

LEMMA DeleteQueueStep ==
    ASSUME HttpInv, DeleteQueue PROVE HttpInv'
<1> USE DEF eventVars, replyVars
<1> DEFINE left == {workQueue[i] : i \in DOMAIN workQueue}
<1>1. /\ workQueue' = <<>> /\ main = "delete" /\ main' = "join" /\ deleted' = TRUE
      /\ UNCHANGED <<running, numThreads, wpc, item, late, gencb, inCallback, loop, unsent, received>>
  BY Zenon DEF DeleteQueue
<1>2. /\ \A r \in left : r \in Requests /\ r \in received /\ replies[r] = 0
      /\ \A w \in HttpWorkers : item[w] \notin left
      /\ inCallback # NoRequest => inCallback \notin left
  <2>1. workQueue \in Seq(Requests)
    BY Zenon DEF HttpInv, HttpTypeOK
  <2>2. \A r \in left : \E i \in 1 .. Len(workQueue) : r = workQueue[i] /\ r \in Requests
    BY <2>1
  <2> HIDE DEF left
  <2>3. \A r \in left : r \in Requests /\ r \in received /\ replies[r] = 0
    BY <2>2 DEF HttpInv, HeldReceived, Unreplied
  <2>4. \A w \in HttpWorkers : item[w] \notin left
    BY <2>2 DEF HttpInv, Hands
  <2>5. inCallback # NoRequest => inCallback \notin left
    BY <2>2, Zenon DEF HttpInv, Hands
  <2> QED
    BY <2>3, <2>4, <2>5, Zenon
<1>3. \A r \in Requests : r \notin left => \A i \in 1 .. Len(workQueue) : workQueue[i] # r
  <2>1. DOMAIN workQueue = 1 .. Len(workQueue)
    BY DEF HttpInv, HttpTypeOK
  <2> QED  BY <2>1, Zenon
<1>4. DeleteRequests(left)
  BY ZenonT(60) DEF DeleteQueue
<1> HIDE DEF left
<1>5. /\ \A r \in Requests : replies'[r] = IF r \in left THEN 1 ELSE replies[r]
      /\ replies' \in [Requests -> Nat] /\ posted' \subseteq Requests
  BY <1>2, <1>4 DEF HttpInv, HttpTypeOK, DeleteRequests, WriteReply
<1>6. /\ workQueue' \in Seq(Requests)
      /\ ~ \E i \in 1 .. Len(workQueue') : TRUE
  BY <1>1
<1>7. HttpTypeOK'
  BY <1>1, <1>5, <1>6, ZenonT(60) DEF HttpInv, HttpTypeOK, MainPC
<1>8. Hands' /\ HeldReceived'
  BY <1>1, <1>6, ZenonT(60) DEF HttpInv, Hands, HeldReceived
<1>9. Unreplied'
  <2>1. \A w \in HttpWorkers : wpc[w] = "serve" => item[w] \in Requests
    BY DEF HttpInv, HttpTypeOK, Hands
  <2>2. inCallback # NoRequest => inCallback \in Requests
    BY DEF HttpInv, HttpTypeOK
  <2>3. \A w \in HttpWorkers : wpc'[w] = "serve" => replies'[item'[w]] = 0
    BY <1>1, <1>2, <1>5, <2>1, Zenon DEF HttpInv, Unreplied
  <2>4. inCallback' # NoRequest => replies'[inCallback'] = 0
    BY <1>1, <1>2, <1>5, <2>2, Zenon DEF HttpInv, Unreplied
  <2>5. \A r \in Requests : (r \notin received' => replies'[r] = 0) /\ replies'[r] \in {0, 1}
    BY <1>1, <1>2, <1>5, Zenon DEF HttpInv, Unreplied
  <2>6. unsent' \cap received' = {}
    BY <1>1, ZenonT(60) DEF HttpInv, Unreplied
  <2> QED
    BY <1>6, <2>3, <2>4, <2>5, <2>6, Zenon DEF Unreplied
<1>10. NoneLost'
  <2>1. \A r \in Requests : replies'[r] = 0 => r \notin left /\ replies[r] = 0
    BY <1>5
  <2> QED
    BY <1>1, <1>3, <2>1, ZenonT(60) DEF HttpInv, NoneLost
<1>11. Counted'
  BY <1>1 DEF HttpInv, Counted, Parted, Inside
<1> QED
  BY <1>7, <1>8, <1>9, <1>10, <1>11 DEF HttpInv

\* Every step of the server keeps the invariant.
LEMMA HttpNextInv ==
    ASSUME Sizes(HttpWorkers), HttpInv, [HttpNext]_httpVars PROVE HttpInv'
<1>1. CASE UNCHANGED httpVars
  <2>1. HttpTypeOK'
    BY <1>1, Zenon DEF httpVars, HttpInv, HttpTypeOK
  <2>2. Hands' /\ HeldReceived'
    BY <1>1, ZenonT(60) DEF httpVars, HttpInv, Hands, HeldReceived
  <2>3. Unreplied' /\ NoneLost'
    BY <1>1, Zenon DEF httpVars, HttpInv, Unreplied, NoneLost
  <2>4. Counted'
    BY <1>1, Zenon DEF httpVars, HttpInv, Counted, Parted, Inside
  <2> QED
    BY <2>1, <2>2, <2>3, <2>4, Zenon DEF HttpInv
<1>2. CASE HttpNext
  BY <1>2, StartStep, CallbackStep, EnqueueStep, QuietStep, CountStep, RunStep, ServeStep,
     DeleteItemStep, DeleteQueueStep
     DEF HttpNext, EventThread, HttpWorker, ShutdownHttp
<1> QED
  BY <1>1, <1>2, Zenon

LEMMA HttpInvImplies ==
    ASSUME HttpInv PROVE AnsweredOrHeld /\ QueueDeletedAlone
<1>1. ASSUME NEW r \in Requests, r \in received, replies[r] = 0
      PROVE  \E h \in Holders(r) : Holders(r) = {h}
  <2>1. workQueue \in Seq(Requests) /\ DOMAIN workQueue = 1 .. Len(workQueue)
    BY DEF HttpInv, HttpTypeOK
  <2>2. CASE \E w \in HttpWorkers : item[w] = r
    <3>1. PICK w \in HttpWorkers : item[w] = r
      BY <2>2, ZenonT(60)
    <3>2. {x \in HttpWorkers : item[x] = r} = {w}
      <4>1. r # NoRequest
        BY Zenon
      <4> QED
        BY <3>1, <4>1, ZenonT(60) DEF HttpInv, Hands
    <3>3. {k \in DOMAIN workQueue : workQueue[k] = r} = {}
      BY <2>1, <3>1, Zenon DEF HttpInv, Hands
    <3>4. {inCallback} \cap {r} = {}
      BY <3>1, ZenonT(60) DEF HttpInv, Hands
    <3>5. Holders(r) = {<<"worker", w>>}
      BY <3>2, <3>3, <3>4 DEF Holders
    <3> QED
      BY <3>5
  <2>3. CASE \E i \in 1 .. Len(workQueue) : workQueue[i] = r
    <3>1. PICK i \in 1 .. Len(workQueue) : workQueue[i] = r
      BY <2>3, Zenon
    <3>2. {x \in HttpWorkers : item[x] = r} = {}
      BY <3>1, ZenonT(60) DEF HttpInv, Hands
    <3>3. {k \in DOMAIN workQueue : workQueue[k] = r} = {i}
      BY <2>1, <3>1 DEF HttpInv, Hands
    <3>4. {inCallback} \cap {r} = {}
      BY <3>1, ZenonT(60) DEF HttpInv, Hands
    <3>5. Holders(r) = {<<"queue", i>>}
      BY <3>2, <3>3, <3>4 DEF Holders
    <3> QED
      BY <3>5
  <2>4. CASE inCallback = r
    <3>1. {x \in HttpWorkers : item[x] = r} = {}
      BY <2>4, Zenon DEF HttpInv, Hands
    <3>2. {k \in DOMAIN workQueue : workQueue[k] = r} = {}
      BY <2>1, <2>4, Zenon DEF HttpInv, Hands
    <3>3. Holders(r) = {<<"callback", r>>}
      BY <2>4, <3>1, <3>2, Zenon DEF Holders
    <3> QED
      BY <3>3, Zenon
  <2> QED
    BY <1>1, <2>2, <2>3, <2>4, Zenon DEF HttpInv, NoneLost
<1>2. AnsweredOrHeld
  BY <1>1, Zenon DEF HttpInv, Unreplied, AnsweredOrHeld
<1>3. QueueDeletedAlone
  BY Zenon DEF HttpInv, Counted, Parted, QueueDeletedAlone
<1> QED
  BY <1>2, <1>3, Zenon

-----------------------------------------------------------------------------
\* The node.

LEMMA HttpAbsentInv ==
    ASSUME Sizes(HttpWorkers), HttpAbsent PROVE HttpInv
<1>1. HttpTypeOK
  <2>1. workQueue \in Seq(Requests)
    BY DEF HttpAbsent
  <2>2. /\ wpc \in [HttpWorkers -> WorkerPC]
        /\ item \in [HttpWorkers -> Requests \cup {NoRequest}]
        /\ replies \in [Requests -> Nat]
    BY DEF HttpAbsent, WorkerPC
  <2> QED
    BY <2>1, <2>2, Zenon DEF HttpAbsent, HttpTypeOK, MainPC
<1>2. Inside = {}
  BY Zenon DEF HttpAbsent, Inside
<1>3. Counted
  BY <1>2, Zenon DEF HttpAbsent, Counted, Parted, Sizes
<1>4. Hands /\ HeldReceived /\ Unreplied /\ NoneLost
  BY DEF HttpAbsent, Hands, HeldReceived, Unreplied, NoneLost
<1> QED
  BY <1>1, <1>3, <1>4, Zenon DEF HttpInv

\* Every step of the node is a step, or none, of each component.
LEMMA StepOfEach ==
    ASSUME [Next]_vars PROVE [HttpNext]_httpVars /\ [SchedulerNext]_schedVars
<1>1. CASE UNCHANGED vars
  BY <1>1 DEF vars
<1>2. CASE HttpNext /\ UNCHANGED <<schedVars, joined>>
  BY <1>2
<1>3. CASE \E s \in Servants : Servant(s) /\ UNCHANGED <<httpVars, joined>>
  BY <1>3 DEF SchedulerNext
<1>4. CASE \E x \in Tasks, t \in 0 .. MaxTime :
               MaySchedule /\ Schedule(x, t) /\ UNCHANGED <<httpVars, joined>>
  BY <1>4 DEF SchedulerNext
<1>5. CASE Tick /\ UNCHANGED <<httpVars, joined>>
  BY <1>5 DEF SchedulerNext
<1>6. CASE StopThreads
  BY <1>6 DEF StopThreads, SchedulerNext
<1>7. CASE JoinAll
  BY <1>7, Zenon DEF JoinAll
<1> QED
  BY <1>1, <1>2, <1>3, <1>4, <1>5, <1>6, <1>7, Zenon DEF Next

INSTANCE FiniteSetTheorems

\* The threads are finitely many, in each of the two pools.
LEMMA AllSizes == Sizes(HttpWorkers) /\ Sizes(Servants)
<1>1. ASSUME NEW W, IsFiniteSet(W) PROVE Sizes(W)
  <2>1. ASSUME NEW S \in SUBSET W
        PROVE  /\ Cardinality(S) \in Nat
               /\ Cardinality(S) = 0 <=> S = {}
               /\ \A x \in W \ S : Cardinality(S \cup {x}) = Cardinality(S) + 1
               /\ \A x \in S : Cardinality(S \ {x}) = Cardinality(S) - 1
    <3>1. IsFiniteSet(S)
      BY <1>1, FS_Subset, ZenonT(60)
    <3>2. Cardinality(S) \in Nat /\ (Cardinality(S) = 0 <=> S = {})
      BY <3>1, FS_CardinalityType, FS_EmptySet
    <3>3. \A x \in W \ S : Cardinality(S \cup {x}) = Cardinality(S) + 1
      BY <3>1, FS_AddElement, Zenon
    <3>4. \A x \in S : Cardinality(S \ {x}) = Cardinality(S) - 1
      BY <3>1, FS_RemoveElement, Zenon
    <3> QED
      BY <3>2, <3>3, <3>4, Zenon
  <2> QED
    BY <2>1, Zenon DEF Sizes
<1> QED
  BY <1>1, HttpWorkersAssumption, PoolsAssumption, Zenon

LEMMA ServicesInv == Spec => [](HttpInv /\ SchedulerInv)
<1>1. Init => HttpInv /\ SchedulerInv
  BY AllSizes, HttpInitInv, HttpAbsentInv, SchedulerInitInv, Zenon DEF Init
<1>2. HttpInv /\ SchedulerInv /\ [Next]_vars => (HttpInv /\ SchedulerInv)'
  BY AllSizes, StepOfEach, HttpNextInv, SchedulerNextInv, Zenon
<1> QED
  BY <1>1, <1>2, PTL DEF Spec

\* A request is never replied to twice (WriteReply's assertion) and never
\* dropped: until its reply it is in exactly one pair of hands.
THEOREM EveryRequestAnsweredOrHeld == Spec => []AnsweredOrHeld
<1>1. HttpInv => AnsweredOrHeld
  BY HttpInvImplies
<1> QED
  BY <1>1, ServicesInv, PTL

\* When StopHTTPServer deletes the work queue, every worker that had entered
\* WorkQueue::Run before WaitExit looked has left it; one that comes later finds
\* the queue interrupted and takes no request.
THEOREM QueueOutlivesWorkers == Spec => []QueueDeletedAlone
<1>1. HttpInv => QueueDeletedAlone
  BY HttpInvImplies
<1> QED
  BY <1>1, ServicesInv, PTL

\* A task never runs before its time when one thread runs serviceQueue.
THEOREM TasksOnTime == Spec => []OnTimeAlone
<1>1. SchedulerInv => OnTimeAlone
  BY AllSizes, SchedulerInvImplies, ZenonT(60)
<1> QED
  BY <1>1, ServicesInv, PTL

\* The assertion of ~CScheduler holds however the threads have left, by
\* stop() or by an interruption.
THEOREM SchedulerAssertionHolds == Spec => []NoneCountedAtExit
<1>1. SchedulerInv => NoneCountedAtExit
  BY AllSizes, SchedulerInvImplies
<1> QED
  BY <1>1, ServicesInv, PTL
=============================================================================
