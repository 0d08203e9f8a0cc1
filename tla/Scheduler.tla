------------------------------ MODULE Scheduler ------------------------------
(***************************************************************************)
(* CScheduler of src/src/scheduler.cpp: tasks with times, and the threads  *)
(* that run them in serviceQueue.  The node starts one such thread         *)
(* (init.cpp:1118) and interrupts it at shutdown; the class is written for *)
(* several, and for stop(), which is how test/scheduler_tests.cpp uses it. *)
(*                                                                         *)
(* Every action is one critical section of newTaskMutex, which a thread    *)
(* holds except while it waits or runs a task.  Time is a counter that     *)
(* never goes back; a task is a model value and what it does is left out.  *)
(***************************************************************************)
EXTENDS Integers, FiniteSets

CONSTANTS Servants,   \* the threads that may run serviceQueue
          Pools,      \* the sets of them that a program may create
          Tasks,      \* the tasks of a run
          Repeated,   \* those of them given to scheduleEvery
          Period,     \* deltaSeconds of the repeated tasks
          MaxTime,    \* bound: the clock stops here
          NoTask

ASSUME PoolsAssumption == IsFiniteSet(Servants) /\ Pools \subseteq SUBSET Servants
ASSUME TasksAssumption == NoTask \notin Tasks /\ Repeated \subseteq Tasks
ASSUME TimesAssumption == Period \in Nat \ {0} /\ MaxTime \in Nat

VARIABLES now,       \* the clock
          taskQueue, \* taskQueue: entries [time, task]
          nThreadsServicingQueue,
          stopRequested,
          stopWhenEmpty,
          spc,       \* where a thread is (below)
          until,     \* the time a thread waits for
          current,   \* the entry a thread has taken out
          pool,      \* the threads of this run
          unscheduled, \* tasks not yet given to the scheduler
          interrupted  \* threadGroup.interrupt_all() has been called

schedVars == <<now, taskQueue, nThreadsServicingQueue, stopRequested, stopWhenEmpty,
               spc, until, current, pool, unscheduled, interrupted>>

(***************************************************************************)
(* "start" not yet in serviceQueue; "loop" at the head of its loop; "seed" *)
(* in RandAddSeedSleep; "empty" at the wait for a task, "idle" in it;      *)
(* "first" at the wait for the first task's time, "timed" in it; "take"    *)
(* past it, because the wait timed out; "run" runs a task; "gone".         *)
(***************************************************************************)
ServantPC == {"absent", "start", "loop", "seed", "empty", "idle", "first", "timed",
              "take", "run", "gone"}

\* A time is at most MaxTime plus one period.
Entries == [time : 0 .. MaxTime + Period, task : Tasks]
NoEntry == [time |-> 0, task |-> NoTask]

SchedulerInit ==
    /\ now = 0 /\ taskQueue = {} /\ nThreadsServicingQueue = 0
    /\ stopRequested = FALSE /\ stopWhenEmpty = FALSE
    /\ pool \in Pools
    /\ spc = [s \in Servants |-> IF s \in pool THEN "start" ELSE "absent"]
    /\ until = [s \in Servants |-> 0]
    /\ current = [s \in Servants |-> NoEntry]
    /\ unscheduled \in SUBSET Tasks
    /\ interrupted = FALSE

shouldStop == stopRequested \/ (stopWhenEmpty /\ taskQueue = {})

\* taskQueue.begin(): an entry with the least time.
Firsts == {e \in taskQueue : \A f \in taskQueue : e.time <= f.time}

(***************************************************************************)
(* newTaskScheduled.  A notified thread goes back to the test it left.     *)
(***************************************************************************)
Sleepers == {s \in Servants : spc[s] \in {"idle", "timed"}}

Roused(pcs, S) ==
    [s \in Servants |-> IF s \notin S THEN pcs[s]
                        ELSE IF pcs[s] = "idle" THEN "empty" ELSE "first"]

\* pcs are the places of the threads after the rest of the step.
NotifyServant(pcs) ==
    \/ \E s \in Sleepers : spc' = Roused(pcs, {s})
    \/ Sleepers = {} /\ spc' = pcs

(***************************************************************************)
(* The users of the scheduler.                                             *)
(***************************************************************************)

\* Faulty: the threads are not told of the task.
ScheduleSilently(x, t) ==
    /\ x \in unscheduled /\ t \in now .. MaxTime
    /\ taskQueue' = taskQueue \cup {[time |-> t, task |-> x]}
    /\ unscheduled' = unscheduled \ {x}
    /\ UNCHANGED <<now, nThreadsServicingQueue, stopRequested, stopWhenEmpty, spc,
                   until, current, pool, interrupted>>

\* schedule, scheduleFromNow and scheduleEvery, called from outside a task.
Schedule(x, t) ==
    /\ x \in unscheduled /\ t \in now .. MaxTime
    /\ taskQueue' = taskQueue \cup {[time |-> t, task |-> x]}
    /\ unscheduled' = unscheduled \ {x}
    /\ NotifyServant(spc)
    /\ UNCHANGED <<now, nThreadsServicingQueue, stopRequested, stopWhenEmpty,
                   until, current, pool, interrupted>>

Outstanding == {e.task : e \in taskQueue} \cup {current[s].task : s \in Servants}

\* stop(drain).  Draining would not end with a repeated task.
Stop(drain) ==
    /\ ~interrupted /\ ~stopRequested /\ ~stopWhenEmpty
    /\ drain => (Outstanding \cup unscheduled) \cap Repeated = {}
    /\ stopWhenEmpty' = drain
    /\ stopRequested' = ~drain
    /\ spc' = Roused(spc, Sleepers)
    /\ UNCHANGED <<now, taskQueue, nThreadsServicingQueue, until, current, pool,
                   unscheduled, interrupted>>

\* threadGroup.interrupt_all()
InterruptAll ==
    /\ ~interrupted
    /\ interrupted' = TRUE
    /\ UNCHANGED <<now, taskQueue, nThreadsServicingQueue, stopRequested, stopWhenEmpty,
                   spc, until, current, pool, unscheduled>>

\* The clock stands still while no task waits for it.
Tick ==
    /\ now < MaxTime /\ \E e \in taskQueue : e.time > now
    /\ now' = now + 1
    /\ UNCHANGED <<taskQueue, nThreadsServicingQueue, stopRequested, stopWhenEmpty,
                   spc, until, current, pool, unscheduled, interrupted>>

(***************************************************************************)
(* serviceQueue.                                                           *)
(***************************************************************************)
Move(s, from, to) == spc[s] = from /\ spc' = [spc EXCEPT ![s] = to]

quiet == <<now, stopRequested, stopWhenEmpty, pool, unscheduled, interrupted>>

Enter(s) ==
    /\ Move(s, "start", "loop")
    /\ nThreadsServicingQueue' = nThreadsServicingQueue + 1
    /\ UNCHANGED <<taskQueue, until, current, quiet>>

\* The thread leaves: the others are told, for they may have to leave too.
Leave(s) ==
    /\ spc[s] = "loop" /\ shouldStop
    /\ nThreadsServicingQueue' = nThreadsServicingQueue - 1
    /\ NotifyServant([spc EXCEPT ![s] = "gone"])
    /\ UNCHANGED <<taskQueue, until, current, quiet>>

\* The head of the loop: with nothing to do, the thread sleeps unlocked first.
Loop(s) ==
    /\ ~shouldStop
    /\ Move(s, "loop", IF taskQueue = {} THEN "seed" ELSE "empty")
    /\ UNCHANGED <<taskQueue, nThreadsServicingQueue, until, current, quiet>>

RandAddSeedSleep(s) ==
    /\ Move(s, "seed", "empty")
    /\ UNCHANGED <<taskQueue, nThreadsServicingQueue, until, current, quiet>>

\* while (!shouldStop() && taskQueue.empty()) newTaskScheduled.wait(lock)
AwaitTask(s) ==
    /\ Move(s, "empty", IF ~shouldStop /\ taskQueue = {} THEN "idle" ELSE "first")
    /\ UNCHANGED <<taskQueue, nThreadsServicingQueue, until, current, quiet>>

\* One turn of the loop around wait_until.
AwaitTime(s) ==
    /\ \/ /\ ~shouldStop /\ taskQueue # {}
          /\ Move(s, "first", "timed")
          /\ \E e \in Firsts : until' = [until EXCEPT ![s] = e.time]
       \/ /\ shouldStop \/ taskQueue = {}
          /\ Move(s, "first", "loop")
          /\ UNCHANGED until
    /\ UNCHANGED <<taskQueue, nThreadsServicingQueue, current, quiet>>

\* wait_until returns timeout.
TimedOut(s) ==
    /\ until[s] <= now
    /\ Move(s, "timed", "take")
    /\ UNCHANGED <<taskQueue, nThreadsServicingQueue, until, current, quiet>>

\* Faulty: the first task is run after any end of the wait.
TakeAny(s) ==
    /\ spc[s] \in {"take", "timed"} /\ ~shouldStop
    /\ \E e \in Firsts :
          /\ taskQueue' = taskQueue \ {e}
          /\ current' = [current EXCEPT ![s] = e]
          /\ spc' = [spc EXCEPT ![s] = "run"]
    /\ UNCHANGED <<nThreadsServicingQueue, until, quiet>>

\* The first task is taken out, whichever it is by now.
Take(s) ==
    /\ \/ /\ ~shouldStop
          /\ \E e \in Firsts :
                /\ taskQueue' = taskQueue \ {e}
                /\ current' = [current EXCEPT ![s] = e]
          /\ Move(s, "take", "run")
       \/ /\ shouldStop \/ taskQueue = {}
          /\ Move(s, "take", "loop")
          /\ UNCHANGED <<taskQueue, current>>
    /\ UNCHANGED <<nThreadsServicingQueue, until, quiet>>

\* f() returns.  A repeated task (Repeat) schedules itself anew.
RunTask(s) ==
    /\ spc[s] = "run"
    /\ current' = [current EXCEPT ![s] = NoEntry]
    /\ \/ /\ current[s].task \in Repeated
          /\ taskQueue' = taskQueue \cup {[time |-> now + Period, task |-> current[s].task]}
          /\ NotifyServant([spc EXCEPT ![s] = "loop"])
       \/ /\ current[s].task \notin Repeated
          /\ spc' = [spc EXCEPT ![s] = "loop"]
          /\ UNCHANGED taskQueue
    /\ UNCHANGED <<nThreadsServicingQueue, until, quiet>>

\* A wait, or a task at a wait of its own, throws boost::thread_interrupted.
Unwind(s) ==
    /\ interrupted
    /\ \E from \in {"idle", "timed", "run"} : Move(s, from, "gone")
    /\ nThreadsServicingQueue' = nThreadsServicingQueue - 1
    /\ UNCHANGED <<taskQueue, until, current, quiet>>

Servant(s) ==
    \/ Enter(s) \/ Leave(s) \/ Loop(s) \/ RandAddSeedSleep(s) \/ AwaitTask(s)
    \/ AwaitTime(s) \/ TimedOut(s) \/ Take(s) \/ RunTask(s) \/ Unwind(s)

SchedulerNext ==
    \/ \E s \in Servants : Servant(s)
    \/ \E x \in Tasks, t \in 0 .. MaxTime : Schedule(x, t)
    \/ \E drain \in BOOLEAN : Stop(drain)
    \/ InterruptAll \/ Tick

\* Threads are scheduled, tasks return and time passes.  No one has to
\* schedule a task or to stop the scheduler.
SchedulerFairness ==
    /\ WF_schedVars(Tick)
    /\ \A s \in Servants : WF_schedVars(Servant(s))

(***************************************************************************)
(* Properties.                                                             *)
(***************************************************************************)
Joined == \A s \in pool : spc[s] = "gone"

SchedulerTypeOK ==
    /\ now \in 0 .. MaxTime /\ taskQueue \subseteq Entries
    /\ nThreadsServicingQueue \in Nat
    /\ stopRequested \in BOOLEAN /\ stopWhenEmpty \in BOOLEAN /\ interrupted \in BOOLEAN
    /\ spc \in [Servants -> ServantPC]
    /\ until \in [Servants -> 0 .. MaxTime + Period]
    /\ current \in [Servants -> Entries \cup {NoEntry}]
    /\ pool \in Pools /\ unscheduled \subseteq Tasks

\* "Call func at/after time t" (scheduler.h): a task does not run early.
OnTime == \A s \in Servants : spc[s] = "run" => current[s].time <= now

\* With one thread in serviceQueue, as the node has it, no task runs early,
\* whatever is scheduled while the thread waits for another time.
OnTimeAlone == (\E s \in Servants : pool = {s}) => OnTime

\* The assertion of ~CScheduler: when the threads have been joined none is
\* counted, however each of them left serviceQueue.
NoneCountedAtExit == Joined => nThreadsServicingQueue = 0

\* A task in the queue whose time can come is run, unless the scheduler is
\* stopped or interrupted first: no notification is lost.
TasksRun ==
    \A x \in Tasks :
        (\E e \in taskQueue : e.task = x /\ e.time <= MaxTime)
            ~> (stopRequested \/ interrupted \/ \E s \in Servants : current[s].task = x)
=============================================================================
