------------------------------ MODULE Services ------------------------------
(***************************************************************************)
(* The service threads of the node through its life: the HTTP server, the  *)
(* scheduler's thread, and the main thread that ends both in the order of  *)
(* Interrupt and PrepareShutdown (src/src/init.cpp); and the scheduler as  *)
(* its unit test uses it, served by several threads and ended with stop(). *)
(***************************************************************************)
EXTENDS HttpServer, Scheduler

CONSTANTS NodePools, \* the pools of the node: one thread
          NodeLoads, \* bound: requests and tasks of the node, together
          TestLoads  \* bound: those of the test, which has no requests

ASSUME LoadsAssumption ==
    NodeLoads \cup TestLoads \subseteq [requests : SUBSET Requests, tasks : SUBSET Tasks]

VARIABLE joined  \* threadGroup.join_all() has returned

vars == <<httpVars, schedVars, joined>>

\* No HTTP server: the program is the scheduler's test.
HttpAbsent ==
    /\ workQueue = <<>> /\ running = FALSE /\ numThreads = 0 /\ deleted = TRUE /\ late = {}
    /\ wpc = [w \in HttpWorkers |-> "absent"]
    /\ item = [w \in HttpWorkers |-> NoRequest]
    /\ gencb = "reject" /\ inCallback = NoRequest /\ loop = "done" /\ unsent = {} /\ received = {}
    /\ replies = [r \in Requests |-> 0] /\ posted = {}
    /\ main = "stopped"

IsNode == pool \in NodePools

Init ==
    /\ SchedulerInit
    /\ IF IsNode THEN HttpInit ELSE HttpAbsent
    /\ [requests |-> unsent, tasks |-> unscheduled] \in IF IsNode THEN NodeLoads ELSE TestLoads
    /\ joined = FALSE

\* Who schedules: the node's main thread before its shutdown; the test's, and
\* the tasks it runs.
MaySchedule ==
    IF IsNode THEN main = "serving"
    ELSE (~stopRequested /\ ~stopWhenEmpty) \/ \E s \in Servants : spc[s] = "run"

\* PrepareShutdown goes on after StopHTTPServer.
StopThreads ==
    /\ main = "stopped"
    /\ IF IsNode THEN InterruptAll ELSE \E drain \in BOOLEAN : Stop(drain)
    /\ UNCHANGED <<httpVars, joined>>

\* threadGroup.join_all()
JoinAll ==
    /\ interrupted \/ stopRequested \/ stopWhenEmpty
    /\ Joined /\ ~joined
    /\ joined' = TRUE
    /\ UNCHANGED <<httpVars, schedVars>>

Next ==
    \/ HttpNext /\ UNCHANGED <<schedVars, joined>>
    \/ \E s \in Servants : Servant(s) /\ UNCHANGED <<httpVars, joined>>
    \/ \E x \in Tasks, t \in 0 .. MaxTime :
           MaySchedule /\ Schedule(x, t) /\ UNCHANGED <<httpVars, joined>>
    \/ Tick /\ UNCHANGED <<httpVars, joined>>
    \/ StopThreads \/ JoinAll

Spec == Init /\ [][Next]_vars

FairSpec ==
    /\ Spec /\ HttpFairness /\ SchedulerFairness
    /\ WF_vars(IsNode /\ StopThreads) /\ WF_vars(JoinAll)

(***************************************************************************)
(* Properties.                                                             *)
(***************************************************************************)

Ending == IF IsNode THEN main \notin {"init", "serving"} ELSE stopRequested \/ stopWhenEmpty

\* A shutdown that has begun ends: the workers, the event thread and the
\* scheduler's thread all leave, so the main thread comes through WaitExit,
\* join and join_all; and stop() ends every thread of the scheduler's test.
\* Not so when a thread is left with a deleted work queue: the event thread
\* that the main thread joins may be that thread.
\* (Once Ending holds it holds for ever, and so does joined.)
ShutdownEnds == []<>(Ending /\ QueueUnusedWhenDeleted => joined)
=============================================================================
