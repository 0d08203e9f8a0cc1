----------------------------- MODULE HttpServer -----------------------------
(***************************************************************************)
(* The HTTP server behind RPC and REST (src/src/httpserver.cpp): the event *)
(* thread that receives requests, the bounded WorkQueue, the worker        *)
(* threads that serve it, and the main thread, which starts the server and *)
(* takes it down with InterruptHTTPServer and StopHTTPServer.              *)
(*                                                                         *)
(* Every action is one critical section of WorkQueue::cs, or what a thread *)
(* does between two of them.  A request is a model value.  What the        *)
(* handlers answer is left out; that they answer at all, and through whose *)
(* hands a request goes until then, is what this module is about.          *)
(***************************************************************************)
EXTENDS Integers, FiniteSets, Sequences

CONSTANTS Requests,     \* requests that may arrive
          HttpWorkers,  \* the threads running HTTPWorkQueueRun
          MaxDepth,     \* maxDepth: -rpcworkqueue, at least 1
          StartMayFail, \* TRUE: AppInitServers may give up before
                        \* StartHTTPServer
          NoRequest

ASSUME HttpWorkersAssumption == IsFiniteSet(HttpWorkers)
ASSUME RequestsAssumption == NoRequest \notin Requests
ASSUME MaxDepthAssumption == MaxDepth \in Nat \ {0}
ASSUME HttpFlagsAssumption == StartMayFail \in BOOLEAN

VARIABLES workQueue,  \* queue: requests nobody serves yet
          running,    \* running: FALSE after WorkQueue::Interrupt
          numThreads, \* numThreads: workers counted by a ThreadCounter
          wpc,        \* where a worker is (below)
          item,       \* the request a worker has taken out of the queue
          deleted,    \* StopHTTPServer has deleted the queue
          late,       \* workers that had not entered Run when WaitExit found
                      \* numThreads = 0 (history)
          gencb,      \* the callback libevent calls for a request
          inCallback, \* the request http_request_cb holds, before Enqueue
          loop,       \* the event loop: "off", "on", "broken" or "done"
          unsent,     \* requests clients have yet to send
          received,   \* requests a callback was called for (history)
          replies,    \* WriteReply calls for a request (history)
          posted,     \* replies handed to the event loop and not sent
          main        \* where the main thread is (below)

queueVars == <<workQueue, running, numThreads, wpc, item, deleted, late>>
eventVars == <<gencb, inCallback, loop, unsent, received>>
replyVars == <<replies, posted>>
httpVars == <<workQueue, running, numThreads, wpc, item, deleted, late,
              gencb, inCallback, loop, unsent, received, replies, posted, main>>

(***************************************************************************)
(* A worker: "absent" before it is created; "start" created, not counted   *)
(* yet; "ready" wants the lock; "wait" in cond.wait; "serve" runs the      *)
(* handler; "served" has run it and deletes the item; "exit" has left the  *)
(* loop; "gone".                                                           *)
(***************************************************************************)
WorkerPC == {"absent", "start", "ready", "wait", "serve", "served", "exit", "gone"}

(***************************************************************************)
(* The main thread: "init" after InitHTTPServer; "serving"; "rejecting"    *)
(* half-way through InterruptHTTPServer; "exiting" in WaitExit; "asleep"   *)
(* in its cond.wait; "delete" after it; "join" waits for the event thread; *)
(* "stopped"; "aborted" by the exception of joining no thread.             *)
(***************************************************************************)
MainPC == {"init", "serving", "rejecting", "exiting", "asleep", "delete",
           "join", "stopped", "aborted"}

HttpInit ==
    /\ workQueue = <<>> /\ running = TRUE /\ numThreads = 0 /\ deleted = FALSE /\ late = {}
    /\ wpc = [w \in HttpWorkers |-> "absent"]
    /\ item = [w \in HttpWorkers |-> NoRequest]
    /\ gencb = "request" /\ inCallback = NoRequest /\ loop = "off"
    /\ unsent \in SUBSET Requests /\ received = {}
    /\ replies = [r \in Requests |-> 0] /\ posted = {}
    /\ main = "init"

(***************************************************************************)
(* Starting.                                                               *)
(***************************************************************************)

\* The event thread and the detached workers are created; none has run yet.
StartHTTPServer ==
    /\ main = "init"
    /\ main' = "serving"
    /\ loop' = "on"
    /\ wpc' = [w \in HttpWorkers |-> "start"]
    /\ UNCHANGED <<workQueue, running, numThreads, item, deleted, late,
                   gencb, inCallback, unsent, received, replyVars>>

\* AppInitServers returns before it calls StartHTTPServer, because the RPC
\* credentials cannot be set up; AppInit goes on with Interrupt and Shutdown.
StartFails ==
    /\ main = "init" /\ StartMayFail
    /\ main' = "serving"
    /\ UNCHANGED <<queueVars, eventVars, replyVars>>

(***************************************************************************)
(* HTTPRequest::WriteReply: an event for the event loop, which sends the   *)
(* reply.  R is the set of requests replied to.                            *)
(***************************************************************************)
WriteReply(R) ==
    /\ replies' = [r \in Requests |-> IF r \in R THEN replies[r] + 1 ELSE replies[r]]
    /\ posted' = posted \cup R

\* Faulty: the destructor replies whether or not a reply was sent.
DeleteRequestsAlways(R) == WriteReply(R)

\* ~HTTPRequest: the reply of a request that was not replied to.
DeleteRequests(R) == WriteReply({r \in R : replies[r] = 0})

(***************************************************************************)
(* cond, shared by the workers and the main thread in WaitExit.            *)
(***************************************************************************)
Woken(W) == [w \in HttpWorkers |-> IF w \in W THEN "ready" ELSE wpc[w]]

Waiting == {w \in HttpWorkers : wpc[w] = "wait"}

NotifyAll(pcs) ==
    /\ wpc' = [w \in HttpWorkers |-> IF pcs[w] = "wait" THEN "ready" ELSE pcs[w]]
    /\ main' = IF main = "asleep" THEN "exiting" ELSE main

\* One of the threads that wait is woken, whichever it is.
NotifyOne ==
    \/ \E w \in Waiting : wpc' = Woken({w}) /\ UNCHANGED main
    \/ main = "asleep" /\ main' = "exiting" /\ UNCHANGED wpc
    \/ Waiting = {} /\ main # "asleep" /\ UNCHANGED <<wpc, main>>

\* A wait may end by itself.
SpuriousWake(w) ==
    /\ wpc[w] = "wait"
    /\ wpc' = Woken({w})
    /\ UNCHANGED <<workQueue, running, numThreads, item, deleted, late, eventVars, replyVars, main>>

(***************************************************************************)
(* The event thread.                                                       *)
(***************************************************************************)
LoopIdle == loop \in {"on", "broken"} /\ inCallback = NoRequest

\* http_request_cb up to the dispatch: a request that is not allowed, has an
\* unknown method or no handler is replied to at once.
RequestCallback(r) ==
    /\ loop = "on" /\ inCallback = NoRequest /\ gencb = "request"
    /\ r \in unsent
    /\ unsent' = unsent \ {r} /\ received' = received \cup {r}
    /\ \/ inCallback' = r /\ UNCHANGED replyVars
       \/ inCallback' = NoRequest /\ WriteReply({r})
    /\ UNCHANGED <<queueVars, gencb, loop, main>>

\* http_reject_request_cb: libevent sends the error itself.
RejectCallback(r) ==
    /\ loop = "on" /\ inCallback = NoRequest /\ gencb = "reject"
    /\ r \in unsent
    /\ unsent' = unsent \ {r} /\ received' = received \cup {r}
    /\ replies' = [replies EXCEPT ![r] = @ + 1]
    /\ UNCHANGED <<queueVars, gencb, inCallback, loop, posted, main>>

\* Faulty: an item is put in the queue and no worker is told.
EnqueueSilently ==
    /\ inCallback # NoRequest /\ ~deleted
    /\ \/ /\ Len(workQueue) >= MaxDepth
          /\ WriteReply({inCallback})
          /\ UNCHANGED workQueue
       \/ /\ Len(workQueue) < MaxDepth
          /\ workQueue' = Append(workQueue, inCallback)
          /\ UNCHANGED replyVars
    /\ inCallback' = NoRequest
    /\ UNCHANGED <<running, numThreads, wpc, item, deleted, late, gencb, loop, unsent, received, main>>

\* WorkQueue::Enqueue and the end of http_request_cb.  Nothing asks whether
\* the queue was interrupted.
Enqueue ==
    /\ inCallback # NoRequest /\ ~deleted
    /\ \/ /\ Len(workQueue) >= MaxDepth
          /\ WriteReply({inCallback})
          /\ UNCHANGED <<workQueue, wpc, main>>
       \/ /\ Len(workQueue) < MaxDepth
          /\ workQueue' = Append(workQueue, inCallback)
          /\ NotifyOne
          /\ UNCHANGED replyVars
    /\ inCallback' = NoRequest
    /\ UNCHANGED <<running, numThreads, item, deleted, late, gencb, loop, unsent, received>>

\* The event of a WriteReply: evhttp_send_reply.
SendReply(r) ==
    /\ loop = "on" /\ inCallback = NoRequest
    /\ r \in posted
    /\ posted' = posted \ {r}
    /\ UNCHANGED <<queueVars, eventVars, replies, main>>

\* event_base_dispatch returns: because it was told to, or because no socket
\* accepts connections any more and no event is pending.
LoopEnds ==
    /\ LoopIdle
    /\ loop = "broken" \/ (gencb = "reject" /\ posted = {})
    /\ loop' = "done"
    /\ UNCHANGED <<queueVars, gencb, inCallback, unsent, received, replyVars, main>>

(***************************************************************************)
(* The workers.                                                            *)
(***************************************************************************)

\* HTTPWorkQueueRun enters Run, whose ThreadCounter counts the thread.
Count(w) ==
    /\ wpc[w] = "start" /\ ~deleted
    /\ numThreads' = numThreads + 1
    /\ wpc' = [wpc EXCEPT ![w] = "ready"]
    /\ UNCHANGED <<workQueue, running, item, deleted, late, eventVars, replyVars, main>>

\* One round of Run under the lock.  The test of running before it takes the
\* lock finds FALSE only when the test under the lock does too.
Run(w) ==
    /\ wpc[w] = "ready" /\ ~deleted
    /\ \/ /\ ~running
          /\ wpc' = [wpc EXCEPT ![w] = "exit"]
          /\ UNCHANGED <<workQueue, item>>
       \/ /\ running /\ workQueue = <<>>
          /\ wpc' = [wpc EXCEPT ![w] = "wait"]
          /\ UNCHANGED <<workQueue, item>>
       \/ /\ running /\ workQueue # <<>>
          /\ item' = [item EXCEPT ![w] = Head(workQueue)]
          /\ workQueue' = Tail(workQueue)
          /\ wpc' = [wpc EXCEPT ![w] = "serve"]
    /\ UNCHANGED <<running, numThreads, deleted, late, eventVars, replyVars, main>>

\* (*i)(): the handler, which normally replies.
Serve(w) ==
    /\ wpc[w] = "serve"
    /\ WriteReply({item[w]}) \/ UNCHANGED replyVars
    /\ wpc' = [wpc EXCEPT ![w] = "served"]
    /\ UNCHANGED <<workQueue, running, numThreads, item, deleted, late, eventVars, main>>

\* delete i
DeleteItem(w) ==
    /\ wpc[w] = "served"
    /\ DeleteRequests({item[w]})
    /\ item' = [item EXCEPT ![w] = NoRequest]
    /\ wpc' = [wpc EXCEPT ![w] = "ready"]
    /\ UNCHANGED <<workQueue, running, numThreads, deleted, late, eventVars, main>>

\* Faulty: the count is lowered and nobody is told.
UncountSilently(w) ==
    /\ wpc[w] = "exit" /\ ~deleted
    /\ numThreads' = numThreads - 1
    /\ wpc' = [wpc EXCEPT ![w] = "gone"]
    /\ UNCHANGED <<workQueue, running, item, deleted, late, eventVars, replyVars, main>>

\* ~ThreadCounter
Uncount(w) ==
    /\ wpc[w] = "exit" /\ ~deleted
    /\ numThreads' = numThreads - 1
    /\ NotifyAll([wpc EXCEPT ![w] = "gone"])
    /\ UNCHANGED <<workQueue, running, item, deleted, late, eventVars, replyVars>>

(***************************************************************************)
(* The main thread takes the server down.                                  *)
(***************************************************************************)

\* InterruptHTTPServer, first half: new requests are rejected.
RejectRequests ==
    /\ main = "serving"
    /\ gencb' = "reject"
    /\ main' = "rejecting"
    /\ UNCHANGED <<queueVars, inCallback, loop, unsent, received, replyVars>>

\* WorkQueue::Interrupt; what follows it is StopHTTPServer.
Interrupt ==
    /\ main = "rejecting"
    /\ running' = FALSE
    /\ wpc' = [w \in HttpWorkers |-> IF wpc[w] = "wait" THEN "ready" ELSE wpc[w]]
    /\ main' = "exiting"
    /\ UNCHANGED <<workQueue, numThreads, item, deleted, late, eventVars, replyVars>>

\* Faulty: one worker may still be there.
WaitExitOneLeft ==
    /\ main = "exiting"
    /\ \/ numThreads > 1 /\ main' = "asleep" /\ UNCHANGED late
       \/ numThreads <= 1 /\ main' = "delete" /\ late' = {w \in HttpWorkers : wpc[w] = "start"}
    /\ UNCHANGED <<workQueue, running, numThreads, wpc, item, deleted, eventVars, replyVars>>

\* WorkQueue::WaitExit: one test of its loop.  A worker that was created and
\* has not reached its ThreadCounter is not waited for.
WaitExit ==
    /\ main = "exiting"
    /\ \/ numThreads > 0 /\ main' = "asleep" /\ UNCHANGED late
       \/ numThreads = 0 /\ main' = "delete" /\ late' = {w \in HttpWorkers : wpc[w] = "start"}
    /\ UNCHANGED <<workQueue, running, numThreads, wpc, item, deleted, eventVars, replyVars>>

\* ~WorkQueue deletes the items left.  Nothing waits for the late workers, nor
\* for a callback that is about to enqueue: what they do with the deleted
\* queue is undefined, and none of Count, Run, Uncount and Enqueue says it.
DeleteQueue ==
    /\ main = "delete"
    /\ DeleteRequests({workQueue[i] : i \in DOMAIN workQueue})
    /\ workQueue' = <<>>
    /\ deleted' = TRUE
    /\ main' = "join"
    /\ UNCHANGED <<running, numThreads, wpc, item, late, eventVars>>

\* The event loop gets two seconds to end by itself, if it was started.
BreakLoop ==
    /\ main = "join" /\ loop = "on"
    /\ loop' = "broken"
    /\ UNCHANGED <<queueVars, gencb, inCallback, unsent, received, replyVars, main>>

\* threadHTTP.join(), which throws when no thread was started.
JoinEventThread ==
    /\ main = "join"
    /\ \/ loop = "done" /\ main' = "stopped"
       \/ loop = "off" /\ main' = "aborted"
    /\ UNCHANGED <<queueVars, eventVars, replyVars>>

(***************************************************************************)
(* The specification.                                                      *)
(***************************************************************************)
EventThread ==
    \/ \E r \in Requests : RequestCallback(r) \/ RejectCallback(r) \/ SendReply(r)
    \/ Enqueue
    \/ LoopEnds

HttpWorker(w) == Count(w) \/ Run(w) \/ Serve(w) \/ DeleteItem(w) \/ Uncount(w)

ShutdownHttp ==
    \/ Interrupt \/ WaitExit \/ DeleteQueue \/ BreakLoop \/ JoinEventThread

HttpNext ==
    \/ StartHTTPServer \/ StartFails
    \/ EventThread
    \/ \E w \in HttpWorkers : HttpWorker(w) \/ SpuriousWake(w)
    \/ RejectRequests \/ ShutdownHttp

\* Threads are scheduled, handlers return, and a shutdown once begun goes on.
\* The event loop ends when it is told to, not necessarily before.
\* Nobody has to send a request, and nobody has to shut the node down.
HttpFairness ==
    /\ WF_httpVars(StartHTTPServer \/ ShutdownHttp)
    /\ WF_httpVars(Enqueue) /\ WF_httpVars(loop = "broken" /\ LoopEnds)
    /\ \A w \in HttpWorkers : WF_httpVars(HttpWorker(w))

(***************************************************************************)
(* Properties.                                                             *)
(***************************************************************************)

\* The threads and places that hold request r now.
Holders(r) ==
    {<<"worker", w>> : w \in {x \in HttpWorkers : item[x] = r}}
        \cup {<<"queue", i>> : i \in {k \in DOMAIN workQueue : workQueue[k] = r}}
        \cup {<<"callback", q>> : q \in {inCallback} \cap {r}}

HttpTypeOK ==
    /\ workQueue \in Seq(Requests) /\ running \in BOOLEAN
    /\ numThreads \in Nat /\ deleted \in BOOLEAN /\ late \subseteq HttpWorkers
    /\ wpc \in [HttpWorkers -> WorkerPC]
    /\ item \in [HttpWorkers -> Requests \cup {NoRequest}]
    /\ gencb \in {"request", "reject"} /\ loop \in {"off", "on", "broken", "done"}
    /\ inCallback \in Requests \cup {NoRequest}
    /\ unsent \subseteq Requests /\ received \subseteq Requests /\ posted \subseteq Requests
    /\ replies \in [Requests -> Nat]
    /\ main \in MainPC

\* No request is replied to twice, and none is dropped: one that was received
\* and has no reply yet is held by exactly one of the callback, the queue and
\* the workers, through a full queue, an interruption and the deletion of the
\* queue (the assertion of HTTPRequest::WriteReply and the comment in
\* ~HTTPRequest).
AnsweredOrHeld ==
    \A r \in Requests :
        /\ replies[r] \in {0, 1}
        /\ r \in received /\ replies[r] = 0 =>
               \E h \in Holders(r) : Holders(r) = {h}

\* "Precondition: worker threads have all stopped" (~WorkQueue): of the workers
\* created, only one that had not entered Run when WaitExit looked can still be
\* there when the queue is deleted, and such a one neither has a request nor
\* waits on the queue's condition variable.
QueueDeletedAlone ==
    deleted => \A w \in HttpWorkers :
                   \/ wpc[w] \in {"absent", "gone"}
                   \/ w \in late /\ wpc[w] \in {"start", "ready", "exit"}

\* The precondition itself, with the event thread in http_request_cb, which is
\* on its way to the queue as well.
QueueUnusedWhenDeleted ==
    deleted => /\ \A w \in HttpWorkers : wpc[w] \in {"absent", "gone"}
               /\ inCallback = NoRequest

\* Shutdown() "must be able to handle cases in which AppInit2() failed part of
\* the way" (PrepareShutdown): stopping a server that was not started ends.
StopsUnstarted == main # "aborted"

\* A request that a callback has taken up is replied to, also when the server
\* is interrupted while it is in the queue or being served; unless a thread is
\* left with a deleted queue, after which nothing is promised.
RequestsAnswered ==
    \A r \in Requests :
        []<>(QueueUnusedWhenDeleted => (r \in received => replies[r] > 0))
=============================================================================
