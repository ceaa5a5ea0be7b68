---------------------------- MODULE RequestQueue ----------------------------
(***************************************************************************)
(* The request dispatcher of networking/load_balancing/round_robin.cpp:    *)
(* the main thread puts N requests on a RequestQueue, a pool of threads    *)
(* takes them off, asks the LoadBalancer for the next server in turn and   *)
(* lets it process the request.  The condition variable is modelled by the *)
(* set of the threads asleep on it; each critical section is one action.   *)
(***************************************************************************)
EXTENDS Integers, Sequences

CONSTANTS N,          \* the requests the main thread adds: 1 .. N
          Worker,     \* the threads of threadPool
          S           \* servers.size()

ASSUME DispatcherAssumption ==
  /\ N \in Nat \ {0}
  /\ S \in Nat \ {0}
  /\ Worker # {}

Request == 1 .. N
Server  == 0 .. S - 1
None    == -1         \* no request in hand: the value getNextRequest returns at the end

VARIABLES requestQueue,   \* RequestQueue::requestQueue
          stopped,        \* RequestQueue::stopped
          asleep,         \* the threads blocked in cv.wait
          mainPc,         \* where main() is
          added,          \* main()'s loop counter: requests pushed so far
          pc,             \* where each thread of handleRequests is
          requestId,      \* handleRequests' requestId
          currentIndex,   \* LoadBalancer::currentIndex
          chosen,         \* times getNextServer has returned each server
          processed       \* times processRequest has completed each request

queueVars    == <<requestQueue, stopped, asleep>>
mainVars     == <<mainPc, added>>
workerVars   == <<pc, requestId>>
balancerVars == <<currentIndex, chosen>>
vars == <<queueVars, mainVars, workerVars, balancerVars, processed>>

TypeOK ==
  /\ requestQueue \in Seq(Request)
  /\ stopped \in BOOLEAN
  /\ asleep \subseteq Worker
  /\ mainPc \in {"add", "notify_one", "stop", "notify_all", "join", "exit"}
  /\ added \in 0 .. N
  /\ pc \in [Worker -> {"get", "choose", "process", "returned"}]
  /\ requestId \in [Worker -> Request \cup {None}]
  /\ currentIndex \in Server
  /\ chosen \in [Server -> Nat]
  /\ processed \in [Request -> Nat]

Init ==
  /\ requestQueue = <<>>
  /\ stopped = FALSE
  /\ asleep = {}
  /\ mainPc = "add"
  /\ added = 0
  /\ pc = [w \in Worker |-> "get"]
  /\ requestId = [w \in Worker |-> None]
  /\ currentIndex = 0
  /\ chosen = [s \in Server |-> 0]
  /\ processed = [r \in Request |-> 0]

-----------------------------------------------------------------------------
(* The pieces of the critical sections, each after the slips it could be      *)
(* mistaken for: the variants are used only to see that a property notices.   *)

\* requestQueue.push
Push(q, r) == Append(q, r)

FrontWithoutPop(q) == q
\* requestQueue.pop
Pop(q) == Tail(q)

WaitUnlessRequest == requestQueue = <<>>
\* The negation of the predicate getNextRequest waits for.
MustWait == requestQueue = <<>> /\ ~stopped

QuitOnStopAlone == stopped
\* The condition under which getNextRequest returns -1.
MustQuit == stopped /\ requestQueue = <<>>

\* Whom cv.notify_one leaves asleep: all but one, whichever, if anyone sleeps.
NotifyOneOf(sleepers) ==
  IF sleepers = {} THEN {{}} ELSE {sleepers \ {w} : w \in sleepers}
\* Whom cv.notify_all leaves asleep: the possible sets.
NotifyAllOf(sleepers) == {{}}

NextIndexEarlyWrap(i) == (i + 1) % (S - 1)
\* getNextServer's step round the servers.
NextIndex(i) == (i + 1) % S

-----------------------------------------------------------------------------
(* The main thread. *)

\* addRequest, first half: the push, under the mutex.
AddRequest ==
  /\ mainPc = "add"
  /\ added < N
  /\ requestQueue' = Push(requestQueue, added + 1)
  /\ added' = added + 1
  /\ mainPc' = "notify_one"
  /\ UNCHANGED <<stopped, asleep, workerVars, balancerVars, processed>>

\* addRequest, second half: cv.notify_one() after the mutex is released wakes
\* one sleeping thread, whichever, and is lost when nobody sleeps.
NotifyOne ==
  /\ mainPc = "notify_one"
  /\ asleep' \in NotifyOneOf(asleep)
  /\ mainPc' = IF added = N THEN "stop" ELSE "add"
  /\ UNCHANGED <<requestQueue, stopped, added, workerVars, balancerVars, processed>>

\* stop, first half: the flag, under the mutex.
Stop ==
  /\ mainPc = "stop"
  /\ stopped' = TRUE
  /\ mainPc' = "notify_all"
  /\ UNCHANGED <<requestQueue, asleep, added, workerVars, balancerVars, processed>>

\* stop, second half: cv.notify_all() after the mutex is released.
NotifyAll ==
  /\ mainPc = "notify_all"
  /\ asleep' \in NotifyAllOf(asleep)
  /\ mainPc' = "join"
  /\ UNCHANGED <<requestQueue, stopped, added, workerVars, balancerVars, processed>>

\* thread.join() returns for every thread; main prints its last line and ends.
JoinAll ==
  /\ mainPc = "join"
  /\ \A w \in Worker : pc[w] = "returned"
  /\ mainPc' = "exit"
  /\ UNCHANGED <<queueVars, added, workerVars, balancerVars, processed>>

-----------------------------------------------------------------------------
(* A thread running handleRequests. *)

\* An awake thread in getNextRequest evaluates the wait predicate with the
\* mutex held, on entry as after every wake-up, and goes to sleep on FALSE.
WaitForRequest(w) ==
  /\ pc[w] = "get" /\ w \notin asleep
  /\ MustWait
  /\ asleep' = asleep \cup {w}
  /\ UNCHANGED <<requestQueue, stopped, mainVars, workerVars, balancerVars, processed>>

\* getNextRequest takes the front request.
TakeRequest(w) ==
  /\ pc[w] = "get" /\ w \notin asleep
  /\ ~MustWait /\ ~MustQuit
  /\ requestId' = [requestId EXCEPT ![w] = Head(requestQueue)]
  /\ requestQueue' = Pop(requestQueue)
  /\ pc' = [pc EXCEPT ![w] = "choose"]
  /\ UNCHANGED <<stopped, asleep, mainVars, balancerVars, processed>>

\* getNextRequest returns -1 and handleRequests leaves its loop.
ReturnStopped(w) ==
  /\ pc[w] = "get" /\ w \notin asleep
  /\ ~MustWait /\ MustQuit
  /\ pc' = [pc EXCEPT ![w] = "returned"]
  /\ UNCHANGED <<queueVars, mainVars, requestId, balancerVars, processed>>

\* A condition variable may wake a thread that nobody notified.
SpuriousWakeup(w) ==
  /\ w \in asleep
  /\ asleep' = asleep \ {w}
  /\ UNCHANGED <<requestQueue, stopped, mainVars, workerVars, balancerVars, processed>>

\* LoadBalancer::getNextServer, under the balancer's own mutex.
GetNextServer(w) ==
  /\ pc[w] = "choose"
  /\ chosen' = [chosen EXCEPT ![currentIndex] = @ + 1]
  /\ currentIndex' = NextIndex(currentIndex)
  /\ pc' = [pc EXCEPT ![w] = "process"]
  /\ UNCHANGED <<queueVars, mainVars, requestId, processed>>

\* Server::processRequest returns and the loop starts over.
ProcessRequest(w) ==
  /\ pc[w] = "process"
  /\ processed' = [processed EXCEPT ![requestId[w]] = @ + 1]
  /\ requestId' = [requestId EXCEPT ![w] = None]
  /\ pc' = [pc EXCEPT ![w] = "get"]
  /\ UNCHANGED <<queueVars, mainVars, balancerVars>>

-----------------------------------------------------------------------------
MainStep == AddRequest \/ NotifyOne \/ Stop \/ NotifyAll \/ JoinAll

WorkerStep(w) ==
  \/ WaitForRequest(w) \/ TakeRequest(w) \/ ReturnStopped(w)
  \/ GetNextServer(w) \/ ProcessRequest(w)

\* The process has ended.
Exited == mainPc = "exit" /\ UNCHANGED vars

Next ==
  \/ MainStep
  \/ \E w \in Worker : WorkerStep(w) \/ SpuriousWakeup(w)
  \/ Exited

\* Every thread keeps being scheduled; nothing promises a spurious wake-up.
Fairness == WF_vars(MainStep) /\ \A w \in Worker : WF_vars(WorkerStep(w))

Spec == Init /\ [][Next]_vars /\ Fairness

-----------------------------------------------------------------------------
(* What the dispatcher promises. *)

\* The requests getNextRequest has handed out: they leave in the order added.
Taken == added - Len(requestQueue)

\* Requests are handed out in the order main added them, so what is left in
\* the queue is exactly the requests after the last one handed out.
QueueInOrder ==
  /\ Taken >= 0
  /\ \A k \in 1 .. Len(requestQueue) : requestQueue[k] = Taken + k

\* No request is lost or handled twice, whatever way the threads interleave: a
\* request that left the queue was processed once or is in the hand of exactly
\* one thread, and a request that has not left it is neither.
ExactlyOnce ==
  \A r \in Request :
    /\ processed[r] <= 1
    /\ \A v, w \in Worker : requestId[v] = r /\ requestId[w] = r => v = w
    /\ processed[r] = 1 => \A w \in Worker : requestId[w] # r
    /\ r <= Taken <=> (processed[r] = 1 \/ \E w \in Worker : requestId[w] = r)

\* When main() prints "All requests processed." (round_robin.cpp:121) every
\* request has been processed, although stop() may overtake the queue.
AllProcessedOnExit ==
  mainPc = "exit" => \A r \in Request : processed[r] = 1

\* No wake-up is lost between a push or stop() and its notification, which the
\* code sends after releasing the mutex: with work in the queue some thread is
\* awake, and after stop() nobody sleeps, unless the notification is yet to come.
NoLostWakeup ==
  /\ requestQueue # <<>> /\ asleep = Worker => mainPc = "notify_one"
  /\ stopped /\ asleep # {} => mainPc = "notify_all"

\* getNextServer goes round: no server is ever more than one request ahead of
\* another, however many threads call it.
RoundRobin == \A s, t \in Server : chosen[s] <= chosen[t] + 1

\* Once main has begun to add requests the pool shuts down, under every
\* interleaving of the last requests, stop() and the sleeping threads: main's join
\* of every thread returns.
PoolTerminates == added > 0 ~> mainPc = "exit"
=============================================================================
