------------------------- MODULE RequestQueueProofs -------------------------
(***************************************************************************)
(* The safety of the request dispatcher for any number of requests,        *)
(* threads and servers.  IInv adds to the promised invariants what relates *)
(* the program counters of main and of the threads to the shared state.    *)
(***************************************************************************)
EXTENDS RequestQueue, SequenceTheorems, TLAPS

\* A thread holds a request exactly between getNextRequest and the end of
\* processRequest, and sleeps only inside getNextRequest.
HandInv ==
  \A w \in Worker :
    /\ pc[w] \in {"get", "returned"} <=> requestId[w] = None
    /\ w \in asleep => pc[w] = "get"

\* The flag is raised by stop() alone, which follows the last push; a thread
\* leaves its loop only after that, with the queue drained.
ShutdownInv ==
  /\ stopped <=> mainPc \in {"notify_all", "join", "exit"}
  /\ mainPc \in {"stop", "notify_all", "join", "exit"} => added = N
  /\ \A w \in Worker : pc[w] = "returned" => stopped /\ requestQueue = <<>>
  /\ mainPc = "exit" => \A w \in Worker : pc[w] = "returned"

\* Servers before the index are one request ahead of those from it on.
IndexInv ==
  \A s \in Server :
    chosen[s] = chosen[S - 1] + (IF s < currentIndex THEN 1 ELSE 0)

IInv ==
  /\ TypeOK
  /\ QueueInOrder
  /\ ExactlyOnce
  /\ NoLostWakeup
  /\ HandInv
  /\ ShutdownInv
  /\ IndexInv

USE DispatcherAssumption

\* The initial state satisfies the invariant.
LEMMA InitInv == Init => IInv
<1> SUFFICES ASSUME Init PROVE IInv
  OBVIOUS
<1> USE DEF Init, Request, Server, None
<1>1. TypeOK
  <2>1. requestQueue \in Seq(Request) OBVIOUS
  <2>2. stopped \in BOOLEAN OBVIOUS
  <2>3. asleep \subseteq Worker OBVIOUS
  <2>4. mainPc \in {"add", "notify_one", "stop", "notify_all", "join", "exit"} OBVIOUS
  <2>5. added \in 0 .. N OBVIOUS
  <2>6. pc \in [Worker -> {"get", "choose", "process", "returned"}] OBVIOUS
  <2>7. requestId \in [Worker -> Request \cup {None}] OBVIOUS
  <2>8. currentIndex \in Server OBVIOUS
  <2>9. chosen \in [Server -> Nat] OBVIOUS
  <2>10. processed \in [Request -> Nat] OBVIOUS
  <2> QED BY <2>1, <2>2, <2>3, <2>4, <2>5, <2>6, <2>7, <2>8, <2>9, <2>10 DEF TypeOK
<1>2. QueueInOrder
  BY DEF QueueInOrder, Taken
<1>3. ExactlyOnce
  BY DEF ExactlyOnce, Taken
<1>4. NoLostWakeup /\ HandInv /\ ShutdownInv
  BY DEF NoLostWakeup, HandInv, ShutdownInv
<1>5. IndexInv
  BY DEF IndexInv
<1> QED
  BY <1>1, <1>2, <1>3, <1>4, <1>5 DEF IInv

\* Types are preserved by every step.
LEMMA TypeStep == TypeOK /\ [Next]_vars => TypeOK'
<1> SUFFICES ASSUME TypeOK, [Next]_vars PROVE TypeOK'
  OBVIOUS
<1> USE DEF TypeOK, Request, Server, None, queueVars, mainVars, workerVars, balancerVars
<1>1. CASE AddRequest
  BY <1>1, AppendProperties, SMTT(30) DEF AddRequest, Push
<1>2. CASE NotifyOne
  BY <1>2 DEF NotifyOne, NotifyOneOf
<1>3. CASE Stop
  BY <1>3 DEF Stop
<1>4. CASE NotifyAll
  BY <1>4 DEF NotifyAll, NotifyAllOf
<1>5. CASE JoinAll
  BY <1>5 DEF JoinAll
<1>6. ASSUME NEW w \in Worker, WaitForRequest(w) PROVE TypeOK'
  BY <1>6 DEF WaitForRequest
<1>7. ASSUME NEW w \in Worker, TakeRequest(w) PROVE TypeOK'
  <2>1. requestQueue # <<>>
    BY <1>7 DEF TakeRequest, MustWait, MustQuit
  <2>2. Head(requestQueue) \in Request /\ Tail(requestQueue) \in Seq(Request)
    BY <2>1, HeadTailProperties
  <2> QED
    BY <1>7, <2>2, SMTT(30) DEF TakeRequest, Pop, MustWait, MustQuit
<1>8. ASSUME NEW w \in Worker, ReturnStopped(w) PROVE TypeOK'
  BY <1>8 DEF ReturnStopped, MustWait, MustQuit
<1>9. ASSUME NEW w \in Worker, SpuriousWakeup(w) PROVE TypeOK'
  BY <1>9 DEF SpuriousWakeup
<1>10. ASSUME NEW w \in Worker, GetNextServer(w) PROVE TypeOK'
  <2>1. NextIndex(currentIndex) \in Server
    BY DEF NextIndex
  <2>2. chosen' \in [Server -> Nat]
    BY <1>10 DEF GetNextServer
  <2> QED
    BY <1>10, <2>1, <2>2, SMTT(30) DEF GetNextServer
<1>11. ASSUME NEW w \in Worker, ProcessRequest(w) PROVE TypeOK'
  <2>1. processed' \in [Request -> Nat]
    <3>1. processed' = [r \in Request |-> IF r = requestId[w] THEN processed[r] + 1
                                                             ELSE processed[r]]
      BY <1>11 DEF ProcessRequest
    <3> QED
      BY <3>1
  <2> QED
    BY <1>11, <2>1, SMTT(30) DEF ProcessRequest
<1>12. CASE UNCHANGED vars
  BY <1>12 DEF vars
<1> QED
  BY <1>1, <1>2, <1>3, <1>4, <1>5, <1>6, <1>7, <1>8, <1>9, <1>10, <1>11, <1>12
     DEF Next, MainStep, WorkerStep, Exited

\* Only a push and a take touch the queue; both keep it in order.
LEMMA OrderStep == IInv /\ [Next]_vars => QueueInOrder'
<1> SUFFICES ASSUME IInv, [Next]_vars PROVE QueueInOrder'
  OBVIOUS
<1> USE DEF IInv, TypeOK, QueueInOrder, Taken, Request
<1>1. CASE AddRequest
  <2>1. added + 1 \in Request /\ added' = added + 1
    BY <1>1 DEF AddRequest
  <2>2. /\ Len(requestQueue') = Len(requestQueue) + 1
        /\ \A k \in 1 .. Len(requestQueue) : requestQueue'[k] = requestQueue[k]
        /\ requestQueue'[Len(requestQueue) + 1] = added + 1
    BY <1>1, <2>1, AppendProperties DEF AddRequest, Push
  <2>3. Len(requestQueue) \in Nat /\ added \in Nat
    OBVIOUS
  <2>4. Taken' = Taken
    BY <2>1, <2>2, <2>3
  <2>5. ASSUME NEW k \in 1 .. Len(requestQueue') PROVE requestQueue'[k] = Taken' + k
    <3>1. CASE k \in 1 .. Len(requestQueue)
      BY <2>2, <2>4, <3>1
    <3>2. CASE k = Len(requestQueue) + 1
      BY <2>2, <2>3, <2>4, <3>2
    <3>3. k \in 1 .. Len(requestQueue) \/ k = Len(requestQueue) + 1
      BY <2>2, <2>3
    <3> QED
      BY <3>1, <3>2, <3>3
  <2> QED
    BY <2>3, <2>4, <2>5
<1>2. ASSUME NEW w \in Worker, TakeRequest(w) PROVE QueueInOrder'
  <2>1. requestQueue # <<>>
    BY <1>2 DEF TakeRequest, MustWait, MustQuit
  <2>2. /\ Len(requestQueue') = Len(requestQueue) - 1
        /\ \A k \in 1 .. Len(requestQueue') : requestQueue'[k] = requestQueue[k + 1]
    BY <1>2, <2>1, HeadTailProperties DEF TakeRequest, Pop
  <2>3. added' = added /\ Len(requestQueue) \in Nat
    BY <1>2 DEF TakeRequest, mainVars
  <2>4. Taken' = Taken + 1
    BY <2>2, <2>3
  <2>5. ASSUME NEW k \in 1 .. Len(requestQueue') PROVE requestQueue'[k] = Taken' + k
    <3>1. k + 1 \in 1 .. Len(requestQueue)
      BY <2>2, <2>3
    <3>2. requestQueue[k + 1] = Taken + (k + 1)
      BY <3>1
    <3> QED
      BY <2>2, <2>3, <2>4, <3>2
  <2> QED
    BY <2>3, <2>4, <2>5
<1>3. CASE UNCHANGED <<requestQueue, added>>
  BY <1>3
<1> QED
  BY <1>1, <1>2, <1>3
     DEF Next, MainStep, WorkerStep, Exited, vars, queueVars, mainVars, NotifyOne, Stop,
         NotifyAll, JoinAll, WaitForRequest, ReturnStopped, SpuriousWakeup, GetNextServer,
         ProcessRequest

\* A take moves the next request into one hand; processing moves it from the
\* hand to the processed ones.
LEMMA OnceStep == IInv /\ [Next]_vars => ExactlyOnce'
<1> SUFFICES ASSUME IInv, [Next]_vars PROVE ExactlyOnce'
  OBVIOUS
<1> USE DEF IInv, TypeOK, Taken, Request, None
<1>1. CASE AddRequest
  <2>1. Taken' = Taken
    BY <1>1, AppendProperties DEF AddRequest, Push
  <2> QED
    BY <1>1, <2>1 DEF AddRequest, ExactlyOnce, workerVars
<1>2. ASSUME NEW w \in Worker, TakeRequest(w) PROVE ExactlyOnce'
  <2>1. requestQueue # <<>>
    BY <1>2 DEF TakeRequest, MustWait, MustQuit
  <2>2. Len(requestQueue') = Len(requestQueue) - 1 /\ Len(requestQueue) \in Nat
    BY <1>2, <2>1, HeadTailProperties DEF TakeRequest, Pop
  <2>3. Taken' = Taken + 1 /\ Taken \in Nat
    BY <1>2, <2>2 DEF TakeRequest, mainVars, QueueInOrder
  <2>4. Head(requestQueue) = Taken + 1
    BY <2>1, <2>2 DEF QueueInOrder
  <2>5. requestId[w] = None
    BY <1>2 DEF TakeRequest, HandInv
  <2>6. /\ processed' = processed
        /\ \A v \in Worker : requestId'[v] = IF v = w THEN Taken + 1 ELSE requestId[v]
    BY <1>2, <2>4 DEF TakeRequest
  <2> HIDE DEF Taken
  <2> SUFFICES ASSUME NEW r \in Request
               PROVE  /\ processed'[r] <= 1
                      /\ \A u, v \in Worker : requestId'[u] = r /\ requestId'[v] = r => u = v
                      /\ processed'[r] = 1 => \A v \in Worker : requestId'[v] # r
                      /\ r <= Taken' <=> \/ processed'[r] = 1
                                         \/ \E v \in Worker : requestId'[v] = r
    BY DEF ExactlyOnce
  <2>7. CASE r = Taken + 1
    <3>1. processed[r] # 1 /\ \A v \in Worker : requestId[v] # r
      BY <2>3, <2>7 DEF ExactlyOnce
    <3> QED
      BY <2>3, <2>6, <2>7, <3>1 DEF ExactlyOnce
  <2>8. CASE r # Taken + 1
    <3>1. \A v \in Worker : requestId'[v] = r <=> requestId[v] = r
      BY <2>5, <2>6, <2>8
    <3>2. r <= Taken' <=> r <= Taken
      BY <2>3, <2>8
    <3> QED
      BY <2>6, <3>1, <3>2 DEF ExactlyOnce
  <2> QED
    BY <2>7, <2>8
<1>3. ASSUME NEW w \in Worker, ProcessRequest(w) PROVE ExactlyOnce'
  <2>1. requestId[w] \in Request
    BY <1>3 DEF ProcessRequest, HandInv
  <2>2. Taken' = Taken
    BY <1>3 DEF ProcessRequest, queueVars, mainVars
  <2>3. \A v \in Worker : requestId'[v] = IF v = w THEN None ELSE requestId[v]
    BY <1>3 DEF ProcessRequest
  <2>4. \A r \in Request :
          processed'[r] = IF r = requestId[w] THEN processed[r] + 1 ELSE processed[r]
    BY <1>3, <2>1 DEF ProcessRequest
  <2>5. processed[requestId[w]] = 0
    BY <2>1 DEF ExactlyOnce
  <2> HIDE DEF Taken
  <2> SUFFICES ASSUME NEW r \in Request
               PROVE  /\ processed'[r] <= 1
                      /\ \A u, v \in Worker : requestId'[u] = r /\ requestId'[v] = r => u = v
                      /\ processed'[r] = 1 => \A v \in Worker : requestId'[v] # r
                      /\ r <= Taken' <=> \/ processed'[r] = 1
                                         \/ \E v \in Worker : requestId'[v] = r
    BY DEF ExactlyOnce
  <2>6. CASE r = requestId[w]
    <3>1. r <= Taken /\ \A v \in Worker \ {w} : requestId[v] # r
      BY <2>6 DEF ExactlyOnce
    <3>2. processed'[r] = 1 /\ \A v \in Worker : requestId'[v] # r
      BY <2>3, <2>4, <2>5, <2>6, <3>1, SMTT(30)
    <3> QED
      BY <2>2, <3>1, <3>2
  <2>7. CASE r # requestId[w]
    <3>1. \A v \in Worker : requestId'[v] = r <=> requestId[v] = r
      BY <2>3, <2>7
    <3> QED
      BY <2>2, <2>4, <2>7, <3>1 DEF ExactlyOnce
  <2> QED
    BY <2>6, <2>7
<1>4. CASE UNCHANGED <<requestQueue, added, requestId, processed>>
  BY <1>4 DEF ExactlyOnce
<1> QED
  BY <1>1, <1>2, <1>3, <1>4
     DEF Next, MainStep, WorkerStep, Exited, vars, queueVars, mainVars, workerVars,
         NotifyOne, Stop, NotifyAll, JoinAll, WaitForRequest, ReturnStopped,
         SpuriousWakeup, GetNextServer

\* The thread that goes to sleep has seen an empty queue and no stop flag.
LEMMA WakeupStep == IInv /\ [Next]_vars => NoLostWakeup'
<1> SUFFICES ASSUME IInv, [Next]_vars PROVE NoLostWakeup'
  OBVIOUS
<1> USE DEF IInv, TypeOK, NoLostWakeup, ShutdownInv, HandInv, queueVars, mainVars
<1>1. CASE AddRequest
  BY <1>1 DEF AddRequest
<1>2. CASE NotifyOne
  <2>1. asleep' # Worker
    BY <1>2 DEF NotifyOne, NotifyOneOf
  <2> QED
    BY <1>2, <2>1 DEF NotifyOne
<1>3. CASE Stop
  BY <1>3 DEF Stop
<1>4. CASE NotifyAll
  BY <1>4 DEF NotifyAll, NotifyAllOf
<1>5. CASE JoinAll
  BY <1>5 DEF JoinAll
<1>6. ASSUME NEW w \in Worker, WaitForRequest(w) PROVE NoLostWakeup'
  BY <1>6 DEF WaitForRequest, MustWait
<1>7. ASSUME NEW w \in Worker, TakeRequest(w) PROVE NoLostWakeup'
  BY <1>7 DEF TakeRequest
<1>8. ASSUME NEW w \in Worker, SpuriousWakeup(w) PROVE NoLostWakeup'
  BY <1>8 DEF SpuriousWakeup
<1>9. CASE UNCHANGED <<queueVars, mainPc>>
  BY <1>9
<1> QED
  BY <1>1, <1>2, <1>3, <1>4, <1>5, <1>6, <1>7, <1>8, <1>9
     DEF Next, MainStep, WorkerStep, Exited, vars, ReturnStopped, GetNextServer, ProcessRequest

\* A thread's program counter, its hand and its sleep change together.
LEMMA HandStep == IInv /\ [Next]_vars => HandInv'
<1> SUFFICES ASSUME IInv, [Next]_vars PROVE HandInv'
  OBVIOUS
<1> USE DEF IInv, TypeOK, HandInv, Request, None, queueVars, workerVars
<1>1. CASE NotifyOne
  BY <1>1 DEF NotifyOne, NotifyOneOf
<1>2. CASE NotifyAll
  BY <1>2 DEF NotifyAll, NotifyAllOf
<1>3. ASSUME NEW w \in Worker, WaitForRequest(w) PROVE HandInv'
  BY <1>3 DEF WaitForRequest
<1>4. ASSUME NEW w \in Worker, TakeRequest(w) PROVE HandInv'
  <2>1. requestQueue # <<>>
    BY <1>4 DEF TakeRequest, MustWait, MustQuit
  <2>2. Head(requestQueue) \in Request
    BY <2>1, HeadTailProperties
  <2> QED
    BY <1>4, <2>2 DEF TakeRequest
<1>5. ASSUME NEW w \in Worker, ReturnStopped(w) PROVE HandInv'
  BY <1>5 DEF ReturnStopped
<1>6. ASSUME NEW w \in Worker, SpuriousWakeup(w) PROVE HandInv'
  BY <1>6 DEF SpuriousWakeup
<1>7. ASSUME NEW w \in Worker, GetNextServer(w) PROVE HandInv'
  BY <1>7 DEF GetNextServer
<1>8. ASSUME NEW w \in Worker, ProcessRequest(w) PROVE HandInv'
  BY <1>8 DEF ProcessRequest
<1>9. CASE UNCHANGED <<asleep, pc, requestId>>
  BY <1>9
<1> QED
  BY <1>1, <1>2, <1>3, <1>4, <1>5, <1>6, <1>7, <1>8, <1>9
     DEF Next, MainStep, WorkerStep, Exited, vars, AddRequest, Stop, JoinAll

\* After stop() the queue only shrinks, so a thread that saw it empty may go.
LEMMA ShutdownStep == IInv /\ [Next]_vars => ShutdownInv'
<1> SUFFICES ASSUME IInv, [Next]_vars PROVE ShutdownInv'
  OBVIOUS
<1> USE DEF IInv, TypeOK, ShutdownInv, queueVars, mainVars, workerVars
<1>1. CASE AddRequest
  BY <1>1 DEF AddRequest
<1>2. CASE NotifyOne
  BY <1>2 DEF NotifyOne
<1>3. CASE Stop
  BY <1>3 DEF Stop
<1>4. CASE NotifyAll
  BY <1>4 DEF NotifyAll
<1>5. CASE JoinAll
  BY <1>5 DEF JoinAll
<1>6. ASSUME NEW w \in Worker, TakeRequest(w) PROVE ShutdownInv'
  <2>1. \A v \in Worker : pc[v] # "returned"
    BY <1>6 DEF TakeRequest, MustWait, MustQuit
  <2>2. \A v \in Worker : pc'[v] # "returned"
    BY <1>6, <2>1 DEF TakeRequest
  <2>3. mainPc # "exit"
    BY <2>1
  <2> QED
    BY <1>6, <2>2, <2>3 DEF TakeRequest
<1>7. ASSUME NEW w \in Worker, ReturnStopped(w) PROVE ShutdownInv'
  BY <1>7 DEF ReturnStopped, MustQuit
<1>8. ASSUME NEW w \in Worker, GetNextServer(w) PROVE ShutdownInv'
  BY <1>8 DEF GetNextServer
<1>9. ASSUME NEW w \in Worker, ProcessRequest(w) PROVE ShutdownInv'
  BY <1>9 DEF ProcessRequest
<1>10. CASE UNCHANGED <<requestQueue, stopped, mainPc, added, pc>>
  BY <1>10
<1> QED
  BY <1>1, <1>2, <1>3, <1>4, <1>5, <1>6, <1>7, <1>8, <1>9, <1>10
     DEF Next, MainStep, WorkerStep, Exited, vars, WaitForRequest, SpuriousWakeup

\* NextIndex adds one, and wraps at the last server.
LEMMA NextIndexProperties ==
  ASSUME NEW i \in Server
  PROVE  NextIndex(i) = IF i = S - 1 THEN 0 ELSE i + 1
BY DEF NextIndex, Server

\* The step round the servers, at the wrap and before it.
LEMMA IndexStep == IInv /\ [Next]_vars => IndexInv'
<1> SUFFICES ASSUME IInv, [Next]_vars PROVE IndexInv'
  OBVIOUS
<1> USE DEF IInv, TypeOK, IndexInv, Server
<1>1. ASSUME NEW w \in Worker, GetNextServer(w) PROVE IndexInv'
  <2>1. \A s \in Server :
          chosen'[s] = IF s = currentIndex THEN chosen[s] + 1 ELSE chosen[s]
    BY <1>1 DEF GetNextServer
  <2>2. CASE currentIndex = S - 1
    <3>1. currentIndex' = 0
      BY <1>1, <2>2, NextIndexProperties DEF GetNextServer
    <3> QED
      BY <2>1, <2>2, <3>1
  <2>3. CASE currentIndex < S - 1
    <3>1. currentIndex' = currentIndex + 1
      BY <1>1, <2>3, NextIndexProperties DEF GetNextServer
    <3>2. chosen'[S - 1] = chosen[S - 1]
      BY <2>1, <2>3
    <3> QED
      BY <2>1, <2>3, <3>1, <3>2
  <2> QED
    BY <2>2, <2>3
<1>2. CASE UNCHANGED balancerVars
  BY <1>2 DEF balancerVars
<1> QED
  BY <1>1, <1>2
     DEF Next, MainStep, WorkerStep, Exited, vars, AddRequest, NotifyOne, Stop, NotifyAll,
         JoinAll, WaitForRequest, TakeRequest, ReturnStopped, SpuriousWakeup, ProcessRequest

-----------------------------------------------------------------------------
\* IInv is inductive, hence an invariant of the dispatcher.
THEOREM Invariance == Spec => []IInv
<1>1. IInv /\ [Next]_vars => IInv'
  BY TypeStep, OrderStep, OnceStep, WakeupStep, HandStep, ShutdownStep, IndexStep DEF IInv
<1> QED
  BY InitInv, <1>1, PTL DEF Spec

\* The variables of the dispatcher keep their types.
THEOREM TypeCorrect == Spec => []TypeOK
<1>1. IInv => TypeOK
  BY DEF IInv
<1> QED
  BY Invariance, <1>1, PTL

\* Requests leave the queue in the order in which they were added.
THEOREM DispatchedInOrder == Spec => []QueueInOrder
<1>1. IInv => QueueInOrder
  BY DEF IInv
<1> QED
  BY Invariance, <1>1, PTL

\* No request is lost or handled twice, whatever the number of threads.
THEOREM HandledExactlyOnce == Spec => []ExactlyOnce
<1>1. IInv => ExactlyOnce
  BY DEF IInv
<1> QED
  BY Invariance, <1>1, PTL

\* "All requests processed." is printed only when it is true: the last thread
\* left with the queue empty and every request added, so all were taken, and
\* no thread still holds one.
THEOREM AllProcessed == Spec => []AllProcessedOnExit
<1>1. IInv => AllProcessedOnExit
  <2> SUFFICES ASSUME IInv, mainPc = "exit", NEW r \in Request
               PROVE  processed[r] = 1
    BY DEF AllProcessedOnExit
  <2>1. \A w \in Worker : pc[w] = "returned"
    BY DEF IInv, ShutdownInv
  <2>2. requestQueue = <<>> /\ added = N
    BY <2>1 DEF IInv, ShutdownInv
  <2>3. r <= Taken
    BY <2>2 DEF Taken, Request, IInv, TypeOK
  <2>4. \A w \in Worker : requestId[w] # r
    BY <2>1 DEF IInv, HandInv, None, Request
  <2> QED
    BY <2>3, <2>4 DEF IInv, ExactlyOnce
<1> QED
  BY Invariance, <1>1, PTL

\* No wake-up is lost although the notifications are sent without the mutex.
THEOREM WakeupsNotLost == Spec => []NoLostWakeup
<1>1. IInv => NoLostWakeup
  BY DEF IInv
<1> QED
  BY Invariance, <1>1, PTL

\* The balancer is fair to within one request.
THEOREM BalancedRoundRobin == Spec => []RoundRobin
<1>1. IInv => RoundRobin
  <2> SUFFICES ASSUME IInv, NEW s \in Server, NEW t \in Server
               PROVE  chosen[s] <= chosen[t] + 1
    BY DEF RoundRobin
  <2>1. S - 1 \in Server
    BY DEF Server
  <2>2. chosen[s] \in Nat /\ chosen[t] \in Nat /\ chosen[S - 1] \in Nat
    BY <2>1 DEF IInv, TypeOK
  <2>3. chosen[s] <= chosen[S - 1] + 1 /\ chosen[t] >= chosen[S - 1]
    BY <2>2 DEF IInv, IndexInv
  <2> QED
    BY <2>2, <2>3
<1> QED
  BY Invariance, <1>1, PTL
=============================================================================
