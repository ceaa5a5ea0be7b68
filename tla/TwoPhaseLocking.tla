-------------------------- MODULE TwoPhaseLocking --------------------------
(***************************************************************************)
(* class TransactionManager of two_phase_locking.cpp on top of the lock    *)
(* manager, with the transaction threads that call it.  A thread runs one  *)
(* transaction, as transaction1 and transaction2 do: it begins, acquires   *)
(* locks and ends.  The manager's std::mutex is not recursive, and commit  *)
(* and rollback call releaseLocks, which locks it again, while they hold   *)
(* it: such a thread never returns and the mutex is never free again.      *)
(***************************************************************************)
EXTENDS LockManager

CONSTANT Free           \* the mutex is not held

ASSUME TwoPhaseLockingAssumption == Free \notin Txn

VARIABLES active_transactions,
          txn_locks,        \* transaction -> resources it has locked
          wait_for_graph,   \* transaction -> transactions
          mtx,              \* the thread that holds TransactionManager::mtx
          pc,               \* where each transaction's thread is
          resource          \* the resource_id of the acquireLock call under way

tmVars == <<active_transactions, txn_locks, wait_for_graph, mtx, pc, resource>>
vars == <<lockVars, tmVars>>

TypeOK ==
  /\ LockTypeOK
  /\ active_transactions \subseteq Txn
  /\ txn_locks \in [Txn -> SUBSET Resource]
  /\ wait_for_graph \in [Txn -> SUBSET Txn]
  /\ mtx \in Txn \cup {Free}
  /\ pc \in [Txn -> {"client", "record", "release", "hung", "ended"}]
  /\ resource \in [Txn -> Resource \cup {NoResource}]

Init ==
  /\ LockInit
  /\ active_transactions = {}
  /\ txn_locks = [t \in Txn |-> {}]
  /\ wait_for_graph = [t \in Txn |-> {}]
  /\ mtx = Free
  /\ pc = [t \in Txn |-> "client"]
  /\ resource = [t \in Txn |-> NoResource]

-----------------------------------------------------------------------------
beginTransaction(t) ==
  /\ pc[t] = "client" /\ t \notin active_transactions
  /\ mtx = Free
  /\ active_transactions' = active_transactions \cup {t}
  /\ UNCHANGED <<lockVars, txn_locks, wait_for_graph, mtx, pc, resource>>

\* acquireLock calls the lock manager before it takes its own mutex ...
CallLockManager(t, r, m) ==
  /\ pc[t] = "client" /\ t \in active_transactions
  /\ acquireLock(t, r, m)
  /\ pc' = [pc EXCEPT ![t] = "record"]
  /\ resource' = [resource EXCEPT ![t] = r]
  /\ UNCHANGED <<active_transactions, txn_locks, wait_for_graph, mtx>>

\* The edges acquireLock adds from t: to those waiting for what t has just got.
EdgesFrom(t, r) ==
  {u \in Txn \ {t} : \E i \in Positions(lock_table[r], u) : ~lock_table[r][i].granted}

\* The scan does not hold the lock manager's mutex: of a request that is being
\* appended meanwhile it may see the granted flag before it is set, which only a
\* shared request has set at once behind those of t.
Racing(t, r) ==
  {u \in Txn \ {t} :
     /\ pc[u] = "record" /\ resource[u] = r /\ waiting[u] = NoResource
     /\ \E i \in Positions(lock_table[r], u) :
          lock_table[r][i].lock_type = "SHARED" /\ \A j \in Positions(lock_table[r], t) : j < i}

RecordNothing(t) == txn_locks
RecordLock(t) == [txn_locks EXCEPT ![t] = @ \cup {resource[t]}]

\* ... and records the lock, and edges, once the lock manager has returned.
Record(t) ==
  /\ pc[t] = "record" /\ waiting[t] = NoResource
  /\ mtx = Free
  /\ txn_locks' = RecordLock(t)
  /\ \E seen \in SUBSET Racing(t, resource[t]) :
       wait_for_graph' = [wait_for_graph EXCEPT ![t] = @ \cup EdgesFrom(t, resource[t]) \cup seen]
  /\ pc' = [pc EXCEPT ![t] = "client"]
  /\ resource' = [resource EXCEPT ![t] = NoResource]
  /\ UNCHANGED <<lockVars, active_transactions, mtx>>

\* releaseLocks takes the mutex; without recorded locks it returns at once.
releaseLocks(t) ==
  /\ pc[t] = "client" /\ t \in active_transactions
  /\ mtx = Free
  /\ IF txn_locks[t] = {}
     THEN mtx' = mtx /\ pc' = [pc EXCEPT ![t] = "ended"]
     ELSE mtx' = t /\ pc' = [pc EXCEPT ![t] = "release"]
  /\ UNCHANGED <<lockVars, active_transactions, txn_locks, wait_for_graph, resource>>

EraseOutgoing(t) == [wait_for_graph EXCEPT ![t] = {}]
\* Remove the transaction from the graph, and from every entry of it.
EraseFromGraph(t) == [u \in Txn |-> IF u = t THEN {} ELSE wait_for_graph[u] \ {t}]

\* One turn of the loop of releaseLocks, over an unordered set; the last turn
\* returns and unlocks.
ReleaseOne(t, r) ==
  /\ pc[t] = "release" /\ r \in txn_locks[t]
  /\ releaseLock(t, r)
  /\ wait_for_graph' = EraseFromGraph(t)
  /\ txn_locks' = [txn_locks EXCEPT ![t] = @ \ {r}]
  /\ IF txn_locks[t] = {r}
     THEN mtx' = Free /\ pc' = [pc EXCEPT ![t] = "ended"]
     ELSE UNCHANGED <<mtx, pc>>
  /\ UNCHANGED <<active_transactions, resource>>

\* The second lock of a mutex the thread already holds.
LockTwice(t) ==
  /\ pc[t] = "client" /\ t \in active_transactions
  /\ mtx = Free
  /\ mtx' = t
  /\ pc' = [pc EXCEPT ![t] = "hung"]
  /\ UNCHANGED <<lockVars, active_transactions, txn_locks, wait_for_graph, resource>>

commitTransaction(t) == LockTwice(t)
rollbackTransaction(t) == LockTwice(t)

\* detectDeadlock: dfs finds a cycle, that is, a set of transactions each of
\* which has an edge into the set.
detectDeadlock ==
  \E C \in SUBSET Txn \ {{}} : \A t \in C : wait_for_graph[t] \cap C # {}

-----------------------------------------------------------------------------
\* What a thread inside a call does next, and how a client ends its transaction.
Continue(t) == wake(t) /\ UNCHANGED tmVars
EndTransaction(t) == releaseLocks(t) \/ commitTransaction(t) \/ rollbackTransaction(t)

Next ==
  \E t \in Txn :
    \/ beginTransaction(t)
    \/ \E r \in Resource, m \in LockType : CallLockManager(t, r, m)
    \/ Continue(t)
    \/ Record(t)
    \/ \E r \in Resource : ReleaseOne(t, r)
    \/ EndTransaction(t)

\* Every thread inside a call is scheduled, and every transaction ends.
Fairness ==
  \A t \in Txn :
    /\ WF_vars(Continue(t))
    /\ WF_vars(Record(t))
    /\ WF_vars(\E r \in Resource : ReleaseOne(t, r))
    /\ WF_vars(EndTransaction(t))

Spec == Init /\ [][Next]_vars /\ Fairness

-----------------------------------------------------------------------------
(* What the transaction manager promises. *)

Holders(r) == {t \in Txn : Granted(lock_table[r], t)}

\* Transactions that wait for each other's locks only, none of them granted the
\* one it waits for: none of them will ever return.
Deadlocked(D) ==
  \A t \in D : /\ waiting[t] # NoResource
               /\ Holders(waiting[t]) \subseteq D \ {t}

\* Nothing leaks between the two classes: the lock table has a request of t on r
\* exactly when txn_locks says so, except while t is inside the acquireLock call
\* for r, so that releaseLocks gives back everything.
LocksRecorded ==
  \A t \in Txn, r \in Resource :
    Positions(lock_table[r], t) # {} <=>
      r \in txn_locks[t] \/ (pc[t] = "record" /\ resource[t] = r)

\* No edge outlives the transaction it points to: t -> u means that u still has
\* a request on a resource t has locked.
EdgesAreLive ==
  \A t \in Txn : \A u \in wait_for_graph[t] :
    \E r \in txn_locks[t] : Positions(lock_table[r], u) # {}

\* A transaction asleep for a lock goes on, unless it is part of a deadlock or
\* some commit or rollback has locked the manager's mutex for ever.
BlockedOnlyByDeadlock ==
  \A t \in Txn :
    waiting[t] # NoResource ~>
      \/ waiting[t] = NoResource
      \/ \E D \in SUBSET Txn : t \in D /\ Deadlocked(D)
      \/ \E u \in Txn : pc[u] = "hung"

\* detectDeadlock ("Wait-For Graph: txn_id -> set of transactions it is waiting
\* for", two_phase_locking.cpp:112) finds every deadlock there is.
DeadlockReported == (\E D \in SUBSET Txn \ {{}} : Deadlocked(D)) => detectDeadlock

\* "Verifying that the locks were properly acquired and released"
\* (transactions/tests/transactions_tests.cpp:50): what is locked is unlocked.
LocksReleased == \A r \in Resource : lock_table[r] # <<>> ~> lock_table[r] = <<>>
=============================================================================
