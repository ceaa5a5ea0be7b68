----------------------- MODULE TwoPhaseLockingProofs -----------------------
(***************************************************************************)
(* The transaction manager uses the lock manager as specified, so that the *)
(* lock manager's guarantees are its own, and its bookkeeping agrees with  *)
(* the lock table.                                                         *)
(***************************************************************************)
EXTENDS TwoPhaseLocking, LockManagerProofs

(* The bookkeeping of the transaction manager. *)

\* Who is inside an acquireLock call knows for which resource.
CallInv == \A t \in Txn : pc[t] = "record" => resource[t] \in Resource

TmInv == TypeOK /\ CallInv /\ LocksRecorded /\ EdgesAreLive

\* Initially nothing is locked and nothing recorded.
LEMMA TmInit == Init => TmInv
<1> SUFFICES ASSUME Init PROVE TmInv
  OBVIOUS
<1>1. LockTypeOK
  BY LockInitInv DEF Init, LockInv
<1>2. TypeOK
  BY <1>1 DEF Init, TypeOK
<1>3. CallInv
  BY DEF Init, CallInv
<1>4. LocksRecorded
  BY DEF Init, LockInit, LocksRecorded, Positions
<1>5. EdgesAreLive
  BY DEF Init, EdgesAreLive
<1> QED
  BY <1>2, <1>3, <1>4, <1>5 DEF TmInv

\* A call of the lock manager adds the request that the caller will record.
LEMMA CallStep ==
  ASSUME TmInv, LockTypeOK', NEW t \in Txn, NEW r \in Resource, NEW m \in LockType,
         CallLockManager(t, r, m)
  PROVE  TmInv'
<1>1. /\ pc[t] = "client" /\ acquireLock(t, r, m)
      /\ pc' = [pc EXCEPT ![t] = "record"]
      /\ resource' = [resource EXCEPT ![t] = r]
      /\ UNCHANGED <<active_transactions, txn_locks, wait_for_graph, mtx>>
  BY DEF CallLockManager
<1>2. TypeOK' /\ CallInv'
  BY <1>1 DEF TmInv, TypeOK, CallInv
<1>3. \A u \in Txn, s \in Resource :
        Positions(lock_table'[s], u) # {} <=> Positions(lock_table[s], u) # {} \/ (u = t /\ s = r)
  BY <1>1, AcquirePositions DEF TmInv, TypeOK
<1>4. LocksRecorded'
  BY <1>1, <1>3 DEF TmInv, TypeOK, LocksRecorded
<1>5. EdgesAreLive'
  <2> SUFFICES ASSUME NEW u \in Txn, NEW v \in wait_for_graph[u]
               PROVE  \E s \in txn_locks[u] : Positions(lock_table'[s], v) # {}
    BY <1>1 DEF EdgesAreLive
  <2>1. PICK s \in txn_locks[u] : Positions(lock_table[s], v) # {}
    BY DEF TmInv, EdgesAreLive
  <2>2. v \in Txn /\ s \in Resource
    BY DEF TmInv, TypeOK
  <2> QED
    BY <1>3, <2>1, <2>2
<1> QED
  BY <1>2, <1>4, <1>5 DEF TmInv

\* What acquireLock records is what the lock table has.
LEMMA RecordStep ==
  ASSUME TmInv, NEW t \in Txn, Record(t)
  PROVE  TmInv'
<1> DEFINE r == resource[t]
<1>0. PICK seen \in SUBSET Racing(t, r) :
        wait_for_graph' = [wait_for_graph EXCEPT ![t] = @ \cup EdgesFrom(t, r) \cup seen]
  BY DEF Record
<1> DEFINE G == EdgesFrom(t, r) \cup seen
<1>1. /\ pc[t] = "record" /\ mtx' = mtx /\ active_transactions' = active_transactions
      /\ lock_table' = lock_table /\ waiting' = waiting /\ notified' = notified
      /\ txn_locks' = [txn_locks EXCEPT ![t] = @ \cup {r}]
      /\ wait_for_graph' = [wait_for_graph EXCEPT ![t] = @ \cup G]
      /\ pc' = [pc EXCEPT ![t] = "client"]
      /\ resource' = [resource EXCEPT ![t] = NoResource]
  <2>1. wait_for_graph[t] \cup EdgesFrom(t, r) \cup seen = wait_for_graph[t] \cup G
    OBVIOUS
  <2> QED
    BY <1>0, <2>1 DEF Record, RecordLock, lockVars
<1>2. r \in Resource
  BY <1>1 DEF TmInv, CallInv
<1>3. G \in SUBSET Txn /\ \A u \in G : Positions(lock_table[r], u) # {}
  <2>1. \A u \in Racing(t, r) : u \in Txn /\ Positions(lock_table[r], u) # {}
    BY <1>2 DEF Racing, TmInv, LocksRecorded
  <2>2. \A u \in EdgesFrom(t, r) : u \in Txn /\ Positions(lock_table[r], u) # {}
    BY DEF EdgesFrom
  <2> QED
    BY <2>1, <2>2
<1> HIDE DEF r, G
<1>4. TypeOK'
  BY <1>1, <1>2, <1>3 DEF TmInv, TypeOK, LockTypeOK
<1>5. CallInv'
  BY <1>1 DEF TmInv, TypeOK, CallInv
<1>6. LocksRecorded'
  BY <1>1, <1>2 DEF TmInv, TypeOK, LocksRecorded, r
<1>7. EdgesAreLive'
  <2> SUFFICES ASSUME NEW u \in Txn, NEW v \in wait_for_graph'[u]
               PROVE  \E s \in txn_locks'[u] : Positions(lock_table[s], v) # {}
    BY <1>1 DEF EdgesAreLive
  <2>1. CASE v \in wait_for_graph[u]
    BY <1>1, <2>1 DEF TmInv, TypeOK, EdgesAreLive
  <2>2. CASE v \notin wait_for_graph[u]
    <3>1. u = t /\ v \in G /\ r \in txn_locks'[t]
      BY <1>1, <2>2 DEF TmInv, TypeOK
    <3> QED
      BY <1>3, <3>1
  <2> QED
    BY <2>1, <2>2
<1> QED
  BY <1>4, <1>5, <1>6, <1>7 DEF TmInv

\* Each turn of releaseLocks takes a resource out of both tables and the
\* transaction out of the graph.
LEMMA ReleaseOneStep ==
  ASSUME TmInv, LockTypeOK', NEW t \in Txn, NEW r \in Resource, ReleaseOne(t, r)
  PROVE  TmInv'
<1>1. /\ pc[t] = "release" /\ r \in txn_locks[t] /\ releaseLock(t, r)
      /\ wait_for_graph' = [u \in Txn |-> IF u = t THEN {} ELSE wait_for_graph[u] \ {t}]
      /\ txn_locks' = [txn_locks EXCEPT ![t] = @ \ {r}]
      /\ mtx' \in {mtx, Free}
      /\ pc' \in {pc, [pc EXCEPT ![t] = "ended"]}
      /\ resource' = resource /\ active_transactions' = active_transactions
  BY DEF ReleaseOne, EraseFromGraph
<1>2. /\ pc'[t] \in {"release", "ended"}
      /\ \A u \in Txn \ {t} : pc'[u] = pc[u]
      /\ pc' \in [Txn -> {"client", "record", "release", "hung", "ended"}]
  BY <1>1 DEF TmInv, TypeOK
<1>3. TypeOK' /\ CallInv'
  BY <1>1, <1>2 DEF TmInv, TypeOK, CallInv
<1>4. \A u \in Txn, s \in Resource :
        Positions(lock_table'[s], u) # {} <=> Positions(lock_table[s], u) # {} /\ ~(u = t /\ s = r)
  BY <1>1, ReleasePositions DEF TmInv, TypeOK
<1>5. LocksRecorded'
  <2> SUFFICES ASSUME NEW u \in Txn, NEW s \in Resource
               PROVE  Positions(lock_table'[s], u) # {} <=>
                        s \in txn_locks'[u] \/ (pc'[u] = "record" /\ resource'[u] = s)
    BY DEF LocksRecorded
  <2>1. Positions(lock_table[s], u) # {} <=>
          s \in txn_locks[u] \/ (pc[u] = "record" /\ resource[u] = s)
    BY DEF TmInv, LocksRecorded
  <2>2. CASE u = t
    BY <1>1, <1>2, <1>4, <2>1, <2>2 DEF TmInv, TypeOK
  <2>3. CASE u # t
    BY <1>1, <1>2, <1>4, <2>1, <2>3 DEF TmInv, TypeOK
  <2> QED
    BY <2>2, <2>3
<1>6. EdgesAreLive'
  <2> SUFFICES ASSUME NEW u \in Txn, NEW v \in wait_for_graph'[u]
               PROVE  \E s \in txn_locks'[u] : Positions(lock_table'[s], v) # {}
    BY DEF EdgesAreLive
  <2>1. u # t /\ v # t /\ v \in wait_for_graph[u]
    BY <1>1
  <2>2. PICK s \in txn_locks[u] : Positions(lock_table[s], v) # {}
    BY <2>1 DEF TmInv, EdgesAreLive
  <2>3. v \in Txn /\ s \in Resource /\ s \in txn_locks'[u]
    BY <1>1, <2>1 DEF TmInv, TypeOK
  <2> QED
    BY <1>4, <2>1, <2>2, <2>3, SMTT(30)
<1> QED
  BY <1>3, <1>5, <1>6 DEF TmInv

\* The steps that do not touch the locks: begin, a wake-up, and the start of
\* releaseLocks, commit and rollback.
LEMMA OtherStep ==
  ASSUME TmInv, LockTypeOK', NEW t \in Txn,
         beginTransaction(t) \/ Continue(t) \/ EndTransaction(t)
  PROVE  TmInv'
<1>1. /\ lock_table' = lock_table /\ txn_locks' = txn_locks
      /\ wait_for_graph' = wait_for_graph /\ resource' = resource
  BY DEF beginTransaction, Continue, wake, EndTransaction, releaseLocks, commitTransaction,
         rollbackTransaction, LockTwice, lockVars, tmVars
<1>2. /\ mtx' \in {mtx, t}
      /\ active_transactions' \in {active_transactions, active_transactions \cup {t}}
      /\ \/ pc' = pc
         \/ pc[t] = "client" /\ pc' \in {[pc EXCEPT ![t] = s] : s \in {"ended", "release", "hung"}}
  <2>1. CASE beginTransaction(t) \/ Continue(t)
    BY <2>1 DEF beginTransaction, Continue, tmVars
  <2>2. CASE releaseLocks(t)
    BY <2>2 DEF releaseLocks
  <2>3. CASE LockTwice(t)
    BY <2>3 DEF LockTwice
  <2> QED
    BY <2>1, <2>2, <2>3 DEF EndTransaction, commitTransaction, rollbackTransaction
<1>3. /\ pc' \in [Txn -> {"client", "record", "release", "hung", "ended"}]
      /\ \A u \in Txn : pc'[u] = "record" <=> pc[u] = "record"
  BY <1>2 DEF TmInv, TypeOK
<1>4. TypeOK'
  BY <1>1, <1>2, <1>3 DEF TmInv, TypeOK
<1> QED
  BY <1>1, <1>3, <1>4, SMTT(30) DEF TmInv, CallInv, LocksRecorded, EdgesAreLive

\* The transaction manager drives the lock manager only through its operations,
\* and releases only what it has recorded, which it has asked for.
LEMMA LockStep == TmInv /\ [Next]_vars => [LockNext]_lockVars
<1> SUFFICES ASSUME TmInv, [Next]_vars PROVE [LockNext]_lockVars
  OBVIOUS
<1>1. ASSUME NEW t \in Txn, NEW r \in Resource, NEW m \in LockType, CallLockManager(t, r, m)
      PROVE  LockNext
  BY <1>1 DEF CallLockManager, LockNext
<1>2. ASSUME NEW t \in Txn, Continue(t) PROVE LockNext
  BY <1>2 DEF Continue, LockNext
<1>3. ASSUME NEW t \in Txn, NEW r \in Resource, ReleaseOne(t, r) PROVE LockNext
  <2>1. r \in txn_locks[t] /\ releaseLock(t, r)
    BY <1>3 DEF ReleaseOne
  <2>2. Positions(lock_table[r], t) # {}
    BY <2>1 DEF TmInv, LocksRecorded
  <2> QED
    BY <2>1, <2>2 DEF LockNext
<1>4. ASSUME NEW t \in Txn, beginTransaction(t) \/ Record(t) \/ EndTransaction(t)
      PROVE  UNCHANGED lockVars
  BY <1>4 DEF beginTransaction, Record, EndTransaction, releaseLocks, commitTransaction,
              rollbackTransaction, LockTwice
<1>5. CASE UNCHANGED vars
  BY <1>5 DEF vars
<1> QED
  BY <1>1, <1>2, <1>3, <1>4, <1>5 DEF Next

\* The inductive invariant of both classes together.
THEOREM TmInvariance == Spec => [](TmInv /\ LockInv)
<1>1. TmInv /\ LockInv' /\ [Next]_vars => TmInv'
  <2> SUFFICES ASSUME TmInv, LockTypeOK', [Next]_vars PROVE TmInv'
    BY DEF LockInv
  <2>1. CASE UNCHANGED vars
    <3>1. /\ lock_table' = lock_table /\ waiting' = waiting /\ notified' = notified
          /\ active_transactions' = active_transactions /\ txn_locks' = txn_locks
          /\ wait_for_graph' = wait_for_graph /\ mtx' = mtx /\ pc' = pc /\ resource' = resource
      BY <2>1 DEF vars, tmVars, lockVars
    <3>2. TypeOK' /\ CallInv'
      BY <3>1 DEF TmInv, TypeOK, LockTypeOK, CallInv
    <3>3. LocksRecorded'
      BY <3>1 DEF TmInv, LocksRecorded
    <3>4. EdgesAreLive'
      BY <3>1 DEF TmInv, EdgesAreLive
    <3> QED
      BY <3>2, <3>3, <3>4 DEF TmInv
  <2>2. CASE Next
    <3>1. PICK t \in Txn :
            \/ beginTransaction(t) \/ Continue(t) \/ EndTransaction(t)
            \/ \E r \in Resource, m \in LockType : CallLockManager(t, r, m)
            \/ Record(t)
            \/ \E r \in Resource : ReleaseOne(t, r)
      BY <2>2 DEF Next
    <3>2. CASE beginTransaction(t) \/ Continue(t) \/ EndTransaction(t)
      BY <3>2, OtherStep
    <3>3. CASE \E r \in Resource, m \in LockType : CallLockManager(t, r, m)
      BY <3>3, CallStep
    <3>4. CASE Record(t)
      BY <3>4, RecordStep
    <3>5. CASE \E r \in Resource : ReleaseOne(t, r)
      BY <3>5, ReleaseOneStep
    <3> QED
      BY <3>1, <3>2, <3>3, <3>4, <3>5
  <2> QED
    BY <2>1, <2>2
<1>2. LockInv /\ TmInv /\ [Next]_vars => LockInv'
  BY LockStep, LockNextInv
<1>3. Init => LockInv
  BY LockInitInv DEF Init
<1> QED
  BY <1>1, <1>2, <1>3, TmInit, PTL DEF Spec

\* Every step of TwoPhaseLocking is a step of LockManager or leaves it alone.
THEOREM ImplementsLockManager == Spec => LockSpec
<1>1. Init => LockInit
  BY DEF Init
<1> QED
  BY <1>1, LockStep, TmInvariance, PTL DEF Spec, LockSpec

\* A release never leaves only sleepers behind on a resource.
THEOREM HolderAlways == Spec => []QueueHasHolder
<1>1. LockInv => QueueHasHolder
  BY DEF LockInv
<1> QED
  BY <1>1, TmInvariance, PTL

\* The notification of a granted request is never lost, and none is sent early.
THEOREM GrantsNotified == Spec => []GrantedIffNotified
<1>1. LockInv => GrantedIffNotified
  BY DEF LockInv
<1> QED
  BY <1>1, TmInvariance, PTL

\* Where only exclusive locks are asked for, the lock manager excludes.
THEOREM MutualExclusion == Spec => []ExclusiveWhenOnlyExclusive
<1>1. LockInv => ExclusiveWhenOnlyExclusive
  BY DEF LockInv
<1> QED
  BY <1>1, TmInvariance, PTL

\* A sleeper for an exclusive lock is served before those who came after it.
THEOREM WritersInOrder == Spec => WriterNotOvertaken
  BY ImplementsLockManager, WriterOrder, PTL

\* The state of both classes keeps its type.
THEOREM TypeCorrect == Spec => []TypeOK
<1>1. TmInv => TypeOK
  BY DEF TmInv
<1> QED
  BY <1>1, TmInvariance, PTL

\* txn_locks and the lock table agree, so that nothing stays locked behind
\* releaseLocks.
THEOREM NothingLeaks == Spec => []LocksRecorded
<1>1. TmInv => LocksRecorded
  BY DEF TmInv
<1> QED
  BY <1>1, TmInvariance, PTL

\* No edge of the graph outlives the transaction it points to.
THEOREM NoStaleEdge == Spec => []EdgesAreLive
<1>1. TmInv => EdgesAreLive
  BY DEF TmInv
<1> QED
  BY <1>1, TmInvariance, PTL
=============================================================================
