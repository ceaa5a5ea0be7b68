---------------------------- MODULE LockManager ----------------------------
(***************************************************************************)
(* class LockManager of transactions/concurrency_control/                  *)
(* two_phase_locking.cpp: per resource a list of lock requests, granted or *)
(* waiting, in the order of their arrival.  A transaction is one thread;   *)
(* every critical section of the manager's mutex is one action.            *)
(***************************************************************************)
EXTENDS Lists

CONSTANTS Txn,          \* transaction ids
          Resource,     \* resource ids
          NoResource,   \* what a thread that is not blocked waits for
          Modes,        \* the lock types asked for on each resource
          MaxRequests   \* bound: requests of each transaction on each resource

LockType == {"SHARED", "EXCLUSIVE"}

ASSUME LockManagerAssumption ==
  /\ NoResource \notin Resource
  /\ Modes \in [Resource -> SUBSET LockType]

ASSUME BoundAssumption == MaxRequests \in [Txn -> [Resource -> Nat]]

LockRequest == [txn_id : Txn, lock_type : LockType, granted : BOOLEAN]

VARIABLES lock_table,   \* resource -> requests; <<>>: the map has no such entry
          waiting,      \* the resource on which a transaction sleeps in acquireLock
          notified      \* the sleepers whose condition variable was notified

lockVars == <<lock_table, waiting, notified>>

LockTypeOK ==
  /\ lock_table \in [Resource -> Seq(LockRequest)]
  /\ waiting \in [Txn -> Resource \cup {NoResource}]
  /\ notified \subseteq Txn

LockInit ==
  /\ lock_table = [r \in Resource |-> <<>>]
  /\ waiting = [t \in Txn |-> NoResource]
  /\ notified = {}

-----------------------------------------------------------------------------
(* Where a helper is preceded by variants of itself without a comment, these  *)
(* are slips it could be mistaken for, there to see that a property notices.  *)

Positions(reqs, t) == {i \in DOMAIN reqs : reqs[i].txn_id = t}

CompatibleWithGranted(reqs, t, m) ==
  \A i \in DOMAIN reqs :
    \/ reqs[i].txn_id = t \/ ~reqs[i].granted
    \/ reqs[i].lock_type = "SHARED" /\ m = "SHARED"
\* can_grant: compatible with every request of the others, the waiting ones
\* included; trivially so when the resource has no entry.
CanGrant(reqs, t, m) ==
  \A i \in DOMAIN reqs :
    \/ reqs[i].txn_id = t
    \/ reqs[i].lock_type = "SHARED" /\ m = "SHARED"

\* The predicate acquireLock sleeps on: some request of t is granted.
Granted(reqs, t) == \E i \in DOMAIN reqs : reqs[i].txn_id = t /\ reqs[i].granted

\* erase(remove_if): the requests of the other transactions, in their order.
Without(reqs, t) == Keep(reqs, {i \in DOMAIN reqs : reqs[i].txn_id # t})

NobodyWaiting(reqs) == {}
AllWaiting(reqs) == {i \in DOMAIN reqs : ~reqs[i].granted}
\* The request releaseLock grants next: the first waiting one, if there is one.
FirstWaiting(reqs) ==
  {i \in DOMAIN reqs : ~reqs[i].granted /\ \A j \in 1 .. i - 1 : reqs[j].granted}

Regrant(reqs, S) == [i \in DOMAIN reqs |-> [reqs[i] EXCEPT !.granted = @ \/ i \in S]]

NotifyNobody(reqs, S) == {}
\* notify_one on the condition variable of each request in S.
Notify(reqs, S) == {reqs[i].txn_id : i \in S}

\* acquireLock up to its return, or to its sleep in cv.wait.
acquireLock(t, r, m) ==
  LET reqs == Append(lock_table[r],
                     [txn_id |-> t, lock_type |-> m, granted |-> CanGrant(lock_table[r], t, m)])
  IN  /\ waiting[t] = NoResource
      /\ m \in Modes[r]
      /\ Cardinality(Positions(lock_table[r], t)) < MaxRequests[t][r]
      /\ lock_table' = [lock_table EXCEPT ![r] = reqs]
      /\ waiting' = [waiting EXCEPT ![t] = IF Granted(reqs, t) THEN NoResource ELSE r]
      /\ UNCHANGED notified

\* The sleeper was notified: it re-evaluates the predicate, and returns or
\* sleeps again.  (A spurious wake-up finds the predicate unchanged.)
wake(t) ==
  /\ t \in notified
  /\ notified' = notified \ {t}
  /\ waiting' = IF Granted(lock_table[waiting[t]], t)
                THEN [waiting EXCEPT ![t] = NoResource] ELSE waiting
  /\ UNCHANGED lock_table

\* releaseLock: drop the transaction's requests, grant the first waiting one
\* and notify its owner if it sleeps.
releaseLock(t, r) ==
  LET left == Without(lock_table[r], t)
      next == FirstWaiting(left)
  IN  /\ waiting[t] = NoResource
      /\ lock_table' = [lock_table EXCEPT ![r] = Regrant(left, next)]
      /\ notified' = notified \cup {u \in Notify(left, next) : waiting[u] = r}
      /\ UNCHANGED waiting

\* The calls of clients that release only what they have asked for.
LockNext ==
  \E t \in Txn :
    \/ wake(t)
    \/ \E r \in Resource : \/ Positions(lock_table[r], t) # {} /\ releaseLock(t, r)
                           \/ \E m \in LockType : acquireLock(t, r, m)

LockSpec == LockInit /\ [][LockNext]_lockVars

-----------------------------------------------------------------------------
(* What the lock table promises. *)

\* A resource with requests always has a granted one: a release never leaves
\* only sleepers behind, whom nobody would wake.
QueueHasHolder ==
  \A r \in Resource :
    lock_table[r] # <<>> => \E i \in DOMAIN lock_table[r] : lock_table[r][i].granted

\* No wake-up is lost: a sleeping transaction has a request on the resource it
\* waits for, and that request is granted exactly when the notification to its
\* condition variable has been sent.
GrantedIffNotified ==
  \A t \in Txn : waiting[t] # NoResource =>
    /\ Positions(lock_table[waiting[t]], t) # {}
    /\ t \in notified <=> Granted(lock_table[waiting[t]], t)

\* A resource that is only ever locked exclusively is locked by one transaction
\* at a time, although a release grants the next request unseen.
ExclusiveWhenOnlyExclusive ==
  \A r \in Resource : Modes[r] = {"EXCLUSIVE"} =>
    \A t, u \in Txn : Granted(lock_table[r], t) /\ Granted(lock_table[r], u) => t = u

\* Two-phase locking "for isolation" (docs/architecture.md:35): whoever has an
\* exclusive lock granted has the resource alone.
ExclusiveMeansAlone ==
  \A r \in Resource : \A i, j \in DOMAIN lock_table[r] :
    LET a == lock_table[r][i]
        b == lock_table[r][j]
    IN  a.granted /\ b.granted /\ a.lock_type = "EXCLUSIVE" => a.txn_id = b.txn_id

\* A transaction asleep for an exclusive lock is not overtaken: whoever is newly
\* granted the resource while it goes on waiting had asked before it.
WriterNotOvertaken ==
  [][\A t, u \in Txn : \A r \in Resource :
       LET ahead == {j \in Positions(lock_table[r], u) :
                       \E i \in Positions(lock_table[r], t) : j < i}
       IN  /\ waiting[t] = r /\ ~Granted(lock_table[r], t) /\ ~Granted(lock_table'[r], t)
           /\ \E i \in Positions(lock_table[r], t) : lock_table[r][i].lock_type = "EXCLUSIVE"
           /\ ~Granted(lock_table[r], u) /\ Granted(lock_table'[r], u)
           => ahead # {}]_lockVars
=============================================================================
