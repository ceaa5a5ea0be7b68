------------------------- MODULE LockManagerProofs -------------------------
(***************************************************************************)
(* The lock table's safety for any transactions, resources and lock types, *)
(* whatever the clients of the lock manager do.                            *)
(***************************************************************************)
EXTENDS LockManager, ListProofs

-----------------------------------------------------------------------------
(* The operators on a resource's list of requests. *)

\* remove_if keeps exactly the requests of the other transactions.
LEMMA WithoutProperties ==
  ASSUME NEW reqs \in Seq(LockRequest), NEW t
  PROVE  /\ Without(reqs, t) \in Seq(LockRequest)
         /\ \A k \in DOMAIN Without(reqs, t) :
              \E i \in DOMAIN reqs : reqs[i].txn_id # t /\ Without(reqs, t)[k] = reqs[i]
         /\ \A i \in DOMAIN reqs : reqs[i].txn_id # t =>
              \E k \in DOMAIN Without(reqs, t) : Without(reqs, t)[k] = reqs[i]
<1> DEFINE kept == {i \in DOMAIN reqs : reqs[i].txn_id # t}
           W == Without(reqs, t)
<1>1. kept \in SUBSET DOMAIN reqs /\ W = Keep(reqs, kept)
  BY DEF Without
<1> HIDE DEF W, kept
<1>2. W \in Seq(LockRequest)
  BY <1>1, KeepProperties
<1>3. PICK at \in [DOMAIN W -> kept] :
        /\ \A k \in DOMAIN W : W[k] = reqs[at[k]]
        /\ \A i \in kept : \E k \in DOMAIN W : at[k] = i
        /\ \A k, l \in DOMAIN W : k < l => at[k] < at[l]
  BY <1>1, KeepProperties
<1> USE DEF kept
<1>4. \A k \in DOMAIN W : at[k] \in DOMAIN reqs /\ reqs[at[k]].txn_id # t /\ W[k] = reqs[at[k]]
  BY <1>3
<1>5. \A i \in DOMAIN reqs : reqs[i].txn_id # t => \E k \in DOMAIN W : at[k] = i /\ W[k] = reqs[i]
  BY <1>3
<1> QED
  BY <1>2, <1>4, <1>5 DEF W

\* remove_if keeps the order.
LEMMA WithoutOrder ==
  ASSUME NEW reqs \in Seq(LockRequest), NEW t
  PROVE  \A k, l \in DOMAIN Without(reqs, t) : k < l =>
           \E i, j \in DOMAIN reqs :
             i < j /\ Without(reqs, t)[k] = reqs[i] /\ Without(reqs, t)[l] = reqs[j]
<1> DEFINE kept == {i \in DOMAIN reqs : reqs[i].txn_id # t}
           W == Keep(reqs, kept)
<1>1. kept \in SUBSET DOMAIN reqs /\ Without(reqs, t) = W
  BY DEF Without
<1> HIDE DEF kept
<1>2. PICK at \in [DOMAIN W -> kept] :
        /\ \A k \in DOMAIN W : W[k] = reqs[at[k]]
        /\ \A i \in kept : \E k \in DOMAIN W : at[k] = i
        /\ \A k, l \in DOMAIN W : k < l => at[k] < at[l]
  BY <1>1, KeepProperties, SMTT(30)
<1> HIDE DEF W
<1> QED
  BY <1>1, <1>2

\* What a transaction sees of the list after remove_if.
LEMMA WithoutGranted ==
  ASSUME NEW reqs \in Seq(LockRequest), NEW t, NEW u
  PROVE  /\ Granted(Without(reqs, t), u) <=> u # t /\ Granted(reqs, u)
         /\ Positions(Without(reqs, t), u) # {} <=> u # t /\ Positions(reqs, u) # {}
<1> DEFINE W == Without(reqs, t)
<1>1. /\ \A k \in DOMAIN W : \E i \in DOMAIN reqs : reqs[i].txn_id # t /\ W[k] = reqs[i]
      /\ \A i \in DOMAIN reqs : reqs[i].txn_id # t => \E k \in DOMAIN W : W[k] = reqs[i]
  BY WithoutProperties
<1> HIDE DEF W
<1>2. Granted(W, u) => u # t /\ Granted(reqs, u)
  BY <1>1 DEF Granted
<1>3. u # t /\ Granted(reqs, u) => Granted(W, u)
  BY <1>1 DEF Granted
<1>4. Positions(W, u) # {} => u # t /\ Positions(reqs, u) # {}
  BY <1>1 DEF Positions
<1>5. u # t /\ Positions(reqs, u) # {} => Positions(W, u) # {}
  BY <1>1 DEF Positions
<1> QED
  BY <1>2, <1>3, <1>4, <1>5 DEF W

\* Granting the requests at S gives the lock to their owners, besides those
\* who had it, and changes nothing else.
LEMMA RegrantProperties ==
  ASSUME NEW reqs \in Seq(LockRequest), NEW S \in SUBSET DOMAIN reqs, NEW u
  PROVE  /\ Regrant(reqs, S) \in Seq(LockRequest)
         /\ DOMAIN Regrant(reqs, S) = DOMAIN reqs
         /\ \A i \in DOMAIN reqs : /\ Regrant(reqs, S)[i].txn_id = reqs[i].txn_id
                                   /\ Regrant(reqs, S)[i].lock_type = reqs[i].lock_type
                                   /\ Regrant(reqs, S)[i].granted <=> reqs[i].granted \/ i \in S
         /\ Granted(Regrant(reqs, S), u) <=> Granted(reqs, u) \/ u \in Notify(reqs, S)
         /\ Positions(Regrant(reqs, S), u) = Positions(reqs, u)
<1> DEFINE R == Regrant(reqs, S)
<1>1. Len(reqs) \in Nat /\ DOMAIN reqs = 1 .. Len(reqs) /\ DOMAIN R = 1 .. Len(reqs)
  BY LenProperties DEF Regrant
<1>2. ASSUME NEW i \in 1 .. Len(reqs)
      PROVE  /\ R[i] \in LockRequest
             /\ R[i].txn_id = reqs[i].txn_id
             /\ R[i].lock_type = reqs[i].lock_type
             /\ R[i].granted <=> reqs[i].granted \/ i \in S
  <2>1. reqs[i] \in LockRequest
    BY <1>1, ElementOfSeq
  <2>2. R[i] = [reqs[i] EXCEPT !.granted = reqs[i].granted \/ i \in S]
    BY <1>1 DEF Regrant
  <2>3. (reqs[i].granted \/ i \in S) \in BOOLEAN
    OBVIOUS
  <2> QED
    BY <2>1, <2>2, <2>3 DEF LockRequest
<1>3. R \in Seq(LockRequest)
  <2>1. R = [i \in 1 .. Len(reqs) |-> R[i]]
    BY <1>1 DEF Regrant
  <2> HIDE DEF R
  <2> QED
    BY <1>1, <1>2, <2>1
<1> HIDE DEF R
<1>4. Granted(R, u) <=> Granted(reqs, u) \/ u \in Notify(reqs, S)
  BY <1>1, <1>2 DEF Granted, Notify
<1>5. Positions(R, u) = Positions(reqs, u)
  BY <1>1, <1>2 DEF Positions
<1> QED
  BY <1>1, <1>2, <1>3, <1>4, <1>5 DEF R

\* What a transaction sees of the list after a request was appended.
LEMMA AppendGranted ==
  ASSUME NEW reqs \in Seq(LockRequest), NEW q \in LockRequest, NEW u
  PROVE  /\ Append(reqs, q) \in Seq(LockRequest)
         /\ Granted(Append(reqs, q), u) <=> Granted(reqs, u) \/ (q.txn_id = u /\ q.granted)
         /\ Positions(Append(reqs, q), u) # {} <=> Positions(reqs, u) # {} \/ q.txn_id = u
<1> DEFINE A == Append(reqs, q)
<1>1. /\ A \in Seq(LockRequest)
      /\ Len(reqs) \in Nat
      /\ DOMAIN reqs = 1 .. Len(reqs)
      /\ DOMAIN A = 1 .. Len(reqs) + 1
      /\ \A i \in 1 .. Len(reqs) : A[i] = reqs[i]
      /\ A[Len(reqs) + 1] = q
  BY AppendProperties, LenProperties
<1>2. DOMAIN A = DOMAIN reqs \cup {Len(reqs) + 1}
  BY <1>1
<1> HIDE DEF A
<1>3. Granted(A, u) <=> Granted(reqs, u) \/ (q.txn_id = u /\ q.granted)
  BY <1>1, <1>2 DEF Granted
<1>4. Positions(A, u) # {} <=> Positions(reqs, u) # {} \/ q.txn_id = u
  BY <1>1, <1>2 DEF Positions
<1> QED
  BY <1>1, <1>3, <1>4 DEF A

-----------------------------------------------------------------------------
(* The inductive invariant. *)

\* A transaction is notified only in its sleep; one that is awake, or asleep
\* elsewhere, has a granted request wherever it has any; and the list of an
\* exclusively locked resource holds exclusive requests.
AwakeInv ==
  /\ \A t \in notified : waiting[t] # NoResource
  /\ \A t \in Txn, r \in Resource :
       Positions(lock_table[r], t) # {} /\ waiting[t] # r => Granted(lock_table[r], t)
  /\ \A r \in Resource : Modes[r] = {"EXCLUSIVE"} =>
       \A i \in DOMAIN lock_table[r] : lock_table[r][i].lock_type = "EXCLUSIVE"

LockInv ==
  /\ LockTypeOK
  /\ QueueHasHolder
  /\ GrantedIffNotified
  /\ ExclusiveWhenOnlyExclusive
  /\ AwakeInv

USE LockManagerAssumption

\* Without requests there is nothing to go wrong.
LEMMA LockInitInv == LockInit => LockInv
<1> SUFFICES ASSUME LockInit PROVE LockInv
  OBVIOUS
<1>1. \A r \in Resource : lock_table[r] = <<>> /\ DOMAIN lock_table[r] = {}
  BY DEF LockInit
<1>2. LockTypeOK
  BY DEF LockInit, LockTypeOK
<1>3. QueueHasHolder /\ ExclusiveWhenOnlyExclusive
  BY <1>1 DEF QueueHasHolder, ExclusiveWhenOnlyExclusive, Granted
<1>4. GrantedIffNotified /\ AwakeInv
  BY <1>1 DEF LockInit, GrantedIffNotified, AwakeInv, Positions
<1> QED
  BY <1>2, <1>3, <1>4 DEF LockInv

\* acquireLock appends one request and decides on its own thread's sleep.
LEMMA AcquireStep ==
  ASSUME LockInv, NEW t \in Txn, NEW r \in Resource, NEW m \in LockType, acquireLock(t, r, m)
  PROVE  LockInv'
<1> DEFINE old == lock_table[r]
           q == [txn_id |-> t, lock_type |-> m, granted |-> CanGrant(old, t, m)]
           new == Append(old, q)
<1>1. old \in Seq(LockRequest)
  BY DEF LockInv, LockTypeOK
<1>2. q \in LockRequest
  BY DEF LockRequest, CanGrant
<1>3. /\ new \in Seq(LockRequest)
      /\ \A u : Granted(new, u) <=> Granted(old, u) \/ (u = t /\ CanGrant(old, t, m))
      /\ \A u : Positions(new, u) # {} <=> Positions(old, u) # {} \/ u = t
  BY <1>1, <1>2, AppendGranted
<1>4. /\ Len(old) \in Nat /\ DOMAIN old = 1 .. Len(old)
      /\ DOMAIN new = 1 .. Len(old) + 1
      /\ \A i \in 1 .. Len(old) : new[i] = old[i]
      /\ new[Len(old) + 1] = q
  BY <1>1, <1>2, AppendProperties, LenProperties
<1>5. /\ waiting[t] = NoResource /\ m \in Modes[r] /\ notified' = notified
      /\ lock_table' = [lock_table EXCEPT ![r] = new]
      /\ waiting' = [waiting EXCEPT ![t] = IF Granted(new, t) THEN NoResource ELSE r]
  BY DEF acquireLock
<1> HIDE DEF new
<1>6. LockTypeOK'
  BY <1>3, <1>5 DEF LockInv, LockTypeOK
<1>7. /\ lock_table'[r] = new
      /\ \A s \in Resource \ {r} : lock_table'[s] = lock_table[s]
      /\ waiting'[t] = IF Granted(new, t) THEN NoResource ELSE r
      /\ \A u \in Txn \ {t} : waiting'[u] = waiting[u]
  BY <1>5 DEF LockInv, LockTypeOK
<1>8. QueueHasHolder'
  <2>1. \E i \in DOMAIN new : new[i].granted
    <3>1. CASE old = <<>>
      <4>1. CanGrant(old, t, m)
        BY <3>1 DEF CanGrant
      <4>2. new[Len(old) + 1].granted /\ Len(old) + 1 \in DOMAIN new
        BY <1>4, <4>1
      <4> QED
        BY <4>2
    <3>2. CASE old # <<>>
      <4>1. PICK i \in DOMAIN old : old[i].granted
        BY <3>2 DEF LockInv, QueueHasHolder
      <4>2. i \in DOMAIN new /\ new[i] = old[i]
        BY <1>4
      <4> QED
        BY <4>1, <4>2
    <3> QED
      BY <3>1, <3>2
  <2> QED
    BY <1>7, <2>1 DEF LockInv, QueueHasHolder
<1>9. GrantedIffNotified'
  <2> SUFFICES ASSUME NEW u \in Txn, waiting'[u] # NoResource
               PROVE  /\ Positions(lock_table'[waiting'[u]], u) # {}
                      /\ u \in notified' <=> Granted(lock_table'[waiting'[u]], u)
    BY DEF GrantedIffNotified
  <2>1. CASE u = t
    <3>1. waiting'[t] = r /\ ~Granted(new, t)
      BY <1>7, <2>1
    <3>2. t \notin notified
      BY <1>5 DEF LockInv, AwakeInv
    <3> QED
      BY <1>3, <1>5, <1>7, <2>1, <3>1, <3>2
  <2>2. CASE u # t
    <3>1. waiting'[u] = waiting[u] /\ waiting[u] \in Resource
      BY <1>7, <2>2 DEF LockInv, LockTypeOK
    <3>2. /\ Positions(lock_table[waiting[u]], u) # {}
          /\ u \in notified <=> Granted(lock_table[waiting[u]], u)
      BY <3>1 DEF LockInv, GrantedIffNotified
    <3>3. CASE waiting[u] = r
      <4>1. lock_table'[waiting'[u]] = new /\ lock_table[waiting[u]] = old
        BY <1>7, <3>1, <3>3
      <4>2. Granted(new, u) <=> Granted(old, u)
        BY <1>3, <2>2
      <4>3. Positions(new, u) # {} <=> Positions(old, u) # {}
        BY <1>3, <2>2
      <4>4. u \in notified' <=> u \in notified
        BY <1>5
      <4>5. Positions(old, u) # {} /\ (u \in notified <=> Granted(old, u))
        BY <3>2, <4>1
      <4>6. Positions(new, u) # {} /\ (u \in notified' <=> Granted(new, u))
        BY <4>2, <4>3, <4>4, <4>5
      <4> QED
        BY <4>1, <4>6
    <3>4. CASE waiting[u] # r
      BY <1>5, <1>7, <3>1, <3>2, <3>4
    <3> QED
      BY <3>3, <3>4
  <2> QED
    BY <2>1, <2>2
<1>10. ExclusiveWhenOnlyExclusive'
  <2> SUFFICES ASSUME Modes[r] = {"EXCLUSIVE"},
                      NEW u \in Txn, NEW v \in Txn, Granted(new, u), Granted(new, v)
               PROVE  u = v
    BY <1>7 DEF LockInv, ExclusiveWhenOnlyExclusive
  <2>1. CASE ~CanGrant(old, t, m)
    BY <1>3, <2>1 DEF LockInv, ExclusiveWhenOnlyExclusive
  <2>2. CASE CanGrant(old, t, m)
    <3>1. m = "EXCLUSIVE"
      BY <1>5
    <3>2. \A w \in Txn : Granted(old, w) => w = t
      BY <2>2, <3>1 DEF CanGrant, Granted
    <3> QED
      BY <1>3, <3>2
  <2> QED
    BY <2>1, <2>2
<1>11. AwakeInv'
  <2>1. \A u \in notified' : waiting'[u] # NoResource
    BY <1>5, <1>7 DEF LockInv, AwakeInv, LockTypeOK
  <2>2. ASSUME NEW u \in Txn, NEW s \in Resource,
               Positions(lock_table'[s], u) # {}, waiting'[u] # s
        PROVE  Granted(lock_table'[s], u)
    <3>1. CASE s # r
      BY <1>5, <1>7, <2>2, <3>1 DEF LockInv, AwakeInv
    <3>2. CASE s = r /\ u = t
      BY <1>7, <2>2, <3>2
    <3>3. CASE s = r /\ u # t
      BY <1>3, <1>7, <2>2, <3>3 DEF LockInv, AwakeInv
    <3> QED
      BY <3>1, <3>2, <3>3
  <2>3. ASSUME NEW s \in Resource, Modes[s] = {"EXCLUSIVE"}, NEW i \in DOMAIN lock_table'[s]
        PROVE  lock_table'[s][i].lock_type = "EXCLUSIVE"
    <3>1. CASE s # r
      BY <1>7, <2>3, <3>1 DEF LockInv, AwakeInv
    <3>2. CASE s = r /\ i = Len(old) + 1
      BY <1>4, <1>5, <1>7, <2>3, <3>2, SMTT(30)
    <3>3. CASE s = r /\ i \in 1 .. Len(old)
      BY <1>4, <1>7, <2>3, <3>3 DEF LockInv, AwakeInv
    <3> QED
      BY <1>4, <1>7, <2>3, <3>1, <3>2, <3>3, SMTT(30)
  <2> QED
    BY <2>1, <2>2, <2>3 DEF AwakeInv
<1> QED
  BY <1>6, <1>8, <1>9, <1>10, <1>11 DEF LockInv

\* A notified sleeper finds its request granted and returns.
LEMMA WakeStep ==
  ASSUME LockInv, NEW t \in Txn, wake(t)
  PROVE  LockInv'
<1>1. waiting[t] \in Resource /\ Granted(lock_table[waiting[t]], t)
  BY DEF wake, LockInv, AwakeInv, GrantedIffNotified, LockTypeOK
<1>2. /\ notified' = notified \ {t} /\ lock_table' = lock_table
      /\ waiting' = [waiting EXCEPT ![t] = NoResource]
  BY <1>1 DEF wake
<1>3. waiting'[t] = NoResource /\ \A u \in Txn \ {t} : waiting'[u] = waiting[u]
  BY <1>2 DEF LockInv, LockTypeOK
<1>4. LockTypeOK'
  BY <1>2 DEF LockInv, LockTypeOK
<1>5. QueueHasHolder' /\ ExclusiveWhenOnlyExclusive'
  BY <1>2 DEF LockInv, QueueHasHolder, ExclusiveWhenOnlyExclusive
<1>6. GrantedIffNotified'
  BY <1>2, <1>3 DEF LockInv, GrantedIffNotified
<1>7. AwakeInv'
  <2>1. \A u \in notified' : waiting'[u] # NoResource
    BY <1>2, <1>3 DEF LockInv, AwakeInv, LockTypeOK
  <2>2. ASSUME NEW u \in Txn, NEW s \in Resource,
               Positions(lock_table[s], u) # {}, waiting'[u] # s
        PROVE  Granted(lock_table[s], u)
    <3>1. CASE u = t /\ s = waiting[t]
      BY <1>1, <3>1
    <3>2. CASE u = t /\ s # waiting[t]
      BY <2>2, <3>2 DEF LockInv, AwakeInv
    <3>3. CASE u # t
      BY <1>3, <2>2, <3>3 DEF LockInv, AwakeInv
    <3> QED
      BY <3>1, <3>2, <3>3
  <2> QED
    BY <1>2, <2>1, <2>2 DEF LockInv, AwakeInv
<1> QED
  BY <1>4, <1>5, <1>6, <1>7 DEF LockInv

\* At most one request is the first waiting one, and there is one if any waits.
LEMMA FirstWaitingProperties ==
  ASSUME NEW reqs \in Seq(LockRequest)
  PROVE  /\ FirstWaiting(reqs) \in SUBSET DOMAIN reqs
         /\ \A i, j \in FirstWaiting(reqs) : i = j
         /\ (\E i \in DOMAIN reqs : ~reqs[i].granted) => FirstWaiting(reqs) # {}
<1> DEFINE K == {i \in DOMAIN reqs : ~reqs[i].granted}
<1>1. Len(reqs) \in Nat /\ DOMAIN reqs = 1 .. Len(reqs)
  BY LenProperties
<1>2. ASSUME NEW i \in FirstWaiting(reqs), NEW j \in FirstWaiting(reqs) PROVE i = j
  <2>1. ~(i < j) /\ ~(j < i)
    BY <1>1 DEF FirstWaiting
  <2> QED
    BY <1>1, <2>1 DEF FirstWaiting
<1>3. ASSUME K # {} PROVE FirstWaiting(reqs) # {}
  <2>1. K \in SUBSET (1 .. Len(reqs))
    BY <1>1
  <2> HIDE DEF K
  <2>2. PICK i \in K : \A j \in K : i <= j
    BY <1>1, <1>3, <2>1, FirstExists
  <2>3. \A j \in 1 .. i - 1 : j \in DOMAIN reqs /\ j \notin K
    BY <1>1, <2>1, <2>2
  <2> QED
    BY <2>2, <2>3 DEF K, FirstWaiting
<1> QED
  BY <1>2, <1>3 DEF FirstWaiting

\* releaseLock removes the requests of a transaction that has the lock and
\* passes the lock on.
LEMMA ReleaseStep ==
  ASSUME LockInv, NEW t \in Txn, NEW r \in Resource, Positions(lock_table[r], t) # {},
         releaseLock(t, r)
  PROVE  LockInv'
<1> DEFINE old == lock_table[r]
           left == Without(old, t)
           next == FirstWaiting(left)
           new == Regrant(left, next)
<1>1. old \in Seq(LockRequest)
  BY DEF LockInv, LockTypeOK
<1>2. /\ left \in Seq(LockRequest)
      /\ \A k \in DOMAIN left : \E i \in DOMAIN old : left[k] = old[i]
  BY <1>1, WithoutProperties
<1>3. \A u : /\ Granted(left, u) <=> u # t /\ Granted(old, u)
             /\ Positions(left, u) # {} <=> u # t /\ Positions(old, u) # {}
  BY <1>1, WithoutGranted
<1>4. waiting[t] = NoResource /\ Positions(old, t) # {} /\ Granted(old, t)
  BY DEF releaseLock, LockInv, AwakeInv
<1>5. /\ lock_table' = [lock_table EXCEPT ![r] = new] /\ waiting' = waiting
      /\ notified' = notified \cup {u \in Notify(left, next) : waiting[u] = r}
  BY DEF releaseLock
<1> HIDE DEF left
<1>6. /\ next \in SUBSET DOMAIN left
      /\ \A i, j \in next : i = j
      /\ (\E i \in DOMAIN left : ~left[i].granted) => next # {}
  BY <1>2, FirstWaitingProperties
<1> HIDE DEF next
<1>7. /\ new \in Seq(LockRequest)
      /\ DOMAIN new = DOMAIN left
      /\ \A i \in DOMAIN left : /\ new[i].lock_type = left[i].lock_type
                                /\ new[i].granted <=> left[i].granted \/ i \in next
      /\ \A u : Granted(new, u) <=> Granted(left, u) \/ u \in Notify(left, next)
      /\ \A u : Positions(new, u) = Positions(left, u)
  BY <1>2, <1>6, RegrantProperties
<1> HIDE DEF new
<1>8. lock_table'[r] = new /\ \A s \in Resource \ {r} : lock_table'[s] = lock_table[s]
  BY <1>5 DEF LockInv, LockTypeOK
<1>9. Notify(left, next) \subseteq Txn
  <2>1. \A i \in DOMAIN left : left[i] \in LockRequest
    BY <1>2, ElementOfSeq, LenProperties
  <2>2. \A i \in DOMAIN left : left[i].txn_id \in Txn
    BY <2>1 DEF LockRequest
  <2> QED
    BY <1>6, <2>2 DEF Notify
<1>10. LockTypeOK'
  BY <1>5, <1>7, <1>9 DEF LockInv, LockTypeOK
<1>11. QueueHasHolder'
  <2>1. ASSUME new # <<>> PROVE \E i \in DOMAIN new : new[i].granted
    <3>1. PICK k \in DOMAIN new : TRUE
      BY <1>7, <2>1, EmptySeq, LenProperties
    <3>2. CASE next # {}
      BY <1>6, <1>7, <3>2
    <3>3. CASE next = {}
      BY <1>6, <1>7, <3>1, <3>3
    <3> QED
      BY <3>2, <3>3
  <2> QED
    BY <1>8, <2>1 DEF LockInv, QueueHasHolder
<1>12. GrantedIffNotified'
  <2> SUFFICES ASSUME NEW u \in Txn, waiting[u] # NoResource
               PROVE  /\ Positions(lock_table'[waiting[u]], u) # {}
                      /\ u \in notified' <=> Granted(lock_table'[waiting[u]], u)
    BY <1>5 DEF GrantedIffNotified
  <2>1. u # t /\ waiting[u] \in Resource
    BY <1>4 DEF LockInv, LockTypeOK
  <2>2. /\ Positions(lock_table[waiting[u]], u) # {}
        /\ u \in notified <=> Granted(lock_table[waiting[u]], u)
    BY DEF LockInv, GrantedIffNotified
  <2>3. CASE waiting[u] = r
    <3>1. u \in notified' <=> Granted(new, u)
      BY <1>3, <1>5, <1>7, <2>1, <2>2, <2>3, SMTT(30)
    <3>2. Positions(new, u) # {}
      BY <1>3, <1>7, <2>1, <2>2, <2>3, SMTT(30)
    <3> QED
      BY <1>8, <2>3, <3>1, <3>2
  <2>4. CASE waiting[u] # r
    BY <1>5, <1>8, <2>1, <2>2, <2>4, SMTT(30)
  <2> QED
    BY <2>3, <2>4
<1>13. ExclusiveWhenOnlyExclusive'
  <2> SUFFICES ASSUME Modes[r] = {"EXCLUSIVE"},
                      NEW u \in Txn, NEW v \in Txn, Granted(new, u), Granted(new, v)
               PROVE  u = v
    BY <1>8 DEF LockInv, ExclusiveWhenOnlyExclusive
  <2>1. \A w \in Txn : ~Granted(left, w)
    BY <1>3, <1>4 DEF LockInv, ExclusiveWhenOnlyExclusive
  <2>2. u \in Notify(left, next) /\ v \in Notify(left, next)
    BY <1>7, <2>1
  <2> QED
    BY <1>6, <2>2 DEF Notify
<1>14. AwakeInv'
  <2>1. \A u \in notified' : waiting'[u] # NoResource
    BY <1>5 DEF LockInv, AwakeInv
  <2>2. ASSUME NEW u \in Txn, NEW s \in Resource,
               Positions(lock_table'[s], u) # {}, waiting[u] # s
        PROVE  Granted(lock_table'[s], u)
    <3>1. CASE s # r
      BY <1>8, <2>2, <3>1 DEF LockInv, AwakeInv
    <3>2. CASE s = r
      <4>1. u # t /\ Positions(old, u) # {}
        BY <1>3, <1>7, <1>8, <2>2, <3>2, SMTT(30)
      <4>2. Granted(old, u)
        BY <2>2, <3>2, <4>1 DEF LockInv, AwakeInv
      <4> QED
        BY <1>3, <1>7, <1>8, <3>2, <4>1, <4>2, SMTT(30)
    <3> QED
      BY <3>1, <3>2
  <2>3. ASSUME NEW s \in Resource, Modes[s] = {"EXCLUSIVE"}, NEW i \in DOMAIN lock_table'[s]
        PROVE  lock_table'[s][i].lock_type = "EXCLUSIVE"
    <3>1. CASE s # r
      BY <1>8, <2>3, <3>1, SMTT(30) DEF LockInv, AwakeInv
    <3>2. CASE s = r
      <4>1. PICK k \in DOMAIN old : left[i] = old[k]
        BY <1>2, <1>7, <1>8, <2>3, <3>2, SMTT(30)
      <4>2. old[k].lock_type = "EXCLUSIVE"
        BY <2>3, <3>2 DEF LockInv, AwakeInv
      <4> QED
        BY <1>7, <1>8, <2>3, <3>2, <4>1, <4>2, SMTT(30)
    <3> QED
      BY <3>1, <3>2
  <2> QED
    BY <1>5, <2>1, <2>2, <2>3 DEF AwakeInv
<1> QED
  BY <1>10, <1>11, <1>12, <1>13, <1>14 DEF LockInv
-----------------------------------------------------------------------------
\* Every step of such clients keeps the inductive invariant.
LEMMA LockNextInv == LockInv /\ [LockNext]_lockVars => LockInv'
<1> SUFFICES ASSUME LockInv, [LockNext]_lockVars PROVE LockInv'
  OBVIOUS
<1>1. ASSUME NEW t \in Txn, wake(t) PROVE LockInv'
  BY <1>1, WakeStep
<1>2. ASSUME NEW t \in Txn, NEW r \in Resource, Positions(lock_table[r], t) # {}, releaseLock(t, r)
      PROVE  LockInv'
  BY <1>2, ReleaseStep
<1>3. ASSUME NEW t \in Txn, NEW r \in Resource, NEW m \in LockType, acquireLock(t, r, m)
      PROVE  LockInv'
  BY <1>3, AcquireStep
<1>4. CASE UNCHANGED lockVars
  BY <1>4 DEF lockVars, LockInv, LockTypeOK, QueueHasHolder, GrantedIffNotified,
              ExclusiveWhenOnlyExclusive, AwakeInv
<1> QED
  BY <1>1, <1>2, <1>3, <1>4 DEF LockNext

\* The inductive invariant of the lock manager under any clients that release
\* only what they have asked for.
THEOREM LockInvariance == LockSpec => []LockInv
  BY LockInitInv, LockNextInv, PTL DEF LockSpec

\* Why a sleeper for an exclusive lock is not overtaken: acquireLock grants
\* nothing at once while it waits, and releaseLock grants the first in line.
LEMMA NotOvertaken ==
  ASSUME LockInv, LockNext, NEW t \in Txn, NEW u \in Txn, NEW r \in Resource,
         waiting[t] = r, ~Granted(lock_table[r], t), ~Granted(lock_table'[r], t),
         \E i \in Positions(lock_table[r], t) : lock_table[r][i].lock_type = "EXCLUSIVE",
         ~Granted(lock_table[r], u), Granted(lock_table'[r], u)
  PROVE  \E j \in Positions(lock_table[r], u) : \E i \in Positions(lock_table[r], t) : j < i
<1> DEFINE old == lock_table[r]
<1>1. old \in Seq(LockRequest) /\ lock_table \in [Resource -> Seq(LockRequest)]
  BY DEF LockInv, LockTypeOK
<1>2. u # t /\ lock_table'[r] # old
  OBVIOUS
<1>3. ASSUME NEW v \in Txn, wake(v) PROVE FALSE
  BY <1>2, <1>3 DEF wake
<1>4. ASSUME NEW v \in Txn, NEW s \in Resource, NEW m \in LockType, acquireLock(v, s, m)
      PROVE  FALSE
  <2> DEFINE q == [txn_id |-> v, lock_type |-> m, granted |-> CanGrant(lock_table[s], v, m)]
  <2>1. lock_table' = [lock_table EXCEPT ![s] = Append(lock_table[s], q)]
    BY <1>4 DEF acquireLock
  <2>2. s = r /\ lock_table'[r] = Append(old, q)
    BY <1>1, <1>2, <2>1
  <2>3. q \in LockRequest
    BY DEF LockRequest, CanGrant
  <2>4. q.txn_id = u /\ q.granted
    <3> HIDE DEF q
    <3>1. Granted(Append(old, q), u) <=> Granted(old, u) \/ (q.txn_id = u /\ q.granted)
      BY <1>1, <2>3, AppendGranted
    <3> QED
      BY <2>2, <3>1
  <2>5. CanGrant(old, u, m)
    BY <2>2, <2>4
  <2> QED
    BY <1>2, <2>5 DEF CanGrant, Positions
<1>5. ASSUME NEW v \in Txn, NEW s \in Resource, releaseLock(v, s)
      PROVE  \E j \in Positions(old, u) : \E i \in Positions(old, t) : j < i
  <2> DEFINE left == Without(old, v)
             next == FirstWaiting(left)
  <2>1. s = r /\ lock_table'[r] = Regrant(left, next) /\ v # t
    BY <1>1, <1>2, <1>5, SMTT(30) DEF releaseLock
  <2>2. left \in Seq(LockRequest) /\ next \in SUBSET DOMAIN left
    BY <1>1, WithoutProperties DEF FirstWaiting
  <2>3. Len(left) \in Nat /\ DOMAIN left = 1 .. Len(left)
    BY <2>2, LenProperties
  <2>4. ~Granted(left, u) /\ ~Granted(left, t) /\ Positions(left, t) # {}
    <3>1. Positions(old, t) # {}
      OBVIOUS
    <3>2. \A w : /\ Granted(left, w) <=> w # v /\ Granted(old, w)
                 /\ Positions(left, w) # {} <=> w # v /\ Positions(old, w) # {}
      BY <1>1, WithoutGranted
    <3> HIDE DEF left
    <3> QED
      BY <2>1, <3>1, <3>2
  <2>5. \A k, l \in DOMAIN left : k < l =>
          \E i, j \in DOMAIN old : i < j /\ left[k] = old[i] /\ left[l] = old[j]
    BY <1>1, WithoutOrder
  <2>6. \A j \in next : ~left[j].granted /\ \A k \in 1 .. j - 1 : left[k].granted
    BY DEF FirstWaiting
  <2> HIDE DEF left, next
  <2>7. u \in Notify(left, next)
    <3>1. Granted(Regrant(left, next), u) <=> Granted(left, u) \/ u \in Notify(left, next)
      BY <2>2, RegrantProperties
    <3> QED
      BY <2>1, <2>4, <3>1
  <2>8. PICK j \in next : left[j].txn_id = u
    BY <2>7 DEF Notify
  <2>9. PICK k \in DOMAIN left : left[k].txn_id = t
    BY <2>4 DEF Positions
  <2>10. ~left[k].granted
    BY <2>4, <2>9 DEF Granted
  <2>11. j < k
    BY <1>2, <2>2, <2>3, <2>6, <2>8, <2>9, <2>10, SMTT(30)
  <2>12. PICK a \in DOMAIN old, b \in DOMAIN old : a < b /\ left[j] = old[a] /\ left[k] = old[b]
    BY <2>2, <2>5, <2>8, <2>9, <2>11
  <2> QED
    BY <2>8, <2>9, <2>12, SMTT(30) DEF Positions
<1> QED
  BY <1>3, <1>4, <1>5 DEF LockNext

\* First come, first served for those who wait for an exclusive lock.
THEOREM WriterOrder == LockSpec => WriterNotOvertaken
<1>1. LockInv /\ [LockNext]_lockVars =>
        [\A t, u \in Txn : \A r \in Resource :
           LET ahead == {j \in Positions(lock_table[r], u) :
                           \E i \in Positions(lock_table[r], t) : j < i}
           IN  /\ waiting[t] = r /\ ~Granted(lock_table[r], t) /\ ~Granted(lock_table'[r], t)
               /\ \E i \in Positions(lock_table[r], t) : lock_table[r][i].lock_type = "EXCLUSIVE"
               /\ ~Granted(lock_table[r], u) /\ Granted(lock_table'[r], u)
               => ahead # {}]_lockVars
  BY NotOvertaken
<1> QED
  BY <1>1, LockInvariance, PTL DEF LockSpec, WriterNotOvertaken

\* acquireLock adds a request of t on r and no other.
LEMMA AcquirePositions ==
  ASSUME LockTypeOK, NEW t \in Txn, NEW r \in Resource, NEW m \in LockType, acquireLock(t, r, m),
         NEW u \in Txn, NEW s \in Resource
  PROVE  Positions(lock_table'[s], u) # {} <=>
           Positions(lock_table[s], u) # {} \/ (u = t /\ s = r)
<1> DEFINE q == [txn_id |-> t, lock_type |-> m, granted |-> CanGrant(lock_table[r], t, m)]
<1>1. q \in LockRequest
  BY DEF LockRequest, CanGrant
<1>2. lock_table' = [lock_table EXCEPT ![r] = Append(lock_table[r], q)]
  BY DEF acquireLock
<1>3. CASE s # r
  BY <1>2, <1>3 DEF LockTypeOK
<1>4. CASE s = r
  <2>1. lock_table'[r] = Append(lock_table[r], q) /\ lock_table[r] \in Seq(LockRequest)
    BY <1>2, SMTT(30) DEF LockTypeOK
  <2>2. Positions(Append(lock_table[r], q), u) # {} <=>
          Positions(lock_table[r], u) # {} \/ q.txn_id = u
    BY <1>1, <2>1, AppendGranted, SMTT(30)
  <2> QED
    BY <1>4, <2>1, <2>2
<1> QED
  BY <1>3, <1>4

\* releaseLock removes the requests of t on r and no others.
LEMMA ReleasePositions ==
  ASSUME LockTypeOK, NEW t \in Txn, NEW r \in Resource, releaseLock(t, r),
         NEW u \in Txn, NEW s \in Resource
  PROVE  Positions(lock_table'[s], u) # {} <=>
           Positions(lock_table[s], u) # {} /\ ~(u = t /\ s = r)
<1> DEFINE left == Without(lock_table[r], t)
           new == Regrant(left, FirstWaiting(left))
<1>1. lock_table' = [lock_table EXCEPT ![r] = new]
  BY DEF releaseLock
<1>2. CASE s # r
  BY <1>1, <1>2 DEF LockTypeOK
<1>3. CASE s = r
  <2>1. lock_table'[r] = new /\ lock_table[r] \in Seq(LockRequest)
    BY <1>1 DEF LockTypeOK
  <2>2. left \in Seq(LockRequest)
    BY <2>1, WithoutProperties
  <2>3. FirstWaiting(left) \in SUBSET DOMAIN left
    BY DEF FirstWaiting
  <2>4. Positions(left, u) # {} <=> u # t /\ Positions(lock_table[r], u) # {}
    BY <2>1, WithoutGranted, SMTT(30)
  <2> HIDE DEF left
  <2>5. Positions(new, u) = Positions(left, u)
    BY <2>2, <2>3, RegrantProperties
  <2> QED
    BY <1>3, <2>1, <2>4, <2>5
<1> QED
  BY <1>2, <1>3

=============================================================================
